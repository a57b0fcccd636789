# A TLA+ model of the Alice daemon

This directory is a verification development of `backend/crates/alice-daemon`, the
Rust daemon behind the Alice assistant. It models the parts of the daemon that keep state,
in a database, in memory or on disk, and change it from several places at once, and the
rules by which a message becomes a command; checks them with TLC on small instances and
proves the central invariants with TLAPS for every instance.

All paths below are relative to `backend/crates/alice-daemon/src/`.

## 1. The system

A user writes a message. The daemon reads it against a catalog of intents; an intent that
matches runs a shell command, and a message that matches none may be answered by a model,
also with a script that waits for the approval of the user. What was said is kept in a
transcript, and a background worker lets a model read the turns and keeps what they
teach in a long term memory. The web frontend talks to the daemon over REST and follows
the stages of a turn on a socket.

Everything runs in one process on the tokio runtime. A handler is a future that
interleaves with every other at each `await`, that is at each database call, each call of
a model and each shell. Only the intents service opens transactions. When a client closes
its connection the server drops the future of the handler where it stands; when the
daemon stops, every future is gone and the rows of the database are what is left.

| component | state | operations | hard behaviour |
| --- | --- | --- | --- |
| scripts that wait for approval: `pending_script/mod.rs`, `server/scripts.rs` | table `pending_script` | store, claim, mark as run; handlers approve and deny | two decisions at once, a dropped handler between claim and run, the order of row, run and transcript |
| memory: `librarian/facts.rs`, `store.rs`, `service.rs`, `server/librarian.rs` | tables `memory_node`, `memory_edge`, `memory_alias` | add a fact, resolve a subject, keep a name, merge, retire, delete, write by hand | the worker and an editor write the same rows without transactions; facts arrive out of order |
| queue of the memory: `librarian/episode.rs`, `service.rs`, `lifecycle.rs` | table `memory_episode` | enqueue, next, ask the model, apply, finish, retry, prune | retries, a crash between writing and closing, failures that are not counted, the retention |
| chat turn: `chat.rs`, `queue/mod.rs`, `conversation/service.rs` | tables `queued_message`, `conversation`, `chat_message` | a turn that is stored or not; list | six writes without a transaction, overlapping turns, hand-over to memory and scripts |
| handling of a message: `handling.rs` | none | resolve, fill values, run the command, build the reply, record the episode | a failed command, a retry of a turn that already ran, values and origins that come from different readers |
| resolver and router: `resolver/service.rs`, `resolver/router/`, `resolver/gliner/` | none | decide an intent, read its values, match them against lists, fall back | the order of the fallbacks, a list that is read twice in one turn, words two readers disagree about |
| command runner: `execution/runner.rs` | one child process per run | run with a timeout and an output limit | a shell that hangs or leaves a child behind, a full channel, a cut output |
| event bus and socket: `event_bus.rs`, `server/socket.rs` | a broadcast channel of 256 events | publish, subscribe, forward | a listener that lags |
| settings: `settings/service.rs`, `server/settings.rs` | table `setting`, a cached copy | get, put, forget the copy; an update of several rows | a read that fills the cache with rows a write has replaced; rows of one update written one by one |
| intents: `intent/service.rs` | tables of intents, a revision, a cached catalog | list, create, update, delete | a catalog read table by table while others write |
| entity scripts: `intent/values.rs`; command catalog: `catalog/` | caches with a lifetime | read, refresh, keep, rank | two refreshes that end in the other order |
| models: `resolver/download.rs`, `resolver/gliner/store.rs`, `resolver/local/store.rs` | files on disk, the state of the download | start, fetch, advance, remove | removal during a download, half a model, a restart |
| engines: `resolver/local/`, `resolver/gliner/engine.rs`, `resolver/router/embed.rs`, `resolver/client.rs` | loaded models, cached vectors | load, evict, run a batch, fold a streamed answer | an eviction between two reads, rows read back from the wrong place, an answer cut anywhere |
| schema and migrations: `db/mod.rs`, `db/migrate.rs` | the schema | create, add columns, backfill | a stop between two statements |

The parts talk to each other by direct calls and through the database: a turn inserts an
episode that the worker reads later, and a pending script that a later request approves;
the handler of that request appends to the transcript of the turn; the editor of the
memory changes the rows the worker writes; the settings page turns the memory off while
episodes wait.

## 2. The modules

| module | models |
| --- | --- |
| `ScriptDecision` | what is promised of a script: the user decides once, and only an approved script starts, once |
| `PendingScripts` | the store of pending scripts and the two handlers; shown to implement `ScriptDecision` |
| `FactLife` | what is promised of one fact: it keeps what it says, a closed one is never true again, and it goes only with its concept |
| `MemoryStore` | the tables of the memory and every write of them; shown to implement `FactLife` |
| `MemoryRecall` | the readings of the memory: the seed of a turn, a search, the report of the linter |
| `EpisodeQueue` | the queue of episodes, its worker, and what else decides whether an episode can be read |
| `ChatTurn` | the turns of the chat, their queue rows and the transcript |
| `IntentRouter` | which intent the layered router may choose for a message, and by which reader |
| `MessageReading` | one message from its text to its reply; extends `IntentRouter` |
| `LabelReading` | the intent and the values as the readers without the router read them |
| `SettingsCache`, `SettingsUpdate` | the copy of the settings in memory; the rows of one update, with the stages and the sliders |
| `IntentCatalog` | the catalog of the intents, its revision and its writers |
| `ScriptLists` | the live list of a script entity |
| `CommandCatalog` | the commands of the machine and what a prompt lists of them |
| `CommandRun` | one run of a shell command |
| `EventStream` | the event bus and the sockets |
| `ModelStore` | the model files and their downloads |
| `ModelEngines` | the models the engines keep loaded, and the device each runs on |
| `EmbedCache` | the cache of vectors |
| `ModelBatch` | the layout of a pass of a built in model, and what is read back |
| `AnswerStream`, `ModelAnswer` | the streamed answer of a language model, and what is read out of it |
| `SchemaUpgrade` | the start of the daemon on an older database |
| `Picks` | the elements of a list at some of its places, in their order: what a filter leaves |
| `PendingScripts_proofs`, `EpisodeQueue_proofs`, `ChatTurn_proofs`, `MessageReading_proofs`, `MemoryStore_proofs` | the theorems about the module of that name |
| `Settings_proofs` | those about `SettingsCache`, `SettingsUpdate` and `IntentCatalog` |
| `Models_proofs` | those about `ModelStore`, `EmbedCache`, `ModelEngines` and `ModelAnswer` |
| `DaemonParts_proofs` | those about `EventStream`, `SchemaUpgrade`, `ScriptLists`, `CommandRun`, `CommandCatalog`, `MemoryRecall`, `AnswerStream`, `LabelReading` and `ModelBatch` |
| `MC*` | the instances TLC checks |

`ChatTurn` and `MessageReading` meet in the reading: to the first it is a choice of its
outcome, to the second the whole of its work. `MCDaemonParts` checks the sixteen parts
around the turn. They share no state, so a behaviour of it runs one of them, named by
`focus`, and the others keep their first state: the states of that run are the sum and not
the product of the parts' states.

Definitions named "Seeded fault" are wrong variants of the definition after them. No
specification uses them; they exist to confirm that each property notices a plausible
mistake.

### PendingScripts

`status` is the status column. A request of the approve or deny handler is a process whose
`pc` names the database call (or the shell) it waits for: `ReadRow` and `WriteClaim` are
the two calls of `claim`, `ReadDecided` the read of a handler whose claim came second,
`Approve` the step from the claim to the started shell (nothing is awaited between),
`EndRun` the end of the shell or its timeout, `MarkRan`, `AppendAnswer`,
`TouchConversation` and `ReadStored` the calls of `finish` and the last read. `DbError`,
`Disconnect` and `Restart` end handlers early and leave the rows alone. `runs`, `answers`
and `reply` record what the outside saw.

### MemoryStore

`nodes`, `alias` and `edges` are the three tables. Every actor, the worker or an editor,
is in at most one call, whose local variables are the record `job[a]`; each action is one
database call of it. `Learn` is `apply_facts`, which loops through `resolve_subject`
(`ByKey`, `ByAlias`, `ByScan`), `record_alias` (`FindAlias`, `KeepAlias`), `touch_node`,
`upsert_node` and `add_fact` (`ReadCurrent`, then `Confirm`, or `CloseOld` and
`InsertFact`). `Write`, `Merge`, `Retire` and `Delete` are the handlers of
`server/librarian.rs`. Rows a call has read are kept in `seen`, `todo` and `names`, so what
it does with them later may be stale, as in the code. `Stop` ends a call anywhere.

Abstractions. A name is a class of `same_name`, a relation a class of `relation_key` and a
value a class of `same_fact_value`, so that two spellings of one key that the table
could hold apart are one name here. The names of a call are dropped once its concept is found and its
fact read, since no later step reads them. Confidence, importance, confirmations, bodies and
`updated_at` decide no step. The scan over the concepts takes any match, since its order is
by the time they changed last. Titles are never empty. Identifiers of facts are drawn in
order; that order is never read.

### EpisodeQueue

`row` holds what a row of `memory_episode` says: whether it is processed, its attempts, whether
it waits for its next attempt, its reason and its words. Episode `e` carries time `e`; the
inserts come in any order. The worker's `pc` goes from `NextEpisode` through `ReadSettings`,
`AskModel` and a `WriteFact` for each fact of the answer to `Finish`, `GiveUp` or `Retry`, or
through `FinishOff` when the memory was turned off, and to `Prune` when there is nothing to
read. An answer is a list of facts, each about a subject; `facts` holds those still to write.
The memory is reduced to whether a name reaches a concept, or is kept for a concept that is
gone: in that case `touch_node` updates no row and `apply_facts` fails between two facts
(`MissSubject`), which `MemoryStore` shows step by step. `failures`, `taught`, `cuts` and
`whole` record what happened to each episode: how often the model failed, the passes that wrote
facts, those of them that broke off at a concept that was gone, and whether an answer was
written to its end. A pass is counted until `MaxCuts` of its episode have broken off. A
restarted worker begins again at `NextEpisode`; that is also what the loop does after an error,
so `Stop` is both.

### ChatTurn

Each turn goes through the calls of `store_turn`, or of `build_ephemeral_turn` when the queue is
off. `messages` is the transcript in the order of the inserts. `Before` is the order the listing
asks for, by the time alone: messages of one time, as a question and its reply are, may come in
either order, and nothing here rests on which. A reading either runs an intent or becomes an
episode, and then may propose a script. `MarkLearned` is the worker, which marks the message of
an episode; `ScriptAnswer` and `TouchScript` are the approval handler. Turns begin at different
times and the clock does not go back.

### MessageReading and IntentRouter

`pc` is the stage of the reading. The router acts in the order of `route`: the deterministic
pass of `fastpath.rs` over the phrases (`FastPath`), the ranking cut to its best (`Ranking`),
and the decision by one reader, which falls back on the scores (`Decide*`). `Extract` reads
the list of the script and then the values, `Settle` lays the proven value over them,
`Match*` puts the entry of a list in the place of the words, and `Ask`, `Report`, `Start` and
`Finish` are `read`, the refusals and `run_command` of `handling.rs`. Of a reading without an
intent `Need` and `Write` are the fallback. What the user may change meanwhile is chosen by
the step that reads it.

Abstractions. A score is one of a small range, so a ranking is any function from intents to
scores; a model answers anything its schema allows, or nothing. An intent has up to three
entities, one of each kind. The rules of the matcher are reduced to which entry words name;
`LabelReading` has them in detail.

### LabelReading

One turn of the three backends that use no router: `AskLabels` and `ScoreIntents` are the span
finder over the labels of all intents (`labels_for`, `score_intents`), `NameIntent` the
language model, `ReadSpans` and `ReadWords` the two readers of values, `MatchEntries` the
matching of `intent/matcher.rs`. Texts are sequences of a few words; a hit is any span and
any score the model may give. `PrintOther` changes what the script prints between two runs.

### Settings, catalog, lists

`SettingsCache` has the rows and the copy for their own sake: a call takes the copy or reads
row after row, and a put forgets the copy after each row. `SettingsUpdate` has one update in
full: `validate_router`, the two sliders and their preset, in the order of the handler. A call
that ended holds nothing, so what it had read is reset: only its own later reads, which
begin anew, would see it. An update that sends neither stages nor sliders writes none of these
rows and is left out. `IntentCatalog` reads intents and their parts by two statements
and keeps them under the revision it read first. `ScriptLists` has the runs of one script that
end in any order; a list is known by the script and the time of its run. `CommandCatalog`
runs fish and then the manual, one process after the other, with installations between them
(`ReadFish`, `ReadManual`), and cuts, keeps and ranks the commands; a command is its place in
the order of names.

### Models

`ModelStore` is one action per step of `fetch_file` (open, write, rename), a removal at any
time and a restart that keeps the files alone. `ModelEngines` has the lock of an engine
held while it loads, as in the code, so a load is one step; `Keeper` names which of the two
lists of loaded models holds a role, the one of `encoder.rs` or the one of `laya.rs`.
`EmbedCache` looks every text up, reads what is missing in one request and keeps one vector at
a time. `ModelBatch` builds the rows token by token, pads them to a rectangle and reads the
scores back by their offset; what the model computes is outside: a token that may attend to
exactly its own row reads its true score, another reads noise. `AnswerStream` cuts the stream
of the server anywhere, `ModelAnswer` ends an answer after any token, and then applies the
parsers of `prompt.rs`, `probability.rs` and `answer.rs`, and `match_intent`.

### CommandRun, EventStream, SchemaUpgrade, MemoryRecall

`CommandRun` is the shell and what it leaves in the background, a pipe and a task per stream,
the bounded channel and the future that collects until the timeout. `EventStream` has a bus
that keeps the last `Capacity` events and sockets with a cursor. `SchemaUpgrade` is one action
per statement of `connect` and `apply`, with a crash between any two. `MemoryRecall` is one
reading, one action per database call, beside one call that writes, statement by statement;
writers that overlap are the subject of `MemoryStore`. A text is a sequence of words, of which
the first `MaxTerms` are looked for; of the concepts they name the search reads the
`SearchCandidates` changed last, or more for a larger limit, and what it did not read is
recorded in `missed`.

## 3. What is checked

| run | instance | what it shows |
| --- | --- | --- |
| `pending_scripts` | 2 requests, 2 scripts (one without a conversation), 2 failures | the refinement of `ScriptDecision`, what clients were told stays true, and that an approved script closes |
| `memory_sequential` | one actor that both learns and edits; 2 names, 1 relation, 2 values, 2 concepts, 3 facts, 4 calls | between calls the memory is consistent: one current value, no fact without a concept, sound chains |
| `memory_shared` | a worker beside an editor; 1 value, 2 facts, 3 calls, 1 stop | under every interleaving the history of facts follows `FactLife` and a name is only moved by a merge |
| `episode_queue` | 2 turns, answers of at most 2 facts about 1 name, 1 counted cut, 1 failure | attempts, reasons, sightings, retention, and that the queue drains |
| `chat_turn` | 2 turns, 1 conversation, 1 failure | the queue, the transcript and its order agree |
| `message_reading` | 3 intents, 2 entries, 8 messages, scores 0 to 3, a ranking of 2 | the command is whole, a proven value stands, each origin is true, the report of the route names who decided, the events tell the turn, and every turn is answered |
| `daemon_parts` | one of sixteen parts, see below | one property per part, and that the upgrade of the schema finishes |
| `memory_older_value` | as sequential, 3 calls | violated: see below |
| `memory_race` | a worker beside an editor | violated: see below |
| `episode_poison` | 2 turns, no failure | violated: see below |
| `chat_memory` | 2 turns, no failure | violated: see below |
| `closed_values` | as `message_reading` | violated: see below |

The parts of `daemon_parts`, their properties and their bounds:

| part | property | instance |
| --- | --- | --- |
| settings | `CopyStaleOnlyByRace`: the copy is the table, except beside a put, or after a read a put overtook | 2 calls, 2 keys, 2 values |
| intents | `CatalogFresh`: the catalog that serves is the tables, of one edition | 2 readers, 2 writers, 2 names |
| lists | `ServedFresh`: a list from memory was asked for less than its lifetime before, and for this script | 2 turns, 2 scripts, lifetime 1, time 2 |
| models | `ModelsInstalled`: an installed model is whole, a finished download left its model | 2 models of 2 files, 2 downloads, 1 restart |
| events | `StreamContiguous`: a socket sends what was published since it joined, in order and without a gap | 2 sockets, capacity 2, 5 events |
| schema | `UpgradeKeeps`, `UpgradeFinishes`: one import at most, no message unlinked, no fact undated, unless a start was cut between a column and its rows; a start ends | 2 messages, 2 facts, 2 columns, 3 crashes |
| engines | `ReadsAsAsked`: a read is answered by the model and the device it asked for; no model is loaded twice, or by the other engine | 2 reads, 3 models of three roles, room for 1, one accelerated device |
| vectors | `VectorsWhole`: each text has its own vector, of the place that was asked | 2 turns, 2 texts, 2 places, 2 entries |
| run | `OutputTold`: what the outcome says was written, in order, and what was told live is the same | channel 2, output 1, 2 lines a stream |
| answer | `ChunksJoined`: the answer is what the server wrote, however it is cut | 4 lines of two halves |
| commands | `CommandsRead`: a turn reads the commands of one run of fish, as many as fit, with the sentences of one run of the manual, within the lifetime of the list | 2 states of the machine, 3 commands kept, 2 turns, lifetime 1, clock 2 |
| update | `StoredRunnable`: the stages that are left can run | 1 or 2 updates, or 1 and a reading, 6 requests, 2 updates begun, 1 lost call |
| batch | `OwnAnswers`: each entity is answered by the scores of its own options, each text by its own vector | 6 lists, head 5, length 8 |
| reading | `CutChangesNothing`: a cut answer does what the whole one asks for, or nothing | 2 to 4 letters wanted of 3 |
| memory | `RecallAgrees`: a reading agrees with itself and with what stood still | 3 concepts that share a word, 3 facts, 5 texts, 3 words looked for, 1 writing call, seed of 1, search of 1 or 2, 1 candidate at least |
| labels | `LabelsReadTurn`: the labels asked are those of the intents, the words name the intent, the values come from the message or the list | 2 catalogs of 2 intents, 6 messages, 3 listings, 6 labels |

Deadlock is not checked: requests, turns, calls and readings are finite in number and each
part may come to rest. The type invariants serve the proofs and are not run on their own.
`daemon_parts` uses no symmetry, since it checks a liveness property; three of its parts
begin in one representative of states that differ only in which actor or which value they
name.

Why the bounds are enough. Every hazard of the handlers is a conflict of two actors over one
row, or of one actor with what it left behind earlier: two requests, two turns, or a worker and
an editor show it. Three attempts of an episode fit without a bound on the failures of the
model, since only failures of the database and the daemon are bounded. A chain of facts needs
three, a merge two concepts; four calls are the shortest sequence in which both concepts are
opened, merged and used again. Two facts are the shortest answer that can break off after a fact
was written; one name suffices for that, since the concept can go between the two. An answer
whose second subject dangles while its first does not needs a second name, with which the queue
has too many states for the liveness property: this case, and more than one cut, rest on the
theorem. `memory_shared` has the smaller data because its state is a product of two calls in
progress.

A reading of a message needs a tie, a clear lead and a score below the floor (scores 0 to 3),
an intent with an entity of each kind beside one without, and a list that loses an entry. A
cache goes stale between two callers over one row, so two are enough, and a lifetime of 1 in
a time of 2 has the moment at which it ends. A batch of two rows of unequal length has all of
the padding; lists of four options exceed the head. The channels are smaller than what is
written to them, so a full one happens. With three concepts that share a word a search of one and
a seed of one both leave a named concept unread; that an unnamed one then takes its place needs a
fourth, and rests on the theorem. Three crashes outlast the longest repair of the
schema, and one lost call or failed statement is what each of the other guards is about.

### What the runs found

* `OlderValueCloses`: an episode that is read late closes a newer value with its older one.
  `add_fact` closes what is current without comparing the dates, which `merge_nodes`
  does (`facts.rs:101` against the header, `facts.rs:3-4`).
* `OneCurrent` with a worker beside an editor: `add_fact` reads, closes and inserts in separate
  calls, so two writers leave one relation with two current values (`facts.rs:78` against
  `facts.rs:64`).
* `NeverRetriedForEver`: an episode that names a concept whose name outlived it cannot be
  written; the error leaves `ingest_once` before the attempt is counted, and the same
  episode is read first again (`service.rs:322` against `service.rs:38-39`). The memory
  itself lets this happen: `delete_node` leaves the names of the concept behind. When other facts
  of the answer come before the one that fails, each pass writes them again, and a fact that
  was heard once is confirmed on every pass (`facts.rs:299-341`); `SightedOnce` therefore
  counts the passes that broke off.
* `MemoryNamesShownMessage`: the message is stored after the turn is read, not before
  (`chat.rs:264` against `chat.rs:229-230`).
* `ClosedValueProven`: the deterministic pass takes the lists of scripts only, so a message that
  spells a configured value of a closed entity is left to the models
  (`resolver/service.rs:1543-1545` against `intent/values.rs:177`).

### Behaviour met on the way that no run is about

* `Claim::Decided` of a lost race carries the status read first, "pending"
  (`pending_script/mod.rs:145`); the handler reads the row again, so no client sees it
  (`ReplyHolds`).
* A handler dropped after its claim leaves the row approved for ever; a script that could not
  start is still marked as run (`pending_script/mod.rs:25`).
* A delete beside a turn that already resolved the concept can leave facts without a concept;
  a failure between closing and inserting leaves a relation without a current value.
* A turn that fails leaves its queue row pending for ever; nothing reads the queue again.
* A question and its reply carry one time (`chat.rs:201`) and the listing orders by the time alone
  (`conversation/service.rs:160`), so the database may list the reply first; they are
  next to each other in either case.
* Of two overlapping turns the older one may write `updated_at` last and move it back. A
  listing of a long conversation shows its oldest page.
* A failure of the database after the command ran is answered as an error; a client that tries
  again runs the command twice.
* Settings: a read that a put overtakes keeps the old rows as the copy
  (`settings/service.rs:179`), and an update that starts from such a copy, or overlaps
  another, writes all of its rows back, which may store weights that are both zero.
* A command that failed to start or ran out of time is answered with "Execution is off"
  (`handling.rs:543`, `handling.rs:563`).
* Readers: the words of the language model replace values the choice or the spans read
  (`resolver/service.rs:1674-1681`); a refusal by score under a reranker names a model that
  read nothing (`1436-1449`); an origin outlives the value that was taken away; with dense
  matching the raw words may run. The list of a script is read twice by the span reader, and
  the entry is matched in the second (`819`). When the spans read one of two values, the
  language model is not asked for the other (`1878-1883`).
* More letters than options, more than 25, are an error, and the router falls back on the
  scores. The confidence is read at the first token that is one letter
  (`probability.rs:88-89`), also when the model reasoned in letters before.
* Lists: a failed run keeps an older list, also of another script (`intent/values.rs:27`).
* Schema: an import that is cut short leaves its messages unlinked for ever.
* Models: a removal during a download can end "done" without the model. A load that fails has
  evicted another model before (`encoder.rs:213` against `encoder.rs:41`). Vectors of two
  servers that share the name of a model are one entry (`embed.rs:113`). The decision model
  loses options of a long list past its length (`laya.rs:466-468`).
* A torn read of the catalog is given to the turn that read it, though it never serves another.
* An answer whose connection closed is taken as whole; a script without a rating counts as the
  safest; a character cut by a chunk is lost (`client.rs:343`).
* Runner: the lines after bytes that are no text are lost (`runner.rs:178` against
  `runner.rs:67`), and a child in the background outlives the timeout (`runner.rs:117`).
* Fish and the manual are read one after the other (`catalog/store.rs:126-127`), so an
  installation between the two leaves a list of commands beside sentences of another moment.
* The catalog of commands that is cut is not in the order of names the ranking assumes
  (`catalog/store.rs:142`).
* Memory: a concept the text names with one or two words can be outranked by concepts it does
  not name (`librarian/store.rs:417-421`), and so can one it names in full when it was not among
  the 200 named concepts changed last (`librarian/store.rs:376`); a seed read between the
  closing and the inserting of a value tells none of them, and during a merge it can tell the
  source without its facts; the counts of the status page are separate reads.

### Fairness

`PendingScripts!FairSpec` is weak fairness of each live handler: the runtime polls it, the
database answers, and `CommandRunner::run` ends every shell by its timeout. Calls, proposals and
failures are not fair. `EpisodeQueue!FairSpec` is weak fairness of the worker loop, which never
ends once the daemon has started with the librarian configured (`lifecycle.rs`), and of the
passing of a wait; turns, edits and the settings page owe nothing. `MessageReading!Spec` is weak
fairness of the step of the reading: every call of a model and every command has a timeout, and
the service takes the next reader. The upgrade is weakly fair in the next statement of a start:
a daemon that stopped is started again and its start goes on, and crashes are bounded.
`QueueDrains` is stated for behaviours in which names of deleted concepts are eventually gone,
because `NeverRetriedForEver` fails without that.

## 4. What is proved

Checked by TLAPS, for every value of the constants that satisfies their assumptions:

* `PendingScripts_proofs`: `RunsByApproval`, `ReplyHolds`, `AnswerAfterRun`, and that `Spec`
  implements `ScriptDecision` (`ImplementsDecision`). The inductive invariant ties each
  handler past its claim to its row: at most one handler owns a script, its row is approved
  while it owns it, the shell has not started while it is about to, and the row is closed
  before the answer is appended. None of the three properties is inductive alone, because
  nothing in them says that two handlers cannot both be about to start a shell. Assumed
  are only that `Conversed` is a set of scripts and the bounds are numbers.
* `EpisodeQueue_proofs`: `TypeOK`, `TriesCounted`, `ClosedMeansRead`, `SightedOnce` and
  `WordsOutliveTheWait`. The strengthening says that the episode the worker reads is unread
  (`ReadsUnread`), that a failure on its way to the row is already in `failures`
  (`FailureUnderWay`), that what is about to be closed was read (`ReadUnderWay`), that facts are
  on their way only between the first and the last of an answer (`BegunUnderWay`), that an
  episode still open was sighted only by passes that failed or broke off, apart from the one
  under way (`SightingUnderWay`), and that a turn which has not stored its episode has no row
  (`StoredOnce`). Without them a step of the worker could close a row another step has changed.

* `ChatTurn_proofs`: `TypeOK`, `HandledMeansStored`, `TurnsListedWhole`, `AnswersListedAfterTurn`. The
  invariant says which messages of a turn exist at each of its stages (`StageInv`), that the
  times of turns are distinct (`TimesInv`) and what the time of each message is
  (`TranscriptInv`); only from the times does the order of the listing follow.
* `MessageReading_proofs`: `CommandWhole`, `ProvenValueStands`, `OriginsTrue`, for every catalog,
  list, message and ranking. The strengthening says that a value of the list that was
  matched by the rules is an entry of it from the matching to the run (`ValuesInv`).
  `RouteHolds` needs that the short list is the order of the scores: `PlaceOf` and `ShortRanks`
  show that the number of intents before one is its place and that every place is taken, for
  any finite set of intents. `EventsTellTurn` needs at each stage what has been told and what
  is still to be told of it (`EventsInv`, `TellingInv`): the values of every intent that has
  entities, also where none was read.
* `MemoryStore_proofs`. For any number of actors, faults and calls: the type of the tables and
  of every call in progress (`MemoryInv`), `NamesStay`, and that `Spec` implements `FactLife`
  (`ImplementsFactLife`), action by action. With one actor (`OneActor`): `OneCurrent`, from what
  a call relies on between its reads and its writes (`CurrentInv`: the rows it has read as
  current are still the ones that are, and a merge has settled the relations it has passed).
  With one actor that is never stopped (`MaxFaults = 0`): `NoOrphanFacts` and `ChainsHold`, from
  `TidyInv`, which follows a fact through the steps that move or replace it. These hypotheses
  are not for convenience: with an editor beside the worker `OneCurrent` fails (`memory_race`), and
  a delete beside a turn, or a call that stops between closing and inserting, breaks the other
  two (see "Behaviour met on the way").
* `Settings_proofs`: `CopyStaleOnlyByRace`, from `ReadHolds`: what a reading call has read
  still stands, unless a put overtook it. `StoredRunnable`, from `UpdateInv`: before an
  update writes its first stage the table can run, and from then on the stages it has written
  and those it has still to write are one set that can run (`WritesSet`), since it writes all
  three whichever of them were sent. `CatalogFresh`,
  from `ReadsHold` and `RevisionsBehind`: what was read at a revision that still counts still
  stands, and no revision is ahead.
* `Models_proofs`: `ModelsInstalled`, from `OneRuns`, `OwnPart` and `FilesBehind`: one task
  runs, it owns the part file it writes, and the files before its own are there unless the
  model was removed. `VectorsWhole`, from `EntriesTrue` (an entry holds the vector of its text at
  the place it names) and what each turn has collected so far. `ReadsAsAsked`, from `SessionTrue`,
  `OwnLoads` and `ReadTrue`: each engine holds each model once and only models of its own roles, and
  a read that runs was given the model it asked for on a device that answers its wish, whatever
  is evicted or probed meanwhile.
* `DaemonParts_proofs`: `StreamContiguous` (the cursor lies between the joining and the last
  event), `UpgradeKeeps` (at each statement, what has been imported and which columns are
  there) and `ServedFresh` (a list in memory is no younger than its run, `Honest`).
  `OutputTold`, from `OnTheWay`: the lines in the channel are exactly those read from a pipe and
  not told yet, and of each stream they are in its order, so that an empty channel behind two
  readers that are done means that all was told. `CommandsRead`, for everything fish and the
  manual may print: an order on a finite set has a place for each member (`SortedTakesAll`),
  a list that is cut holds whatever stands before one that it holds (`CapTakesFirst`), and the
  copy in memory and every turn hold such a list of one run of each tool (`CatalogInv`).

  `RecallAgrees`, from `RecallInv`. Of the writing call it says what its next statements rely on
  (`WriteInv`: it closes before it inserts or moves, an insert takes a free row of a relation no
  value of which stays current, and of the rows a merge brings together at most one does); of the
  reading, that no concept is found twice (`FoundOnce`), that a concept named in full was found, was
  not read for the many named ones that changed later, or gave way to others that are named
  (`NamedFound`), and that a fact seen closed stays closed
  (`ShutStays`). `ChunksJoined`, from `AnswerInv`: the half of a
  line that waits is the one the last chunk was cut in, and what was kept and what was shown are
  two filters of the same lines, those complete so far. `LabelsReadTurn`, from `LabelsInv`: the
  labels that wait for the model are those of the catalog, and each value that was read stands for
  its entity; that some intent scores best and some entry of a list matches best is because there
  are finitely many. `OwnAnswers`, from `BatchInv`: a marker that is left in a row points at the
  marker token of its own option (`QuestionRow`), and all are left when the options fit the head.
  The markers rise, so those that the length of the model cuts off are the last. `CellAt` and
  `CellOf` are the arithmetic of the flat array: each place is one row and one column.
* `Models_proofs`, about the answers of a language model: `CutChangesNothing`, from
  `AnswerReadInv`: what the model is writing keeps the schema it was given (`MeantSchema`), and
  what was read is what the parsers take of the tokens up to the cut. Lemmas about each schema
  then say what that is: as much as the whole answer asks for, or nothing.

What a filter, a sum or a concatenation gives for a list of any length is proved without an
induction theorem: a set of numbers up to `n` that are wrong has a least member (`LeastThere`,
`UpTo`), which is not 0 and whose predecessor is right. `PlacesRise` and `PickedIs` say of any
finite set of places that it has an order and that a filter takes it (`Picks`).

Assumed are only the named assumptions on the constants, which TLC evaluates on every run,
and the two hypotheses of `MemoryStore_proofs` named above. The assumption of `ModelBatch` that
asks most is that the head of the decision model fits its length; both are read from the file the
model comes with.

### What is only model-checked

Liveness (`ApprovalCloses`, `QueueDrains`, `TurnAnswered`, `UpgradeFinishes`): it is out of the
prover's reach, with the fairness it needs. Every other property of a passing run is a theorem.

## 5. What is not modelled

* The arithmetic of the models and of text similarity: tensors, token ids, the weights of the
  score. A model answers anything its schema allows, and a score is one of a small range.
* The interpolation of the presets, which is floating point, and the inspection of the machine,
  which only reads.
* HTTP, serialisation, OpenAPI, the parsing of the configuration file, the wording of prompts
  and replies, the report of the route: they change no state.
* Paging of the transcript, the counts of the status page, marks that are only read.
* The normalisation of the input of an intent and the change of its name.
* In `MemoryRecall`, writers that overlap, and relations besides one; in `ModelStore`, the
  second store, which has the same operations, and the byte counts of the progress.
* The frontend, which keeps no state of the daemon, the offline evaluation tools, and the
  packaging.
