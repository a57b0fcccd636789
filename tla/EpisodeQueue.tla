---------------------------- MODULE EpisodeQueue ----------------------------
(***************************************************************************)
(* The queue of turns the memory learns from (librarian/episode.rs) and    *)
(* the worker that reads it (librarian/service.rs, lifecycle.rs).          *)
(*                                                                         *)
(* A turn writes one episode and goes on.  The worker takes the oldest     *)
(* episode that may be read, asks the model for its facts, writes them one *)
(* after the other and closes the episode.  Each step below is one         *)
(* database call, one call of the model or one fact; the worker may fail   *)
(* or stop between any two, and an editor may act there.                   *)
(*                                                                         *)
(* The memory itself is reduced to what decides whether a fact can be      *)
(* written: whether the name of its subject reaches a concept, and whether *)
(* it is kept for one that is gone (see MemoryStore).                      *)
(***************************************************************************)
EXTENDS Naturals, Sequences

CONSTANTS
  Turns,        \* how many turns are handled; turn t is stored at time t
  Names,        \* the names the model gives the subjects of its facts
  MaxFacts,     \* bound on the facts of one answer
  MaxFaults,    \* bound on failures of the database and of the daemon
  MaxCuts       \* how many cut passes of an episode are counted

ASSUME TurnsAssumption ==
  Turns \in Nat /\ MaxFacts \in Nat /\ MaxFaults \in Nat /\ MaxCuts \in Nat

MaxAttempts == 3     \* MAX_INGEST_ATTEMPTS

VARIABLES
  enabled,   \* the librarian_enabled setting
  turn,      \* where each turn is in storing its episode
  row,       \* the row of each episode
  old,       \* the episodes older than the retention
  name,      \* what the memory holds under each name
  pc,        \* the step the worker waits for
  cur,       \* the episode it reads
  facts,     \* the subjects of the facts it has still to write
  begun,     \* whether it wrote a fact of this answer already
  failures,  \* how often the model failed on each episode
  taught,    \* the passes that wrote facts of each episode
  cuts,      \* those of them that ended at a concept that was gone
  whole,     \* the episodes an answer of which was written to its end
  faults     \* failures so far

vars == <<enabled, turn, row, old, name, pc, cur, facts, begun,
          failures, taught, cuts, whole, faults>>
history == <<failures, taught, cuts, whole>>
worker == <<pc, cur, facts, begun>>
outside == <<enabled, turn, old>>

Episodes == 1..Turns
Answers == UNION {[1..n -> Names] : n \in 0..MaxFacts}

Row(state) == [state |-> state, attempts |-> 0, waits |-> FALSE, error |-> "none",
               words |-> state = "unread"]

Rows == [state : {"absent", "unread", "done"}, attempts : 0..(MaxAttempts - 1),
         waits : BOOLEAN, error : {"none", "off", "failed"}, words : BOOLEAN]

Init ==
  /\ enabled \in BOOLEAN
  /\ turn = [e \in Episodes |-> "handled"]
  /\ row = [e \in Episodes |-> Row("absent")]
  /\ old = {}
  /\ name = [x \in Names |-> "unknown"]
  /\ pc = "next" /\ cur = 0 /\ facts = <<>> /\ begun = FALSE
  /\ failures = [e \in Episodes |-> 0]
  /\ taught = [e \in Episodes |-> 0] /\ cuts = [e \in Episodes |-> 0]
  /\ whole = {}
  /\ faults = 0

-----------------------------------------------------------------------------
\* The turns.  The setting is read before the insert.

ReadSetting(e) ==
  /\ turn[e] = "handled"
  /\ turn' = [turn EXCEPT ![e] = IF enabled THEN "stores" ELSE "done"]
  /\ UNCHANGED <<enabled, row, old, name, worker, history, faults>>

Enqueue(e) ==
  /\ turn[e] = "stores"
  /\ turn' = [turn EXCEPT ![e] = "done"]
  /\ row' = [row EXCEPT ![e] = Row("unread")]
  /\ UNCHANGED <<enabled, old, name, worker, history, faults>>

\* The user turns the memory on or off.
Toggle ==
  /\ enabled' = ~enabled
  /\ UNCHANGED <<turn, row, old, name, worker, history, faults>>

\* The wait of a failed episode passes, and the retention of an old one.
WaitOver(e) ==
  /\ row[e].waits
  /\ row' = [row EXCEPT ![e] = [@ EXCEPT !.waits = FALSE]]
  /\ UNCHANGED <<outside, name, worker, history, faults>>

GrowOld(e) ==
  /\ turn[e] = "done" /\ e \notin old
  /\ 1..(e - 1) \subseteq old
  /\ old' = old \cup {e}
  /\ UNCHANGED <<enabled, turn, row, name, worker, history, faults>>

-----------------------------------------------------------------------------
\* What an editor does to the concept of a name.  A delete leaves the name
\* of a concept behind when a turn had already used it again.

DeleteConcept(x) ==
  /\ name[x] \in {"opened", "named"}
  /\ name' = [name EXCEPT ![x] = IF @ = "named" THEN "dangling" ELSE "unknown"]
  /\ UNCHANGED <<outside, row, worker, history, faults>>

WriteConcept(x) ==
  /\ name[x] \in {"unknown", "dangling"}
  /\ name' = [name EXCEPT ![x] = IF @ = "dangling" THEN "named" ELSE "opened"]
  /\ UNCHANGED <<outside, row, worker, history, faults>>

-----------------------------------------------------------------------------
\* The worker: ingest_once, step by step, and the loop around it.

\* Seeded fault: an episode the model failed on is not read again.
ReadyFresh == {e \in Episodes : row[e].state = "unread" /\ row[e].attempts = 0}

Ready == {e \in Episodes : row[e].state = "unread" /\ ~row[e].waits}

Sleep == pc' = "next" /\ cur' = 0 /\ facts' = <<>> /\ begun' = FALSE

NextEpisode ==
  /\ pc = "next"
  /\ \/ /\ Ready = {} /\ pc' = "maintain" /\ UNCHANGED cur
     \/ \E e \in Ready :
          /\ \A f \in Ready : e <= f
          /\ pc' = "settings" /\ cur' = e
  /\ UNCHANGED <<outside, row, name, facts, begun, history, faults>>

ReadSettings ==
  /\ pc = "settings"
  /\ pc' = IF enabled THEN "model" ELSE "off"
  /\ UNCHANGED <<outside, row, name, cur, facts, begun, history, faults>>

\* The answer teaches facts, each about a subject it names, or nothing, or the
\* model fails.  Facts the gate drops are no part of the answer here.
AskModel ==
  /\ pc = "model"
  /\ \/ /\ \E answer \in Answers \ {<<>>} : facts' = answer
        /\ pc' = "apply" /\ UNCHANGED <<failures, whole>>
     \/ pc' = "finish" /\ whole' = whole \cup {cur} /\ UNCHANGED <<facts, failures>>
     \/ /\ pc' = IF row[cur].attempts + 1 >= MaxAttempts THEN "giveUp" ELSE "retry"
        /\ failures' = [failures EXCEPT ![cur] = @ + 1]
        /\ UNCHANGED <<facts, whole>>
  /\ UNCHANGED <<outside, row, name, cur, begun, taught, cuts, faults>>

\* A concept is opened by its key; a fact about one that is there keeps the names
\* the reader gave it too.
Reach(x) == name' = [name EXCEPT ![x] = IF @ = "unknown" THEN "opened" ELSE "named"]

Subject == Head(facts)
Counted == cuts[cur] < MaxCuts

\* The next fact is written; the episode is read when it was the last one.
WriteFact ==
  /\ pc = "apply" /\ name[Subject] # "dangling"
  /\ Reach(Subject)
  /\ facts' = Tail(facts) /\ begun' = TRUE
  /\ pc' = IF Tail(facts) = <<>> THEN "finish" ELSE "apply"
  /\ whole' = IF Tail(facts) = <<>> THEN whole \cup {cur} ELSE whole
  /\ taught' = IF ~begun /\ Counted THEN [taught EXCEPT ![cur] = @ + 1] ELSE taught
  /\ UNCHANGED <<outside, row, cur, failures, cuts, faults>>

\* The name of the next fact is kept for a concept that is gone, or the editor
\* deletes the concept while the name is kept for it: touching the concept fails,
\* and the facts before it stay written.
MissSubject ==
  /\ pc = "apply" /\ name[Subject] # "unknown"
  /\ name' = [name EXCEPT ![Subject] = "dangling"]
  /\ cuts' = IF begun /\ Counted THEN [cuts EXCEPT ![cur] = @ + 1] ELSE cuts
  /\ Sleep
  /\ UNCHANGED <<outside, row, failures, taught, whole, faults>>

\* Seeded fault: the attempt that succeeded is kept for another time.
FinishLater ==
  /\ pc = "finish"
  /\ row' = [row EXCEPT ![cur] = [@ EXCEPT !.waits = TRUE]] /\ Sleep
  /\ UNCHANGED <<outside, name, history, faults>>

Done(reason) ==
  row' = [row EXCEPT ![cur] = [@ EXCEPT !.state = "done", !.error = reason, !.waits = FALSE]]

Finish ==
  /\ pc = "finish"
  /\ Done("none") /\ Sleep
  /\ UNCHANGED <<outside, name, history, faults>>

\* An episode of a memory that was turned off is left behind ...
FinishOff ==
  /\ pc = "off"
  /\ Done("off") /\ pc' = "maintain" /\ cur' = 0 /\ UNCHANGED <<facts, begun>>
  /\ UNCHANGED <<outside, name, history, faults>>

\* Seeded fault: the last attempt leaves the row with the reason it already had.
GiveUpSilently ==
  /\ pc = "giveUp"
  /\ Done("none") /\ Sleep
  /\ UNCHANGED <<outside, name, history, faults>>

\* ... and so is one the model failed on for the last time.
GiveUp ==
  /\ pc = "giveUp"
  /\ Done("failed") /\ Sleep
  /\ UNCHANGED <<outside, name, history, faults>>

\* Seeded fault: the attempt is counted twice.
RetryTwice ==
  /\ pc = "retry"
  /\ row' = [row EXCEPT ![cur] =
       [row[cur] EXCEPT !.attempts = @ + 2, !.waits = TRUE, !.error = "failed"]]
  /\ Sleep
  /\ UNCHANGED <<outside, name, history, faults>>

Retry ==
  /\ pc = "retry"
  /\ row' = [row EXCEPT ![cur] =
       [row[cur] EXCEPT !.attempts = @ + 1, !.waits = TRUE, !.error = "failed"]]
  /\ Sleep
  /\ UNCHANGED <<outside, name, history, faults>>

\* Seeded fault: the words of every old episode go, read or not.
PruneAll ==
  /\ pc = "maintain"
  /\ row' = [e \in Episodes |->
       IF e \in old /\ row[e].words
       THEN [row[e] EXCEPT !.words = FALSE, !.error = "none"] ELSE row[e]]
  /\ Sleep
  /\ UNCHANGED <<outside, name, history, faults>>

\* The quiet moment: the words of old episodes that were read are forgotten.
Prune ==
  /\ pc = "maintain"
  /\ row' = [e \in Episodes |->
       IF e \in old /\ row[e].words /\ row[e].state = "done"
       THEN [row[e] EXCEPT !.words = FALSE, !.error = "none"] ELSE row[e]]
  /\ Sleep
  /\ UNCHANGED <<outside, name, history, faults>>

Work ==
  \/ NextEpisode \/ ReadSettings \/ AskModel \/ WriteFact \/ MissSubject
  \/ Finish \/ FinishOff \/ GiveUp \/ Retry \/ Prune
-----------------------------------------------------------------------------
\* Failures.

\* The insert of an episode fails: the turn goes on without it.
LoseEpisode(e) ==
  /\ turn[e] \in {"handled", "stores"} /\ faults < MaxFaults
  /\ faults' = faults + 1
  /\ turn' = [turn EXCEPT ![e] = "done"]
  /\ UNCHANGED <<enabled, row, old, name, worker, history>>

\* A database call of the worker fails, or the daemon stops; the concept of the
\* next fact may be there by then.
Stop ==
  /\ faults < MaxFaults
  /\ faults' = faults + 1
  /\ \/ pc = "apply" /\ name[Subject] # "dangling" /\ Reach(Subject)
     \/ UNCHANGED name
  /\ Sleep
  /\ UNCHANGED <<outside, row, history>>

Next ==
  \/ \E e \in Episodes : ReadSetting(e) \/ Enqueue(e) \/ WaitOver(e) \/ GrowOld(e)
                         \/ LoseEpisode(e)
  \/ \E x \in Names : DeleteConcept(x) \/ WriteConcept(x)
  \/ Toggle \/ Work \/ Stop

Spec == Init /\ [][Next]_vars

\* The loop of the worker never ends (lifecycle.rs) and waits pass; the turns,
\* the editor and the settings page are free to do nothing.
FairSpec ==
  /\ Spec
  /\ WF_vars(Work)
  /\ \A e \in Episodes : WF_vars(WaitOver(e))
-----------------------------------------------------------------------------
\* Properties.

TypeOK ==
  /\ enabled \in BOOLEAN
  /\ turn \in [Episodes -> {"handled", "stores", "done"}]
  /\ row \in [Episodes -> Rows]
  /\ old \subseteq Episodes
  /\ name \in [Names -> {"unknown", "opened", "named", "dangling"}]
  /\ pc \in {"next", "settings", "model", "apply", "finish", "off", "giveUp", "retry", "maintain"}
  /\ cur \in Episodes \cup {0}
  /\ pc \notin {"next", "maintain"} => cur \in Episodes
  /\ facts \in Seq(Names) /\ begun \in BOOLEAN
  /\ pc = "apply" => facts # <<>>
  /\ failures \in [Episodes -> Nat]
  /\ taught \in [Episodes -> Nat] /\ cuts \in [Episodes -> Nat]
  /\ whole \subseteq Episodes
  /\ faults \in 0..MaxFaults

\* An episode is left behind for a failure only after the model really failed
\* on it MAX_INGEST_ATTEMPTS times, whatever stops in between, and no attempt
\* is counted that did not fail (service.rs:35-40).
TriesCounted ==
  \A e \in Episodes :
    /\ row[e].attempts <= failures[e]
    /\ row[e].state = "done" /\ row[e].error = "failed" => failures[e] >= MaxAttempts

\* An episode closes without a reason only when all facts of an answer were
\* written, or the model found none; a reason is lost only together with the words.
ClosedMeansRead ==
  \A e \in Episodes :
    row[e].state = "done" /\ row[e].error = "none" /\ row[e].words => e \in whole

\* Facts of one turn are sighted in one pass, and in one more at most for each
\* failure that hit the worker and for each pass that broke off at a concept that
\* was gone: no retry of the model and no other turn repeats them (facts.rs:3-6,
\* where a second sighting makes the memory surer).
SightedOnce == \A e \in Episodes : taught[e] <= 1 + faults + cuts[e]

\* The words of a turn stay as long as the worker still needs them.
WordsOutliveTheWait ==
  \A e \in Episodes : row[e].state = "unread" => row[e].words

\* Once no name is kept for a concept that is gone, every episode is closed,
\* however often the model fails on it or on the episodes before it.
QueueDrains ==
  (<>[] \A x \in Names : name[x] # "dangling") =>
    \A e \in Episodes : row[e].state = "unread" ~> row[e].state = "done"
-----------------------------------------------------------------------------
\* What the documentation says and the code does not do.

\* "A turn that still fails after a few of them is kept with the reason rather
\* than retried for ever" (service.rs:38-39), in a memory that changes no more.
NeverRetriedForEver ==
  (<>[][FALSE]_name) =>
    \A e \in Episodes : row[e].state = "unread" ~> row[e].state = "done"
=============================================================================
