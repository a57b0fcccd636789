--------------------------- MODULE SettingsUpdate ---------------------------
(***************************************************************************)
(* An update of the settings, as a whole (put_settings_handler and         *)
(* validate_router of server/settings.rs, the setters of                   *)
(* settings/service.rs, quality_to_router of system/preset.rs).            *)
(*                                                                         *)
(* The stages of the router are rows of their own and must fit together:   *)
(* here how intents are retrieved, and what the words and the embeddings   *)
(* weigh.  The sliders, quality and speed, are rows too, linked to each    *)
(* other, and a move of a slider alone rewrites the stages.  SettingsCache *)
(* has the rows and the copy for their own sake; here an update and the    *)
(* other calls meet between any two rows, and what is at stake is the set. *)
(***************************************************************************)
EXTENDS Naturals, Sequences

CONSTANTS
  Updates, Gets,   \* the calls under way at a time that write, and that read
  Requests,        \* what an update may ask for
  FileRouter,      \* the stages the configuration file sets
  Unset,           \* a field that was not sent, or a row that is not there
  MaxUpdates,      \* bound on the updates that begin
  MaxLost          \* bound on the calls that end early

Retrievals == {"lexical", "dense", "hybrid"}
Routers == [retrieve : Retrievals, lexical : 0..1, dense : 0..1]

\* A weight counts by whether it is zero.
UsesEmbeddings(r) == r.retrieve \in {"dense", "hybrid"}
Runnable(r) ==
  /\ r.lexical # 0 \/ r.dense # 0
  /\ UsesEmbeddings(r) => r.dense # 0

Fields == {"retrieve", "lexical", "dense"}
Clients == Updates \cup Gets

\* The order the rows are read in.
ReadOrder == <<"quality", "speed", "retrieve", "lexical", "dense">>

VARIABLES
  held,       \* the rows of the table
  memory,     \* the copy of the settings in memory, or Unset
  client,     \* each call: what it does, and what it read and has left to write
  begun,      \* how many updates began
  lost,       \* how many calls ended early
  overlapped, \* history: two updates were under way at once
  unguarded   \* history: an update ended early among its stages, or a preset was
              \* made from a copy that was not the table

updateVars == <<held, memory, client, begun, lost, overlapped, unguarded>>

Quiet == [does |-> "idle", req |-> Unset, for |-> Unset, got |-> <<>>, todo |-> <<>>]

Away == [Quiet EXCEPT !.does = "away"]

UpdateInit ==
  /\ held = [k \in {"quality", "speed"} \cup Fields |-> Unset]
  /\ memory = Unset
  /\ \E there \in SUBSET Clients : client = [c \in Clients |-> IF c \in there THEN Quiet ELSE Away]
  /\ begun = 0 /\ lost = 0 /\ overlapped = FALSE /\ unguarded = FALSE

Or(value, default) == IF value = Unset THEN default ELSE value

\* The settings the rows stand for: speed is what quality leaves, and counts
\* only while there is no row of the quality.
SettingsOf(t) ==
  [quality |-> IF t.quality # Unset THEN t.quality
               ELSE IF t.speed # Unset THEN 100 - t.speed ELSE 50,
   router |-> [f \in Fields |-> Or(t[f], FileRouter[f])]]

Does(c, what) == client[c].does = what
Now(c, call) == client' = [client EXCEPT ![c] = call]
Busy(c) == ~Does(c, "idle") /\ ~Does(c, "away")

-----------------------------------------------------------------------------
\* What an update asks for: stages of the router, sliders, or a field outside
\* what its reader accepts.

Sends(req, f) == req[f] # Unset
ChangesRouter(req) == \E f \in Fields : Sends(req, f)
MovesSlider(req) == Sends(req, "quality") \/ Sends(req, "speed")

\* An update that asks for neither writes none of these rows and is left out.
ASSUME UpdateAssumption ==
  /\ Updates \cap Gets = {} /\ FileRouter \in Routers /\ Runnable(FileRouter)
  /\ Unset \notin Retrievals \cup Nat
  /\ \A req \in Requests : ChangesRouter(req) \/ MovesSlider(req)
  /\ MaxUpdates \in Nat /\ MaxLost \in Nat

\* The quality the sliders were moved to.
Quality(req) == Or(req.quality, 100 - req.speed)

\* The stages as they came, over the ones that are stored.
Laid(req, router) == [f \in Fields |-> Or(req[f], router[f])]

\* Seeded fault: the weights are checked and not the way of retrieval.
AcceptsAnyWeight(req, router) ==
  /\ ~req.bad
  /\ ChangesRouter(req) => Laid(req, router).lexical + Laid(req, router).dense # 0
  /\ Sends(req, "quality") /\ Sends(req, "speed") => req.speed = 100 - req.quality

\* Both sliders must agree; the stages must be a set the daemon can run.
Accepts(req, router) ==
  /\ ~req.bad
  /\ ChangesRouter(req) => Runnable(Laid(req, router))
  /\ Sends(req, "quality") /\ Sends(req, "speed") => req.speed = 100 - req.quality

\* The stages of a quality: the embeddings are read from 55 on, and weigh then.
Preset(quality, router) ==
  IF quality < 55 THEN [router EXCEPT !.retrieve = "lexical"]
  ELSE [retrieve |-> "hybrid", lexical |-> 1, dense |-> 1]

\* The puts of one setter, in their order.
QualityRows(q) == <<<<"quality", q>>, <<"speed", 100 - q>>>>
SpeedRows(s) == <<<<"speed", s>>, <<"quality", 100 - s>>>>
RouterRows(r) ==
  <<<<"retrieve", r.retrieve>>, <<"lexical", r.lexical>>, <<"dense", r.dense>>>>

\* The sliders are written first, and the stages when they were sent.
RowsFor(req, router) ==
  (IF Sends(req, "quality") THEN QualityRows(req.quality) ELSE <<>>)
    \o (IF Sends(req, "speed") THEN SpeedRows(req.speed) ELSE <<>>)
    \o (IF ChangesRouter(req) THEN RouterRows(Laid(req, router)) ELSE <<>>)

-----------------------------------------------------------------------------
\* Reading the settings, for the stages an update starts from, for the preset,
\* or to answer.

ReadFor(call, what) == [call EXCEPT !.does = "get", !.for = what, !.got = <<>>]
WriteAs(call, todo, what) ==
  [call EXCEPT !.does = "write", !.for = what, !.todo = todo, !.got = <<>>]

\* After its rows an update makes the preset, if it only moved a slider and has
\* not done so, and answers with the settings.
FollowUp(call) ==
  IF MovesSlider(call.req) /\ ~ChangesRouter(call.req) /\ call.for # "preset"
  THEN "preset" ELSE "answer"

\* What a call does with the settings it was given.
UseSettings(c, s) ==
  LET call == client[c] IN
  \/ /\ call.for = "check" /\ UNCHANGED unguarded
     /\ Now(c, IF Accepts(call.req, s.router)
               THEN WriteAs(call, RowsFor(call.req, s.router), "rows") ELSE Quiet)
  \/ /\ call.for = "preset"
     /\ Now(c, WriteAs(call, RouterRows(Preset(Quality(call.req), s.router)), "preset"))
     /\ unguarded' = (unguarded \/ s.router # SettingsOf(held).router)
  \/ call.for = "answer" /\ Now(c, Quiet) /\ UNCHANGED unguarded

FromMemory(c) ==
  /\ Does(c, "get") /\ memory # Unset
  /\ UseSettings(c, memory)
  /\ UNCHANGED <<held, memory, begun, lost, overlapped>>

ReadTable(c) ==
  /\ Does(c, "get") /\ memory = Unset
  /\ Now(c, [client[c] EXCEPT !.does = "rows"])
  /\ UNCHANGED <<held, memory, begun, lost, overlapped, unguarded>>

ReadNextRow(c) ==
  /\ Does(c, "rows") /\ Len(client[c].got) < Len(ReadOrder)
  /\ Now(c, [client[c] EXCEPT !.got = Append(@, held[ReadOrder[Len(@) + 1]])])
  /\ UNCHANGED <<held, memory, begun, lost, overlapped, unguarded>>

\* The rows that were read are the copy from now on.
KeepRows(c) ==
  LET got == client[c].got
      s == SettingsOf([k \in DOMAIN held |-> got[CHOOSE n \in 1..5 : ReadOrder[n] = k]])
  IN  /\ Does(c, "rows") /\ Len(got) = Len(ReadOrder)
      /\ memory' = s
      /\ UseSettings(c, s)
      /\ UNCHANGED <<held, begun, lost, overlapped>>

-----------------------------------------------------------------------------
\* The calls.

\* The stages are read first when a stage was sent.
BeginUpdate(c) ==
  /\ c \in Updates /\ Does(c, "idle") /\ begun < MaxUpdates /\ begun' = begun + 1
  /\ \E req \in Requests :
       LET call == [client[c] EXCEPT !.req = req] IN
       \/ ChangesRouter(req) /\ Now(c, ReadFor(call, "check"))
       \/ /\ ~ChangesRouter(req) /\ Accepts(req, FileRouter)
          /\ Now(c, WriteAs(call, RowsFor(req, FileRouter), "rows"))
  /\ overlapped' = (overlapped \/ \E u \in Updates : Busy(u))
  /\ UNCHANGED <<held, memory, lost, unguarded>>

BeginGet(c) ==
  /\ c \in Gets /\ Does(c, "idle")
  /\ Now(c, ReadFor(client[c], "answer"))
  /\ UNCHANGED <<held, memory, begun, lost, overlapped, unguarded>>

WriteRow(c) ==
  LET row == Head(client[c].todo) IN
  /\ Does(c, "write")
  /\ held' = [held EXCEPT ![row[1]] = row[2]]
  /\ Now(c, [client[c] EXCEPT !.does = "forget"])
  /\ UNCHANGED <<memory, begun, lost, overlapped, unguarded>>

\* The copy is forgotten after each row.
ForgetCopy(c) ==
  /\ Does(c, "forget")
  /\ memory' = Unset
  /\ LET call == [client[c] EXCEPT !.todo = Tail(@)]
     IN  Now(c, IF call.todo = <<>> THEN ReadFor(call, FollowUp(call))
                ELSE [call EXCEPT !.does = "write"])
  /\ UNCHANGED <<held, begun, lost, overlapped, unguarded>>

WritesStages(c) == client[c].todo # <<>> /\ Head(client[c].todo)[1] \in Fields

\* A call of the database fails, or the client goes away.
LoseCall(c) ==
  /\ Busy(c) /\ lost < MaxLost /\ lost' = lost + 1
  /\ Now(c, Quiet)
  /\ unguarded' = (unguarded \/ WritesStages(c))
  /\ UNCHANGED <<held, memory, begun, overlapped>>

UpdateNext ==
  \E c \in Clients :
    \/ BeginUpdate(c) \/ BeginGet(c) \/ WriteRow(c) \/ ForgetCopy(c)
    \/ FromMemory(c) \/ ReadTable(c) \/ ReadNextRow(c) \/ KeepRows(c)
    \/ LoseCall(c)

UpdateSpec == UpdateInit /\ [][UpdateNext]_updateVars
-----------------------------------------------------------------------------
\* Properties.

\* "A configuration the daemon cannot run is a configuration it must not store"
\* (validate_router): however updates of stages and moves of sliders follow on
\* each other, and whatever is read meanwhile, the rows that are left are a set
\* the daemon can run.  Two updates that overlap, one that ends between its
\* rows, and a preset made from a copy a slow read left are what the code does
\* not guard against.
StoredRunnable ==
  (~overlapped /\ ~unguarded /\ \A u \in Updates : ~Busy(u)) => Runnable(SettingsOf(held).router)
=============================================================================
