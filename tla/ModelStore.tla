----------------------------- MODULE ModelStore -----------------------------
(***************************************************************************)
(* The files of the built in models (resolver/gliner/store.rs; the store   *)
(* of the router's models, resolver/local/store.rs, has the same           *)
(* operations) and their downloads (resolver/download.rs).                 *)
(*                                                                         *)
(* A download fetches the files of one model in turn, each into a part     *)
(* file that is renamed when it is written.  One slot holds the state of   *)
(* the download the daemon runs.  The user may remove a model at any time. *)
(***************************************************************************)
EXTENDS Naturals

CONSTANTS
  Models,
  Files,         \* how many files a model has
  Downloads,     \* the download tasks the daemon may start
  MaxRestarts,   \* bound on the restarts of the daemon
  NoSlot, NoTask, NoPart

Slots == [model : Models, state : {"running", "done", "failed"}]
Tasks == [model : Models, file : 1..Files, step : {"open", "write", "rename"}]
Parts == [by : Downloads, written : BOOLEAN]

ASSUME FilesAssumption == Files \in Nat \ {0}
ASSUME NothingAssumption == NoSlot \notin Slots /\ NoTask \notin Tasks /\ NoPart \notin Parts

VARIABLES
  disk,        \* of each file of each model: "missing", "torn" or "whole"
  part,        \* its part file: the task that wrote it last, and how far it is
  slot,        \* the state of the download, or NoSlot
  task,        \* each task: its model, its file and its step; or NoTask
  removed,     \* history: the models removed since their last download began
  restarts

storeVars == <<disk, part, slot, task, removed, restarts>>

Part(d, written) == [by |-> d, written |-> written]
ModelFiles == Models \X (1..Files)

StoreInit ==
  /\ disk = [f \in ModelFiles |-> "missing"]
  /\ part = [f \in ModelFiles |-> NoPart]
  /\ slot = NoSlot
  /\ task = [d \in Downloads |-> NoTask]
  /\ removed = {} /\ restarts = 0

Installed(m) == \A n \in 1..Files : disk[<<m, n>>] # "missing"
Runs == slot # NoSlot /\ slot.state = "running"
At(d) == <<task[d].model, task[d].file>>
Is(d, s) == task[d] # NoTask /\ task[d].step = s
StepTo(d, s) == task' = [task EXCEPT ![d].step = s]

\* A download starts when no other runs; a start while one runs is refused.
StartDownload(d, m) ==
  /\ task[d] = NoTask /\ ~Runs
  /\ slot' = [model |-> m, state |-> "running"]
  /\ task' = [task EXCEPT ![d] = [model |-> m, file |-> 1, step |-> "open"]]
  /\ removed' = removed \ {m}
  /\ UNCHANGED <<disk, part, restarts>>

\* The part file is created in its directory, or emptied.
OpenPart(d) ==
  /\ Is(d, "open")
  /\ part' = [part EXCEPT ![At(d)] = Part(d, FALSE)]
  /\ StepTo(d, "write")
  /\ UNCHANGED <<disk, slot, removed, restarts>>

\* The chunks arrive.  They are lost when the part file was removed, and torn
\* when another task emptied it.
WritePart(d) ==
  /\ Is(d, "write")
  /\ part' = IF part[At(d)] = Part(d, FALSE)
             THEN [part EXCEPT ![At(d)] = Part(d, TRUE)] ELSE part
  /\ StepTo(d, "rename")
  /\ UNCHANGED <<disk, slot, removed, restarts>>

\* The task ends and reports to the slot of its own model.
Ends(d, state) ==
  /\ task' = [task EXCEPT ![d] = NoTask]
  /\ slot' = IF slot # NoSlot /\ slot.model = task[d].model
             THEN [slot EXCEPT !.state = state] ELSE slot

LastFile(d) == task[d].file = Files

\* The part file takes its place; there is none when the model was removed.
RenamePart(d) ==
  /\ Is(d, "rename") /\ part[At(d)] # NoPart
  /\ disk' = [disk EXCEPT ![At(d)] = IF part[At(d)].written THEN "whole" ELSE "torn"]
  /\ part' = [part EXCEPT ![At(d)] = NoPart]
  /\ \/ LastFile(d) /\ Ends(d, "done")
     \/ /\ ~LastFile(d)
        /\ task' = [task EXCEPT ![d].file = @ + 1, ![d].step = "open"]
        /\ UNCHANGED slot
  /\ UNCHANGED <<removed, restarts>>

\* The server, the network or the disk fails the task, as does the rename of a
\* part file that was removed.
FailDownload(d) ==
  /\ task[d] # NoTask
  /\ Ends(d, "failed")
  /\ UNCHANGED <<disk, part, removed, restarts>>

\* Seeded fault: a removal frees the slot of a download that still runs.
SlotFreed(m) == IF slot # NoSlot /\ slot.model = m THEN NoSlot ELSE slot

\* A removal forgets a download that is done.
SlotAfterRemove(m) ==
  IF slot # NoSlot /\ slot.model = m /\ slot.state = "done" THEN NoSlot ELSE slot

RemoveModel(m) ==
  /\ disk' = [f \in ModelFiles |-> IF f[1] = m THEN "missing" ELSE disk[f]]
  /\ part' = [f \in ModelFiles |-> IF f[1] = m THEN NoPart ELSE part[f]]
  /\ slot' = SlotAfterRemove(m)
  /\ removed' = removed \cup {m}
  /\ UNCHANGED <<task, restarts>>

\* The tasks and the slot are in memory, the files are not.
RestartStore ==
  /\ restarts < MaxRestarts /\ restarts' = restarts + 1
  /\ task' = [d \in Downloads |-> NoTask]
  /\ slot' = NoSlot
  /\ UNCHANGED <<disk, part, removed>>

StoreNext ==
  \/ \E d \in Downloads :
       \/ \E m \in Models : StartDownload(d, m)
       \/ OpenPart(d) \/ WritePart(d) \/ RenamePart(d) \/ FailDownload(d)
  \/ \E m \in Models : RemoveModel(m)
  \/ RestartStore

StoreSpec == StoreInit /\ [][StoreNext]_storeVars
-----------------------------------------------------------------------------
\* Properties.

StoreTypeOK ==
  /\ disk \in [ModelFiles -> {"missing", "torn", "whole"}]
  /\ part \in [ModelFiles -> Parts \cup {NoPart}]
  /\ slot \in Slots \cup {NoSlot}
  /\ task \in [Downloads -> Tasks \cup {NoTask}]
  /\ removed \subseteq Models /\ restarts \in Nat

\* A file of a model is whole as soon as it is there: no removal, failure or
\* restart lets two downloads share a part file or puts half of one in place
\* (start, remove and download.rs).
FilesWhole == \A f \in ModelFiles : disk[f] # "torn"

\* The page that says a download is done speaks of a model that is installed,
\* unless the model was removed since that download began.
DoneMeansInstalled ==
  slot # NoSlot /\ slot.state = "done" =>
    Installed(slot.model) \/ slot.model \in removed

\* A model that counts as installed is whole, and one that is said to be
\* installed is (GlinerStore::start and remove, download.rs).
ModelsInstalled == FilesWhole /\ DoneMeansInstalled
=============================================================================
