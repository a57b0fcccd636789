---------------------------- MODULE ScriptLists -----------------------------
(***************************************************************************)
(* The live list of one script entity (EntityScripts of intent/values.rs): *)
(* the list in memory, the script it belongs to, and the turns that ask    *)
(* for it.  Nothing is locked while a script runs, so several runs may be  *)
(* under way and end in any order, and the user may change the script.     *)
(*                                                                         *)
(* A list is the run that printed it: its script and the time it began.    *)
(***************************************************************************)
EXTENDS Naturals

CONSTANTS
  Askers,      \* the turns that ask for the list at a time
  Scripts,     \* what the script of the entity may be
  Ttl,         \* how long a list answers for its script
  MaxTime,     \* bound on the time
  NoList

Lists == [script : Scripts, at : Nat, from : Scripts, born : Nat,
          filled : BOOLEAN, failed : BOOLEAN]

ASSUME TtlAssumption == Ttl \in Nat
ASSUME NoListAssumption == NoList \notin Lists

VARIABLES
  script,     \* the script of the entity
  time,
  list,       \* the list in memory, or NoList
  asks,       \* where each turn is
  asked,      \* the script it asked with
  began,      \* when it asked
  stored,     \* the list in memory when it asked, for the run
  served      \* the list it was given

listVars == <<script, time, list, asks, asked, began, stored, served>>

\* A list in memory: the script it answers for and since when, the script that
\* printed its values and when, whether it has any, and whether a run failed.
List(s, at, from, born, filled, failed) ==
  [script |-> s, at |-> at, from |-> from, born |-> born, filled |-> filled, failed |-> failed]

ListsInit ==
  /\ script \in Scripts /\ time = 0 /\ list = NoList
  /\ asks = [a \in Askers |-> "idle"]
  /\ asked = [a \in Askers |-> script] /\ began = [a \in Askers |-> 0]
  /\ stored = [a \in Askers |-> NoList] /\ served = [a \in Askers |-> NoList]

Tick ==
  /\ time < MaxTime /\ time' = time + 1
  /\ UNCHANGED <<script, list, asks, asked, began, stored, served>>

EditScript ==
  /\ script' \in Scripts \ {script}
  /\ UNCHANGED <<time, list, asks, asked, began, stored, served>>

\* The list in memory answers for its own script while it is young.
IsFresh == list # NoList /\ list.script = script /\ time - list.at < Ttl

Ask(a) ==
  /\ asks[a] = "idle"
  /\ asked' = [asked EXCEPT ![a] = script]
  /\ began' = [began EXCEPT ![a] = time]
  /\ \/ /\ IsFresh
        /\ asks' = [asks EXCEPT ![a] = "served"]
        /\ served' = [served EXCEPT ![a] = list]
        /\ UNCHANGED stored
     \/ /\ ~IsFresh
        /\ asks' = [asks EXCEPT ![a] = "running"]
        /\ stored' = [stored EXCEPT ![a] = list]
        /\ UNCHANGED served
  /\ UNCHANGED <<script, time, list>>

\* Seeded fault: a list is as old as the end of its run.
AgeAtEnd(a) == time

\* A list is as old as the start of its run.
Age(a) == began[a]

\* The run prints values, prints nothing, or fails; the list that was in memory
\* when it began, if it has values, outlives a run that failed.
Printed(a) == List(asked[a], Age(a), asked[a], began[a], TRUE, FALSE)
Empty(a) == List(asked[a], Age(a), asked[a], began[a], FALSE, TRUE)
Kept(a) ==
  IF stored[a] # NoList /\ stored[a].filled
  THEN List(asked[a], Age(a), stored[a].from, stored[a].born, TRUE, TRUE)
  ELSE Empty(a)

RunEnds(a) ==
  /\ asks[a] = "running"
  /\ list' \in {Printed(a), Empty(a), Kept(a)}
  /\ served' = [served EXCEPT ![a] = list']
  /\ asks' = [asks EXCEPT ![a] = "served"]
  /\ stored' = [stored EXCEPT ![a] = NoList]
  /\ UNCHANGED <<script, time, asked, began>>

\* The turn is over, or its client goes away, and a run with it.
LetGo(a) ==
  /\ asks[a] # "idle"
  /\ asks' = [asks EXCEPT ![a] = "idle"]
  /\ began' = [began EXCEPT ![a] = 0]
  /\ stored' = [stored EXCEPT ![a] = NoList]
  /\ served' = [served EXCEPT ![a] = NoList]
  /\ UNCHANGED <<script, time, list, asked>>

ListsNext ==
  \/ Tick \/ EditScript
  \/ \E a \in Askers : Ask(a) \/ RunEnds(a) \/ LetGo(a)

ListsSpec == ListsInit /\ [][ListsNext]_listVars
-----------------------------------------------------------------------------
\* Properties.

ListsTypeOK ==
  /\ script \in Scripts /\ time \in Nat
  /\ list \in Lists \cup {NoList}
  /\ asks \in [Askers -> {"idle", "running", "served"}]
  /\ asked \in [Askers -> Scripts] /\ began \in [Askers -> Nat]
  /\ stored \in [Askers -> Lists \cup {NoList}]
  /\ served \in [Askers -> Lists \cup {NoList}]

\* However runs overtake one another and the script changes, a turn that is
\* given a list without an error is given one its own script printed, in a run
\* that began less than the time to live before the turn asked, or by the turn.
ServedFresh ==
  \A a \in Askers :
    asks[a] = "served" /\ ~served[a].failed =>
      /\ served[a].from = asked[a]
      /\ served[a].born = began[a] \/ began[a] - served[a].born < Ttl
=============================================================================
