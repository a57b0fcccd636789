------------------------------ MODULE FactLife ------------------------------
(***************************************************************************)
(* What the memory promises about one fact (librarian/facts.rs, header):   *)
(* "a new value closes the older one rather than deleting it".  A fact     *)
(* that was written keeps its relation and its value.  It is true until it *)
(* is closed and a closed fact is never true again.  A merge may hand it   *)
(* to another concept, and it only disappears together with every other    *)
(* fact of its concept.                                                    *)
(*                                                                         *)
(* MemoryStore is shown to implement this module.                          *)
(***************************************************************************)

CONSTANTS Facts, Concepts, Relations, Values

VARIABLE life   \* the stage of each fact, its concept and what it says

NotWritten == [stage |-> "unwritten"]
Forgotten == [stage |-> "forgotten"]
Kept(f) == life[f].stage \in {"current", "closed"}

Init == life = [f \in Facts |-> NotWritten]

Write(f) ==
  /\ life[f] = NotWritten
  /\ \E c \in Concepts, r \in Relations, v \in Values :
       life' = [life EXCEPT ![f] =
                  [stage |-> "current", concept |-> c, relation |-> r, value |-> v]]

Close(f) ==
  /\ life[f].stage = "current"
  /\ life' = [life EXCEPT ![f].stage = "closed"]

Move(f) ==
  /\ Kept(f)
  /\ \E c \in Concepts : life' = [life EXCEPT ![f].concept = c]

\* A concept goes with every fact it holds at that moment.
Forget(c) ==
  life' = [f \in Facts |->
             IF Kept(f) /\ life[f].concept = c THEN Forgotten ELSE life[f]]

Next ==
  \/ \E f \in Facts : Write(f) \/ Close(f) \/ Move(f)
  \/ \E c \in Concepts : Forget(c)

Spec == Init /\ [][Next]_life
=============================================================================
