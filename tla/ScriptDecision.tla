--------------------------- MODULE ScriptDecision ---------------------------
(***************************************************************************)
(* What the daemon promises about the scripts a model writes: a script     *)
(* waits for the user, the user decides once, and only an approved script  *)
(* starts, at most once.  The module header of server/scripts.rs says it:  *)
(* "The daemon runs no script of its own accord ... A decision lands on    *)
(* the store, so two approvals cannot both run the same script."           *)
(*                                                                         *)
(* The stage of a script hides how the daemon gets there (the reads, the   *)
(* conditional write, the shell, the transcript).  PendingScripts is shown *)
(* to implement this module.                                               *)
(***************************************************************************)

CONSTANT Scripts

VARIABLE stage

Stages == {"unwritten", "waiting", "approved", "started", "closed", "denied"}

Init == stage = [s \in Scripts |-> "unwritten"]

\* The life of one script: each move is taken at most once.
Moves == { <<"unwritten", "waiting">>,   \* the turn stored it
           <<"waiting", "approved">>,    \* the user allowed it
           <<"waiting", "denied">>,      \* the user refused it
           <<"approved", "started">>,    \* the shell started
           <<"approved", "closed">>,     \* the shell could not start
           <<"started", "closed">> }     \* the shell ended

Advance(s) ==
  \E to \in Stages :
    /\ <<stage[s], to>> \in Moves
    /\ stage' = [stage EXCEPT ![s] = to]

Next == \E s \in Scripts : Advance(s)

Spec == Init /\ [][Next]_stage

=============================================================================
