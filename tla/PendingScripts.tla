--------------------------- MODULE PendingScripts ---------------------------
(***************************************************************************)
(* The scripts that wait for approval: the store of pending_script/mod.rs  *)
(* and the approve and deny handlers of server/scripts.rs.                 *)
(*                                                                         *)
(* Each request is one call of a handler.  Handlers run concurrently and   *)
(* interleave at every database call, because each one is an await.  A     *)
(* handler ends early when the database fails, when its client closes the  *)
(* connection (the server drops the future, and the runner kills the       *)
(* shell with it), or when the daemon stops.  Only the rows survive.       *)
(***************************************************************************)
EXTENDS Naturals

CONSTANTS
  Scripts,      \* identifiers of the scripts the model wrote
  Requests,     \* calls of the approve and deny handlers
  Conversed,    \* the scripts whose turn was stored in a conversation
  MaxFaults     \* bound on the failures of one behaviour

ASSUME ConversedAssumption == Conversed \subseteq Scripts
ASSUME FaultsAssumption == MaxFaults \in Nat

VARIABLES
  status,   \* the status column of each script; "absent" before the insert
  pc,       \* where each request is
  target,   \* the script each request names
  next,     \* the status its claim writes
  found,    \* the status its first read of the row found
  reply,    \* what its client was answered
  runs,     \* how many shells were started for each script
  answers,  \* how many answers of each script the transcript holds
  faults    \* failures so far

vars == <<status, pc, target, next, found, reply, runs, answers, faults>>

Statuses == {"pending", "approved", "denied", "ran"}
Decisions == {"approved", "denied"}

\* The steps of a handler that wait for the database.
DbSteps == {"read", "claim", "reread", "decided", "mark", "append", "touch", "stored"}
\* The steps that belong to the request that claimed its script.
Owned == {"reread", "running", "mark", "append", "touch", "stored"}
Ended == {"answered", "dropped"}

Init ==
  /\ status = [s \in Scripts |-> "absent"]
  /\ pc = [r \in Requests |-> "idle"]
  /\ target \in [Requests -> Scripts]
  /\ next \in [Requests -> Decisions]
  /\ found = [r \in Requests |-> "none"]
  /\ reply = [r \in Requests |-> "none"]
  /\ runs = [s \in Scripts |-> 0]
  /\ answers = [s \in Scripts |-> 0]
  /\ faults = 0

Goto(r, step) == pc' = [pc EXCEPT ![r] = step]

Answer(r, what) ==
  /\ Goto(r, "answered")
  /\ reply' = [reply EXCEPT ![r] = what]

-----------------------------------------------------------------------------
\* A turn stores the script the model proposed.
Store(s) ==
  /\ status[s] = "absent"
  /\ status' = [status EXCEPT ![s] = "pending"]
  /\ UNCHANGED <<pc, target, next, found, reply, runs, answers, faults>>

\* A client calls approve or deny.
Call(r) ==
  /\ pc[r] = "idle"
  /\ Goto(r, "read")
  /\ UNCHANGED <<status, target, next, found, reply, runs, answers, faults>>

\* The claim reads the row and returns early on one that no longer waits.
ReadRow(r) ==
  LET row == status[target[r]] IN
  /\ pc[r] = "read"
  /\ found' = [found EXCEPT ![r] = row]
  /\ \/ row = "absent" /\ Answer(r, "missing")
     \/ row \notin {"absent", "pending"} /\ Goto(r, "decided") /\ UNCHANGED reply
     \/ row = "pending" /\ Goto(r, "claim") /\ UNCHANGED reply
  /\ UNCHANGED <<status, target, next, runs, answers, faults>>

\* Seeded fault: the claim writes without the pending status in its filter.
WriteClaimUnfiltered(r) ==
  /\ pc[r] = "claim"
  /\ status' = [status EXCEPT ![target[r]] = next[r]]
  /\ Goto(r, "reread")
  /\ UNCHANGED <<target, next, found, reply, runs, answers, faults>>

\* The claim writes the decision with the pending status in the filter.
WriteClaim(r) ==
  LET s == target[r] IN
  /\ pc[r] = "claim"
  /\ IF status[s] = "pending"
     THEN status' = [status EXCEPT ![s] = next[r]] /\ Goto(r, "reread")
     ELSE Goto(r, "decided") /\ UNCHANGED status
  /\ UNCHANGED <<target, next, found, reply, runs, answers, faults>>

\* Seeded fault: the loser of a race answers with the row it read at first.
AnswerFound(r) ==
  /\ pc[r] = "decided"
  /\ Answer(r, found[r])
  /\ UNCHANGED <<status, target, next, found, runs, answers, faults>>

\* The handler of a claim that came second reads the row for its client.
ReadDecided(r) ==
  /\ pc[r] = "decided"
  /\ Answer(r, status[target[r]])
  /\ UNCHANGED <<status, target, next, found, runs, answers, faults>>

\* A claimed denial publishes the decision and answers with the row.
Deny(r) ==
  /\ pc[r] = "reread"
  /\ next[r] = "denied"
  /\ Answer(r, status[target[r]])
  /\ UNCHANGED <<status, target, next, found, runs, answers, faults>>

\* A claimed approval starts the shell: nothing is awaited in between.
Approve(r) ==
  LET s == target[r] IN
  /\ pc[r] = "reread"
  /\ next[r] = "approved"
  /\ \/ Goto(r, "running") /\ runs' = [runs EXCEPT ![s] = @ + 1]
     \/ Goto(r, "mark") /\ UNCHANGED runs    \* the shell does not start
  /\ UNCHANGED <<status, target, next, found, reply, answers, faults>>

\* Seeded fault: no timeout ends a shell that hangs.
EndRunUntimed(r) ==
  /\ pc[r] = "running"
  /\ Goto(r, "running")
  /\ UNCHANGED <<status, target, next, found, reply, runs, answers, faults>>

\* The shell exits, or the timeout of the runner kills it.
EndRun(r) ==
  /\ pc[r] = "running"
  /\ Goto(r, "mark")
  /\ UNCHANGED <<status, target, next, found, reply, runs, answers, faults>>

\* Seeded fault: the answer joins the transcript before the row closes.
MarkLast(r) ==
  /\ pc[r] = "mark"
  /\ IF target[r] \in Conversed
     THEN Goto(r, "append") /\ UNCHANGED status
     ELSE Goto(r, "stored") /\ status' = [status EXCEPT ![target[r]] = "ran"]
  /\ UNCHANGED <<target, next, found, reply, runs, answers, faults>>

\* The row closes, whatever the shell answered.
MarkRan(r) ==
  LET s == target[r] IN
  /\ pc[r] = "mark"
  /\ status' = [status EXCEPT ![s] = IF @ = "approved" THEN "ran" ELSE @]
  /\ Goto(r, IF s \in Conversed THEN "append" ELSE "stored")
  /\ UNCHANGED <<target, next, found, reply, runs, answers, faults>>

\* The answer joins the transcript of the conversation ...
AppendAnswer(r) ==
  /\ pc[r] = "append"
  /\ answers' = [answers EXCEPT ![target[r]] = @ + 1]
  /\ Goto(r, "touch")
  /\ UNCHANGED <<status, target, next, found, reply, runs, faults>>

\* ... and a second write moves the conversation up the list.
TouchConversation(r) ==
  /\ pc[r] = "touch"
  /\ Goto(r, "stored")
  /\ UNCHANGED <<status, target, next, found, reply, runs, answers, faults>>

ReadStored(r) ==
  /\ pc[r] = "stored"
  /\ Answer(r, status[target[r]])
  /\ UNCHANGED <<status, target, next, found, runs, answers, faults>>
-----------------------------------------------------------------------------
\* Failures.  Each leaves the rows as they are.

Fault == faults < MaxFaults /\ faults' = faults + 1

\* A database call fails and the handler answers an error.
DbError(r) ==
  /\ pc[r] \in DbSteps
  /\ Fault
  /\ Answer(r, "error")
  /\ UNCHANGED <<status, target, next, found, runs, answers>>

\* The client closes the connection and the server drops the handler.
Disconnect(r) ==
  /\ pc[r] \notin Ended \cup {"idle"}
  /\ Fault
  /\ Goto(r, "dropped")
  /\ UNCHANGED <<status, target, next, found, reply, runs, answers>>

\* The daemon stops and starts again.
Restart ==
  /\ Fault
  /\ pc' = [r \in Requests |-> IF pc[r] \in Ended \cup {"idle"} THEN pc[r] ELSE "dropped"]
  /\ UNCHANGED <<status, target, next, found, reply, runs, answers>>

\* What a handler does by itself once it is called.
Handle(r) ==
  \/ ReadRow(r) \/ WriteClaim(r) \/ ReadDecided(r) \/ Deny(r) \/ Approve(r) \/ EndRun(r)
  \/ MarkRan(r) \/ AppendAnswer(r) \/ TouchConversation(r) \/ ReadStored(r)

Next ==
  \/ \E s \in Scripts : Store(s)
  \/ \E r \in Requests : Call(r) \/ Handle(r) \/ DbError(r) \/ Disconnect(r)
  \/ Restart

Spec == Init /\ [][Next]_vars

\* The runtime polls every live handler, the database answers, and the
\* runner ends every shell by its timeout.  Nobody has to call a handler.
FairSpec == Spec /\ \A r \in Requests : WF_vars(Handle(r))
-----------------------------------------------------------------------------
\* Properties.

TypeOK ==
  /\ status \in [Scripts -> Statuses \cup {"absent"}]
  /\ pc \in [Requests -> DbSteps \cup Ended \cup {"idle", "running"}]
  /\ target \in [Requests -> Scripts]
  /\ next \in [Requests -> Decisions]
  /\ found \in [Requests -> Statuses \cup {"absent", "none"}]
  /\ reply \in [Requests -> Statuses \cup {"absent", "none", "missing", "error"}]
  /\ runs \in [Scripts -> Nat]
  /\ answers \in [Scripts -> Nat]
  /\ faults \in Nat

\* No interleaving of approvals, denials, retries and restarts starts a script
\* twice, and a script that was denied or never decided has not been started
\* (server/scripts.rs, module header).
RunsByApproval ==
  \A s \in Scripts :
    /\ runs[s] <= 1
    /\ runs[s] = 1 => status[s] \in {"approved", "ran"}

\* What a client is told about a script is true of the row when it reads it
\* and stays true: a call that lost the race never answers "pending", and a
\* decision it was told is never undone.
ReplyHolds ==
  \A r \in Requests :
    LET row == status[target[r]] IN
    /\ reply[r] \notin {"absent", "pending"}
    /\ reply[r] \in {"denied", "ran"} => row = reply[r]
    /\ reply[r] = "approved" => row \in {"approved", "ran"}

\* The transcript holds the answer of a script at most once, and only of a
\* script whose row is closed, wherever the handler stopped.
AnswerAfterRun ==
  \A s \in Scripts :
    /\ answers[s] <= 1
    /\ answers[s] = 1 => status[s] = "ran"

\* A script that stays approved has lost the request that claimed it.
Owner(r, s) == target[r] = s /\ next[r] = "approved" /\ pc[r] \in Owned

\* An approved script closes, unless the handler that claimed it is gone.
ApprovalCloses ==
  \A s \in Scripts :
    status[s] = "approved" ~>
      (status[s] = "ran" \/ ~\E r \in Requests : Owner(r, s))

\* Where a script is in its life; a second shell would leave it "broken".
StageOf(s) ==
  CASE status[s] = "absent" /\ runs[s] = 0 -> "unwritten"
    [] status[s] = "pending" /\ runs[s] = 0 -> "waiting"
    [] status[s] = "denied" /\ runs[s] = 0 -> "denied"
    [] status[s] = "approved" /\ runs[s] = 0 -> "approved"
    [] status[s] = "approved" /\ runs[s] = 1 -> "started"
    [] status[s] = "ran" /\ runs[s] <= 1 -> "closed"
    [] OTHER -> "broken"

Abstraction == INSTANCE ScriptDecision WITH stage <- [s \in Scripts |-> StageOf(s)]

\* Every step of the daemon is a step of the life of a script that
\* ScriptDecision allows, or changes no script (server/scripts.rs, header).
DecidesOnce == Abstraction!Spec
=============================================================================
