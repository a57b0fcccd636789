----------------------- MODULE PendingScripts_proofs -----------------------
(***************************************************************************)
(* The invariants of PendingScripts hold for every set of scripts and      *)
(* requests and every number of failures, and PendingScripts implements    *)
(* ScriptDecision.                                                         *)
(***************************************************************************)
EXTENDS PendingScripts, TLAPS

\* The status a row has while the request that claimed it is at work.
HeldStatus(r) == IF pc[r] \in {"append", "touch", "stored"} THEN "ran" ELSE next[r]

\* The row of a claimed script is what its owner left it, and a denial owns it
\* only until its client is answered.
OwnerKnows ==
  \A r \in Requests : pc[r] \in Owned =>
    /\ status[target[r]] = HeldStatus(r)
    /\ next[r] = "denied" => pc[r] = "reread"

\* Two requests never own one script.
OneOwner ==
  \A r, q \in Requests :
    pc[r] \in Owned /\ pc[q] \in Owned /\ target[r] = target[q] => r = q

\* An owner that has not started the shell, or not written the answer, is the
\* only one that could have.
OwnerStartsFirst ==
  \A r \in Requests :
    /\ pc[r] = "reread" => runs[target[r]] = 0
    /\ pc[r] \in {"reread", "running", "mark", "append"} => answers[target[r]] = 0

\* A script without an approval has neither run nor answered.
Untouched ==
  \A s \in Scripts :
    status[s] \in {"absent", "pending", "denied"} => runs[s] = 0 /\ answers[s] = 0

\* A claim writes a row that exists, and a call that came second finds a
\* decision when it reads the row again.
LoserReadsDecision ==
  \A r \in Requests :
    /\ pc[r] = "claim" => status[target[r]] # "absent"
    /\ pc[r] = "decided" => status[target[r]] \in {"approved", "denied", "ran"}

Inv ==
  /\ TypeOK /\ OwnerKnows /\ OneOwner /\ OwnerStartsFirst /\ Untouched
  /\ LoserReadsDecision /\ RunsByApproval /\ ReplyHolds /\ AnswerAfterRun

-----------------------------------------------------------------------------
USE DEF Statuses, Decisions, DbSteps, Owned, Ended, Goto, Answer, Fault

\* The daemon's tables and handlers keep their types.
LEMMA TypeCorrect == Spec => []TypeOK
<1>1. Init => TypeOK
  BY FaultsAssumption DEF Init, TypeOK
<1>2. TypeOK /\ [Next]_vars => TypeOK'
  <2> SUFFICES ASSUME TypeOK, [Next]_vars PROVE TypeOK'
    OBVIOUS
  <2> USE DEF TypeOK
  <2>1. ASSUME NEW s \in Scripts, Store(s) PROVE TypeOK'
    BY <2>1 DEF Store
  <2>2. ASSUME NEW r \in Requests, Call(r) PROVE TypeOK'
    BY <2>2 DEF Call
  <2>3. ASSUME NEW r \in Requests, ReadRow(r) PROVE TypeOK'
    BY <2>3 DEF ReadRow
  <2>4. ASSUME NEW r \in Requests, WriteClaim(r) PROVE TypeOK'
    BY <2>4 DEF WriteClaim
  <2>5. ASSUME NEW r \in Requests, ReadDecided(r) PROVE TypeOK'
    BY <2>5 DEF ReadDecided
  <2>6. ASSUME NEW r \in Requests, Deny(r) PROVE TypeOK'
    BY <2>6 DEF Deny
  <2>7. ASSUME NEW r \in Requests, Approve(r) PROVE TypeOK'
    BY <2>7 DEF Approve
  <2>8. ASSUME NEW r \in Requests, EndRun(r) PROVE TypeOK'
    BY <2>8 DEF EndRun
  <2>9. ASSUME NEW r \in Requests, MarkRan(r) PROVE TypeOK'
    BY <2>9 DEF MarkRan
  <2>10. ASSUME NEW r \in Requests, AppendAnswer(r) PROVE TypeOK'
    BY <2>10 DEF AppendAnswer
  <2>11. ASSUME NEW r \in Requests, TouchConversation(r) PROVE TypeOK'
    BY <2>11 DEF TouchConversation
  <2>12. ASSUME NEW r \in Requests, ReadStored(r) PROVE TypeOK'
    BY <2>12 DEF ReadStored
  <2>13. ASSUME NEW r \in Requests, DbError(r) PROVE TypeOK'
    BY <2>13 DEF DbError
  <2>14. ASSUME NEW r \in Requests, Disconnect(r) PROVE TypeOK'
    BY <2>14 DEF Disconnect
  <2>15. CASE Restart
    BY <2>15 DEF Restart
  <2>16. CASE UNCHANGED vars
    BY <2>16 DEF vars
  <2> QED
    BY <2>1, <2>2, <2>3, <2>4, <2>5, <2>6, <2>7, <2>8, <2>9, <2>10, <2>11,
       <2>12, <2>13, <2>14, <2>15, <2>16 DEF Next, Handle
<1> QED
  BY <1>1, <1>2, PTL DEF Spec

\* Every step keeps the inductive invariant.
LEMMA Inductive == Inv /\ TypeOK' /\ [Next]_vars => Inv'
<1> SUFFICES ASSUME Inv, TypeOK', [Next]_vars PROVE Inv'
  OBVIOUS
<1> USE DEF Inv, TypeOK, HeldStatus, OwnerKnows, OneOwner, OwnerStartsFirst,
            Untouched, LoserReadsDecision, RunsByApproval, ReplyHolds, AnswerAfterRun
<1>1. ASSUME NEW s \in Scripts, Store(s) PROVE Inv'
  BY <1>1 DEF Store
<1>2. ASSUME NEW r \in Requests, Call(r) PROVE Inv'
  BY <1>2 DEF Call
<1>3. ASSUME NEW r \in Requests, ReadRow(r) PROVE Inv'
  <2>1. CASE status[target[r]] = "absent"
    BY <1>3, <2>1 DEF ReadRow
  <2>2. CASE status[target[r]] = "pending"
    BY <1>3, <2>2 DEF ReadRow
  <2>3. CASE status[target[r]] \in {"approved", "denied", "ran"}
    <3>1. /\ pc' = [pc EXCEPT ![r] = "decided"]
          /\ UNCHANGED <<status, target, next, reply, runs, answers>>
      BY <1>3, <2>3 DEF ReadRow
    <3> QED
      BY <2>3, <3>1
  <2> QED
    BY <2>1, <2>2, <2>3
<1>4. ASSUME NEW r \in Requests, WriteClaim(r) PROVE Inv'
  <2>1. CASE status[target[r]] = "pending"
    <3>1. /\ pc[r] = "claim"
          /\ pc' = [pc EXCEPT ![r] = "reread"]
          /\ status' = [status EXCEPT ![target[r]] = next[r]]
          /\ UNCHANGED <<target, next, found, reply, runs, answers>>
      BY <1>4, <2>1 DEF WriteClaim
    <3>2. \A q \in Requests : pc[q] \in Owned => target[q] # target[r]
      BY <2>1
    <3>3. runs[target[r]] = 0 /\ answers[target[r]] = 0
      BY <2>1
    <3> QED
      BY <2>1, <3>1, <3>2, <3>3
  <2>2. CASE status[target[r]] # "pending"
    <3>1. status[target[r]] # "absent"
      BY <1>4 DEF WriteClaim
    <3> QED
      BY <1>4, <2>2, <3>1 DEF WriteClaim
  <2> QED
    BY <2>1, <2>2
<1>5. ASSUME NEW r \in Requests, ReadDecided(r) PROVE Inv'
  BY <1>5 DEF ReadDecided
<1>6. ASSUME NEW r \in Requests, Deny(r) PROVE Inv'
  BY <1>6 DEF Deny
<1>7. ASSUME NEW r \in Requests, Approve(r) PROVE Inv'
  BY <1>7 DEF Approve
<1>8. ASSUME NEW r \in Requests, EndRun(r) PROVE Inv'
  BY <1>8 DEF EndRun
<1>9. ASSUME NEW r \in Requests, MarkRan(r) PROVE Inv'
  BY <1>9 DEF MarkRan
<1>10. ASSUME NEW r \in Requests, AppendAnswer(r) PROVE Inv'
  BY <1>10 DEF AppendAnswer
<1>11. ASSUME NEW r \in Requests, TouchConversation(r) PROVE Inv'
  BY <1>11 DEF TouchConversation
<1>12. ASSUME NEW r \in Requests, ReadStored(r) PROVE Inv'
  BY <1>12 DEF ReadStored
<1>13. ASSUME NEW r \in Requests, DbError(r) PROVE Inv'
  BY <1>13 DEF DbError
<1>14. ASSUME NEW r \in Requests, Disconnect(r) PROVE Inv'
  BY <1>14 DEF Disconnect
<1>15. CASE Restart
  BY <1>15 DEF Restart
<1>16. CASE UNCHANGED vars
  BY <1>16 DEF vars
<1> QED
  BY <1>1, <1>2, <1>3, <1>4, <1>5, <1>6, <1>7, <1>8,
     <1>9, <1>10, <1>11, <1>12, <1>13, <1>14, <1>15, <1>16 DEF Next, Handle

LEMMA Invariance == Spec => []Inv
<1>1. Init => Inv
  BY FaultsAssumption
     DEF Init, Inv, TypeOK, OwnerKnows, OneOwner, OwnerStartsFirst, Untouched,
         LoserReadsDecision, RunsByApproval, ReplyHolds, AnswerAfterRun
<1> QED
  BY <1>1, TypeCorrect, Inductive, PTL DEF Spec

\* A script starts at most once and only by an approval, however many calls,
\* retries, failures and restarts there are.
THEOREM ScriptsRunByApproval == Spec => []RunsByApproval
BY Invariance, PTL DEF Inv

\* What a client was told about a script is never taken back.
THEOREM RepliesHold == Spec => []ReplyHolds
BY Invariance, PTL DEF Inv

\* The transcript never answers a script twice, nor one that is still open.
THEOREM AnswersFollowRuns == Spec => []AnswerAfterRun
BY Invariance, PTL DEF Inv

-----------------------------------------------------------------------------
Stage == [s \in Scripts |-> StageOf(s)]

\* A step that leaves every other script alone moves only the stage of one.
LEMMA StageStep ==
  ASSUME NEW s \in Scripts, NEW to \in Abstraction!Stages,
         <<StageOf(s), to>> \in Abstraction!Moves,
         StageOf(s)' = to,
         \A x \in Scripts \ {s} : status'[x] = status[x] /\ runs'[x] = runs[x]
  PROVE  Abstraction!Next
<1>1. \A x \in Scripts \ {s} : StageOf(x)' = StageOf(x)
  BY DEF StageOf
<1>2. Stage' = [Stage EXCEPT ![s] = to]
  BY <1>1 DEF Stage
<1> QED
  BY <1>2 DEF Stage, Abstraction!Next, Abstraction!Advance

\* The daemon implements the life of a script: approvals are at most once.
THEOREM ImplementsDecision == Spec => DecidesOnce
<1>1. Init => Abstraction!Init
  BY DEF Init, Abstraction!Init, StageOf
<1>2. Inv /\ [Next]_vars => [Abstraction!Next]_Stage
  <2> SUFFICES ASSUME Inv, [Next]_vars PROVE Abstraction!Next \/ UNCHANGED Stage
    OBVIOUS
  <2> USE DEF Inv, TypeOK, Abstraction!Moves, Abstraction!Stages
  <2>1. ASSUME NEW s \in Scripts, Store(s) PROVE Abstraction!Next
    <3>1. StageOf(s) = "unwritten" /\ StageOf(s)' = "waiting"
      BY <2>1 DEF Store, StageOf, Untouched
    <3> QED
      BY <2>1, <3>1, StageStep DEF Store
  <2>2. ASSUME NEW r \in Requests, WriteClaim(r), status[target[r]] = "pending"
        PROVE Abstraction!Next
    <3>1. StageOf(target[r]) = "waiting" /\ StageOf(target[r])' = next[r]
      BY <2>2 DEF WriteClaim, StageOf, Untouched
    <3> QED
      BY <2>2, <3>1, StageStep DEF WriteClaim
  <2>3. ASSUME NEW r \in Requests, Approve(r), runs' # runs
        PROVE Abstraction!Next
    <3>1. StageOf(target[r]) = "approved" /\ StageOf(target[r])' = "started"
      BY <2>3 DEF Approve, StageOf, OwnerKnows, HeldStatus, OwnerStartsFirst
    <3> QED
      BY <2>3, <3>1, StageStep DEF Approve
  <2>4. ASSUME NEW r \in Requests, MarkRan(r) PROVE Abstraction!Next
    <3>1. StageOf(target[r]) \in {"approved", "started"} /\ StageOf(target[r])' = "closed"
      BY <2>4 DEF MarkRan, StageOf, OwnerKnows, HeldStatus, RunsByApproval
    <3> QED
      BY <2>4, <3>1, StageStep DEF MarkRan
  <2>5. CASE UNCHANGED <<status, runs>>
    BY <2>5 DEF Stage, StageOf
  <2> QED
    BY <2>1, <2>2, <2>3, <2>4, <2>5
       DEF Next, Handle, vars, Call, ReadRow, WriteClaim, ReadDecided, Deny, Approve,
           EndRun, AppendAnswer, TouchConversation, ReadStored, DbError, Disconnect, Restart
<1> QED
  BY <1>1, <1>2, Invariance, PTL DEF Spec, DecidesOnce, Abstraction!Spec, Stage
=============================================================================
