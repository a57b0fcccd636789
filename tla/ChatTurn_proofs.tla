--------------------------- MODULE ChatTurn_proofs ---------------------------
(***************************************************************************)
(* The transcript and the message queue, for any number of turns,          *)
(* conversations and failures.                                             *)
(***************************************************************************)
EXTENDS ChatTurn, FiniteSetTheorems, TLAPS

Has(t, role) == \E i \in DOMAIN messages : messages[i].turn = t /\ messages[i].role = role

\* Two rows of one turn and kind.
Same(a, b) == a.turn = b.turn /\ a.role = b.role

\* The times of the messages and their number.
TranscriptInv ==
  /\ \A i \in DOMAIN messages : pc[messages[i].turn] # "idle"
  /\ \A i \in DOMAIN messages :
       messages[i].role \in {"question", "reply"} => messages[i].at = began[messages[i].turn]
  /\ \A i \in DOMAIN messages : messages[i].role = "ran" =>
       messages[i].at > began[messages[i].turn] /\ \A t \in Turns : messages[i].at # began[t]
  /\ \A i, j \in DOMAIN messages :
       Same(messages[i], messages[j]) /\ messages[i].role \in {"question", "reply"} => i = j
  /\ \A t \in Turns : Has(t, "reply") => Has(t, "question")

\* Every turn that began has a time of its own.
TimesInv ==
  /\ \A t \in Turns : pc[t] = "idle" <=> began[t] = 0
  /\ \A t, u \in Turns : began[t] = began[u] /\ began[t] # 0 => t = u

Unasked == {"idle", "find", "create", "enqueue", "history", "read", "record", "propose", "question"}
Asked == {"touch question", "reply", "touch reply", "mark"}

\* Where a turn is tells what it has stored.
Stage(t) ==
  /\ pc[t] \in Unasked => ~Has(t, "question")
  /\ pc[t] \in Unasked \cup {"touch question", "reply"} => ~Has(t, "reply")
  /\ pc[t] \in Asked => Has(t, "question")
  /\ pc[t] \in {"touch reply", "mark"} => Has(t, "reply")
  /\ queue[t] = "handled" => Has(t, "question") /\ Has(t, "reply")
  /\ pc[t] \in Asked \cup {"find", "enqueue", "question"} => conv[t] # NoConv
  /\ pc[t] \in {"idle", "find", "create", "enqueue"} \/ conv[t] = NoConv => queue[t] = "none"
  /\ pc[t] = "answered" => queue[t] # "pending"
  /\ script[t] # "none" => pc[t] # "idle"

StageInv == \A t \in Turns : Stage(t)

TurnInv == TypeOK /\ TimesInv /\ TranscriptInv /\ StageInv

Rows == [turn : Turns, role : {"question", "reply", "ran"}, conv : Conversations, at : 1..clock]

LEMMA RowsTyped ==
  ASSUME TypeOK
  PROVE  messages \in Seq(Rows) /\ \A i \in DOMAIN messages : messages[i].turn \in Turns
<1>1. messages \in Seq(Rows)
  BY DEF TypeOK, Rows
<1>2. \A i \in DOMAIN messages : messages[i] \in Rows
  BY <1>1
<1> QED BY <1>1, <1>2 DEF Rows

\* One more row at the end of the transcript.
LEMMA Inserted ==
  ASSUME TypeOK, NEW t \in Turns, NEW role \in {"question", "reply", "ran"}, NEW at \in Nat,
         conv[t] # NoConv, Insert(t, role, at)
  PROVE  LET n == Len(messages) + 1 IN
         /\ n \in Nat /\ DOMAIN messages = 1..Len(messages)
         /\ DOMAIN messages' = 1..n
         /\ \A i \in DOMAIN messages : messages'[i] = messages[i] /\ i < n
         /\ messages'[n] = [turn |-> t, role |-> role, conv |-> conv[t], at |-> at]
         /\ \A u, r : Has(u, r)' <=> (Has(u, r) \/ (u = t /\ r = role))
<1>1. messages \in Seq(Rows)
  BY RowsTyped
<1>2. messages' = Append(messages, [turn |-> t, role |-> role, conv |-> conv[t], at |-> at])
  BY DEF Insert
<1> DEFINE n == Len(messages) + 1
<1>3. /\ n \in Nat /\ DOMAIN messages = 1..Len(messages) /\ DOMAIN messages' = 1..n
      /\ \A i \in DOMAIN messages : messages'[i] = messages[i] /\ i < n
      /\ messages'[n] = [turn |-> t, role |-> role, conv |-> conv[t], at |-> at]
  BY <1>1, <1>2
<1>4. ASSUME NEW u, NEW r PROVE Has(u, r)' <=> (Has(u, r) \/ (u = t /\ r = role))
  <2>1. n \in DOMAIN messages' /\ \A i \in DOMAIN messages' : i = n \/ i \in DOMAIN messages
    BY <1>3
  <2> HIDE DEF n
  <2>2. messages'[n].turn = t /\ messages'[n].role = role
    BY <1>3
  <2>3. \A i \in DOMAIN messages : i \in DOMAIN messages'
    BY <1>3 DEF n
  <2> QED BY <1>3, <2>1, <2>2, <2>3 DEF Has
<1> QED BY <1>3, <1>4

\* A step that inserts no row keeps the transcript.
LEMMA QuietTranscript ==
  ASSUME TypeOK, TimesInv, TranscriptInv, UNCHANGED <<messages, began>>,
         \A t \in Turns : pc'[t] = "idle" <=> pc[t] = "idle"
  PROVE  TimesInv' /\ TranscriptInv' /\ \A t, r : Has(t, r)' <=> Has(t, r)
<1>1. \A t, r : Has(t, r)' <=> Has(t, r)
  BY DEF Has
<1>2. \A i \in DOMAIN messages : messages[i].turn \in Turns
  BY RowsTyped
<1>3. TimesInv'
  BY DEF TimesInv
<1>4. TranscriptInv'
  BY <1>1, <1>2 DEF TranscriptInv
<1> QED BY <1>1, <1>3, <1>4

\* A row of a turn keeps the transcript when it is the first of its kind, with
\* the time of the turn, and a reply follows its question; the answer of a
\* script does when its time is new.
LEMMA InsertTranscript ==
  ASSUME TypeOK, TimesInv, TranscriptInv,
         NEW t \in Turns, NEW role \in {"question", "reply", "ran"}, NEW at \in Nat,
         conv[t] # NoConv, pc[t] # "idle", Insert(t, role, at), began' = began,
         \A u \in Turns : pc'[u] = "idle" <=> pc[u] = "idle",
         role = "ran" => at > clock,
         role # "ran" => at = began[t] /\ ~Has(t, role),
         role = "question" => ~Has(t, "reply"),
         role = "reply" => Has(t, "question")
  PROVE  TimesInv' /\ TranscriptInv'
<1> DEFINE n == Len(messages) + 1
<1>1. /\ n \in Nat /\ DOMAIN messages = 1..Len(messages) /\ DOMAIN messages' = 1..n
      /\ \A i \in DOMAIN messages : messages'[i] = messages[i] /\ i < n
      /\ messages'[n] = [turn |-> t, role |-> role, conv |-> conv[t], at |-> at]
      /\ \A u, r : Has(u, r)' <=> (Has(u, r) \/ (u = t /\ r = role))
  BY Inserted
<1>2. /\ messages'[n].turn = t /\ messages'[n].role = role /\ messages'[n].at = at
      /\ \A i \in DOMAIN messages' : i = n \/ i \in DOMAIN messages
  BY <1>1
<1>3. \A i \in DOMAIN messages : messages[i].turn \in Turns
  BY RowsTyped
<1>4. \A u \in Turns : began[u] \in Nat /\ began[u] <= clock /\ clock \in Nat
  BY DEF TypeOK
<1>5. TimesInv'
  BY DEF TimesInv
<1> HIDE DEF n
<1>6. \A i \in DOMAIN messages' : pc'[messages'[i].turn] # "idle"
  BY <1>1, <1>2, <1>3 DEF TranscriptInv
<1>7. \A i \in DOMAIN messages' :
        messages'[i].role \in {"question", "reply"} => messages'[i].at = began'[messages'[i].turn]
  BY <1>1, <1>2 DEF TranscriptInv
<1>8. \A i \in DOMAIN messages' : messages'[i].role = "ran" =>
        /\ messages'[i].at > began'[messages'[i].turn]
        /\ \A u \in Turns : messages'[i].at # began'[u]
  BY <1>1, <1>2, <1>4 DEF TranscriptInv
<1>9. \A i, j \in DOMAIN messages' :
        Same(messages'[i], messages'[j]) /\ messages'[i].role \in {"question", "reply"} => i = j
  <2> SUFFICES ASSUME NEW i \in DOMAIN messages', NEW j \in DOMAIN messages',
                      Same(messages'[i], messages'[j]), messages'[i].role \in {"question", "reply"}
               PROVE  i = j
    OBVIOUS
  <2>1. CASE i = n /\ j = n
    BY <2>1
  <2>2. CASE i \in DOMAIN messages /\ j \in DOMAIN messages
    BY <1>1, <2>2 DEF TranscriptInv
  <2>3. CASE i = n /\ j \in DOMAIN messages
    BY <1>1, <1>2, <2>3 DEF Has, Same
  <2>4. CASE j = n /\ i \in DOMAIN messages
    BY <1>1, <1>2, <2>4 DEF Has, Same
  <2> QED BY <1>2, <2>1, <2>2, <2>3, <2>4
<1>11. \A u \in Turns : Has(u, "reply")' => Has(u, "question")'
  BY <1>1 DEF TranscriptInv
<1> QED BY <1>5, <1>6, <1>7, <1>8, <1>9, <1>11 DEF TranscriptInv

\* The rows keep their type as the time goes on.
LEMMA RowsLater ==
  ASSUME TypeOK, clock' \in Nat, clock <= clock'
  PROVE  messages \in Seq(Rows')
<1>1. messages \in Seq(Rows)
  BY RowsTyped
<1>2. Rows \subseteq Rows'
  BY DEF Rows, TypeOK
<1>3. \A n \in 1..Len(messages) : messages[n] \in Rows'
  BY <1>1, <1>2
<1> QED BY <1>1, <1>3

\* What the turns do that insert no row, and what the actions around them do.
Quiet(t) ==
  \/ FindConversation(t) \/ CreateConversation(t) \/ Enqueue(t) \/ BuildHistory(t)
  \/ Read(t) \/ RecordEpisode(t) \/ StoreProposal(t) \/ TouchQuestion(t) \/ TouchReply(t)
  \/ MarkHandled(t) \/ DbError(t)

LEMMA QuietTyped ==
  ASSUME TurnInv, NEW t \in Turns, Quiet(t)
  PROVE  TypeOK' /\ UNCHANGED <<messages, began, clock>>
<1> USE DEF TurnInv
<1> SUFFICES ASSUME UNCHANGED <<messages, began, clock>> PROVE TypeOK'
  BY DEF Quiet, FindConversation, CreateConversation, Enqueue, BuildHistory, Read,
     RecordEpisode, StoreProposal, TouchQuestion, TouchReply, MarkHandled, DbError, others
<1>0. began[t] \in 0..clock /\ clock \in Nat
  BY DEF TypeOK
<1>1. CASE FindConversation(t)
  BY <1>0, <1>1 DEF FindConversation, TypeOK, Goto, DbSteps, Ended, others
<1>2. CASE CreateConversation(t)
  BY <1>0, <1>2 DEF CreateConversation, TypeOK, Goto, DbSteps, Ended
<1>3. CASE Enqueue(t)
  BY <1>0, <1>3 DEF Enqueue, TypeOK, Goto, DbSteps, Ended, others
<1>4. CASE BuildHistory(t)
  BY <1>0, <1>4 DEF BuildHistory, TypeOK, Goto, DbSteps, Ended, others
<1>5. CASE Read(t)
  BY <1>0, <1>5 DEF Read, TypeOK, Goto, DbSteps, Ended, Store, others
<1>6. CASE RecordEpisode(t)
  BY <1>0, <1>6 DEF RecordEpisode, TypeOK, Goto, DbSteps, Ended, Store
<1>7. CASE StoreProposal(t)
  BY <1>0, <1>7 DEF StoreProposal, TypeOK, Goto, DbSteps, Ended, Store
<1>8. CASE TouchQuestion(t)
  BY <1>0, <1>8 DEF TouchQuestion, TypeOK, Goto, DbSteps, Ended, others
<1>9. CASE TouchReply(t)
  BY <1>0, <1>9 DEF TouchReply, TypeOK, Goto, DbSteps, Ended, others
<1>10. CASE MarkHandled(t)
  BY <1>0, <1>10 DEF MarkHandled, TypeOK, Goto, DbSteps, Ended, others
<1>11. CASE DbError(t)
  <2>1. faults' \in 0..MaxFaults
    BY <1>11, FaultsAssumption DEF DbError, TypeOK
  <2>2. pc' \in [Turns -> DbSteps \cup Ended \cup {"read", "record"}]
    <3>1. pc \in [Turns -> DbSteps \cup Ended \cup {"read", "record"}]
      BY DEF TypeOK
    <3>2. pc' = [pc EXCEPT ![t] = "answered"] \/ pc' = [pc EXCEPT ![t] = "failed"]
      BY <1>11 DEF DbError, Goto
    <3> QED BY <3>1, <3>2 DEF Ended
  <2>3. UNCHANGED <<began, conv, queue, script, updated, messages, memory, clock>>
    BY <1>11 DEF DbError
  <2> QED BY <2>1, <2>2, <2>3 DEF TypeOK
<1> QED
  BY <1>1, <1>2, <1>3, <1>4, <1>5, <1>6, <1>7, <1>8, <1>9, <1>10, <1>11 DEF Quiet

\* The stage of the turns that take no step.
LEMMA OthersStay ==
  ASSUME StageInv, NEW t \in Turns, Stage(t)',
         \A u \in Turns \ {t} : /\ pc'[u] = pc[u] /\ queue'[u] = queue[u]
                                /\ conv'[u] = conv[u] /\ script'[u] = script[u]
                                /\ \A r : Has(u, r)' <=> Has(u, r)
  PROVE  StageInv'
<1>1. ASSUME NEW u \in Turns \ {t} PROVE Stage(u)'
  BY <1>1 DEF StageInv, Stage
<1> QED BY <1>1 DEF StageInv

LEMMA QuietStage ==
  ASSUME TurnInv, NEW t \in Turns, Quiet(t), \A u, r : Has(u, r)' <=> Has(u, r)
  PROVE  StageInv' /\ \A u \in Turns : pc'[u] = "idle" <=> pc[u] = "idle"
<1> USE DEF TurnInv
<1>0. Stage(t)
  BY DEF StageInv
<1> DEFINE Kept == /\ Stage(t)'
                   /\ \A u \in Turns \ {t} : /\ pc'[u] = pc[u] /\ queue'[u] = queue[u]
                                             /\ conv'[u] = conv[u] /\ script'[u] = script[u]
                   /\ \A u \in Turns : pc'[u] = "idle" <=> pc[u] = "idle"
<1> SUFFICES Kept
  BY OthersStay
<1> HIDE DEF Kept
<1>. /\ Has(t, "question")' <=> Has(t, "question")
     /\ Has(t, "reply")' <=> Has(t, "reply")
  OBVIOUS
<1>1. CASE FindConversation(t)
  BY <1>0, <1>1 DEF FindConversation, TypeOK, Stage, Kept, Goto, Unasked, Asked, others
<1>2. CASE CreateConversation(t)
  BY <1>0, <1>2, NoConvAssumption DEF CreateConversation, TypeOK, Stage, Kept, Goto, Unasked, Asked, NoConv
<1>3. CASE Enqueue(t)
  BY <1>0, <1>3 DEF Enqueue, TypeOK, Stage, Kept, Goto, Unasked, Asked, others
<1>4. CASE BuildHistory(t)
  BY <1>0, <1>4 DEF BuildHistory, TypeOK, Stage, Kept, Goto, Unasked, Asked, others
<1>5. CASE Read(t)
  BY <1>0, <1>5 DEF Read, TypeOK, Stage, Kept, Goto, Unasked, Asked, others, Store
<1>6. CASE RecordEpisode(t)
  BY <1>0, <1>6 DEF RecordEpisode, TypeOK, Stage, Kept, Goto, Unasked, Asked, Store
<1>7. CASE StoreProposal(t)
  BY <1>0, <1>7 DEF StoreProposal, TypeOK, Stage, Kept, Goto, Unasked, Asked, Store
<1>8. CASE TouchQuestion(t)
  BY <1>0, <1>8 DEF TouchQuestion, TypeOK, Stage, Kept, Goto, Unasked, Asked, others
<1>9. CASE TouchReply(t)
  BY <1>0, <1>9 DEF TouchReply, TypeOK, Stage, Kept, Goto, Unasked, Asked, others
<1>10. CASE MarkHandled(t)
  BY <1>0, <1>10 DEF MarkHandled, TypeOK, Stage, Kept, Goto, Unasked, Asked, others
<1>11. CASE DbError(t)
  <2>1. \/ pc' = [pc EXCEPT ![t] = "answered"] /\ conv[t] = NoConv /\ pc[t] = "propose"
        \/ pc' = [pc EXCEPT ![t] = "failed"] /\ pc[t] \in DbSteps
    BY <1>11 DEF DbError, Goto
  <2>2. UNCHANGED <<conv, queue, script>>
    BY <1>11 DEF DbError
  <2> QED BY <1>0, <2>1, <2>2 DEF TypeOK, Stage, Kept, Unasked, Asked, DbSteps
<1> QED
  BY <1>1, <1>2, <1>3, <1>4, <1>5, <1>6, <1>7, <1>8, <1>9, <1>10, <1>11 DEF Quiet

\* A row that is typed keeps the transcript typed.
LEMMA InsertTyped ==
  ASSUME TypeOK, NEW t \in Turns, NEW role \in {"question", "reply", "ran"}, NEW at \in 1..clock',
         conv[t] # NoConv, Insert(t, role, at), clock' \in Nat, clock <= clock'
  PROVE  messages' \in Seq(Rows')
<1>1. messages \in Seq(Rows')
  BY RowsLater
<1>2. conv[t] \in Conversations
  BY DEF TypeOK
<1>3. [turn |-> t, role |-> role, conv |-> conv[t], at |-> at] \in Rows'
  BY <1>2 DEF Rows
<1> QED BY <1>1, <1>3 DEF Insert

\* The question and the reply of a turn are inserted in their turn.
LEMMA AppendKeeps ==
  ASSUME TurnInv, NEW t \in Turns, AppendQuestion(t) \/ AppendReply(t)
  PROVE  TurnInv'
<1> USE DEF TurnInv
<1>0. PICK at : at = began[t]
  OBVIOUS
<1>1. PICK role \in {"question", "reply"} :
        /\ Insert(t, role, at)
        /\ role = "question" => pc[t] = "question" /\ pc' = [pc EXCEPT ![t] = "touch question"]
        /\ role = "reply" => pc[t] = "reply" /\ pc' = [pc EXCEPT ![t] = "touch reply"]
        /\ UNCHANGED <<began, conv, script, memory, clock, faults, queue, updated>>
  BY <1>0 DEF AppendQuestion, AppendReply, Goto, others
<1>2. Stage(t)
  BY DEF StageInv
<1>3. conv[t] # NoConv /\ pc[t] # "idle" /\ ~Has(t, role) /\ (role = "question" => ~Has(t, "reply"))
      /\ (role = "reply" => Has(t, "question"))
  BY <1>1, <1>2 DEF Stage, Unasked, Asked
<1>4. at = began[t] /\ at \in 1..clock /\ at \in Nat /\ clock \in Nat
  BY <1>0, <1>3 DEF TypeOK, TimesInv
<1>4a. clock' = clock /\ Insert(t, role, at) /\ role \in {"question", "reply", "ran"}
  BY <1>1
<1>4b. /\ TypeOK /\ conv[t] # NoConv /\ Insert(t, role, at)
        /\ role \in {"question", "reply", "ran"} /\ at \in Nat /\ at \in 1..clock'
        /\ clock' \in Nat /\ clock <= clock'
  BY <1>3, <1>4, <1>4a
<1>5. /\ \A u \in Turns \ {t} : pc'[u] = pc[u]
      /\ pc'[t] = IF role = "question" THEN "touch question" ELSE "touch reply"
      /\ pc' \in [Turns -> DbSteps \cup Ended \cup {"read", "record"}]
  BY <1>1 DEF TypeOK, DbSteps
<1>6. \A u, r : Has(u, r)' <=> (Has(u, r) \/ (u = t /\ r = role))
  BY <1>4b, Inserted
<1>7. TypeOK'
  <2>1. messages' \in Seq(Rows')
    BY <1>4b, InsertTyped
  <2> QED BY <1>1, <1>5, <2>1 DEF TypeOK, Rows
<1>8. TimesInv' /\ TranscriptInv'
  BY <1>1, <1>3, <1>4, <1>5, InsertTranscript
<1>9. StageInv'
  <2>1. Stage(t)'
    BY <1>1, <1>2, <1>3, <1>5, <1>6 DEF Stage, Unasked, Asked
  <2> QED BY <1>1, <1>5, <1>6, <2>1, OthersStay
<1> QED BY <1>7, <1>8, <1>9

\* The answer of a script is inserted with a time of its own.
LEMMA AnswerKeeps ==
  ASSUME TurnInv, NEW t \in Turns, ScriptAnswer(t)
  PROVE  TurnInv'
<1> USE DEF TurnInv
<1>0. PICK at : at = clock + 1
  OBVIOUS
<1>1. /\ script[t] = "waiting" /\ conv[t] # NoConv /\ clock' = at
      /\ Insert(t, "ran", at) /\ script' = [script EXCEPT ![t] = "ran"]
      /\ UNCHANGED <<pc, began, conv, queue, updated, memory, faults>>
  BY <1>0 DEF ScriptAnswer
<1>2. Stage(t) /\ clock \in Nat /\ at \in Nat /\ clock < at
  BY <1>0 DEF StageInv, TypeOK
<1>3. pc[t] # "idle"
  BY <1>1, <1>2 DEF Stage
<1>4. \A u, r : Has(u, r)' <=> (Has(u, r) \/ (u = t /\ r = "ran"))
  BY <1>1, <1>2, Inserted
<1>5. TypeOK'
  <2>1. messages' \in Seq(Rows')
    BY <1>1, <1>2, InsertTyped
  <2>2. /\ began' \in [Turns -> 0..clock'] /\ updated' \in [Conversations -> 0..clock']
        /\ clock' \in Nat /\ script' \in [Turns -> {"none", "waiting", "ran", "done"}]
    BY <1>1, <1>2 DEF TypeOK
  <2> QED BY <1>1, <2>1, <2>2 DEF TypeOK, Rows
<1>6. TimesInv' /\ TranscriptInv'
  BY <1>1, <1>2, <1>3, InsertTranscript
<1>7. StageInv'
  <2>1. ASSUME NEW u \in Turns PROVE Stage(u)'
    <3>1. Stage(u) /\ (script'[u] # "none" => script[u] # "none")
      BY <1>1 DEF StageInv, TypeOK
    <3>2. /\ Has(u, "question")' <=> Has(u, "question")
          /\ Has(u, "reply")' <=> Has(u, "reply")
      BY <1>4
    <3> QED BY <1>1, <3>1, <3>2 DEF Stage
  <2> QED BY <2>1 DEF StageInv
<1> QED BY <1>5, <1>6, <1>7

\* A turn begins at a time of its own.
LEMMA BeginKeeps ==
  ASSUME TurnInv, NEW t \in Turns, Begin(t)
  PROVE  TurnInv'
<1> USE DEF TurnInv
<1>1. /\ pc[t] = "idle" /\ clock' = clock + 1 /\ began' = [began EXCEPT ![t] = clock + 1]
      /\ UNCHANGED <<queue, script, updated, messages, memory, faults>>
      /\ \/ pc' = [pc EXCEPT ![t] = "find"] /\ \E c \in Conversations : conv' = [conv EXCEPT ![t] = c]
         \/ pc' = [pc EXCEPT ![t] = "create"] /\ UNCHANGED conv
         \/ pc' = [pc EXCEPT ![t] = "read"] /\ UNCHANGED conv
  BY DEF Begin, Goto
<1>2. /\ pc' \in [Turns -> DbSteps \cup Ended \cup {"read", "record"}]
      /\ pc'[t] \in {"find", "create", "read"}
      /\ pc'[t] = "find" => conv'[t] # NoConv
      /\ \A u \in Turns \ {t} : pc'[u] = pc[u] /\ conv'[u] = conv[u]
      /\ conv' \in [Turns -> Conversations \cup {NoConv}]
  <2>1. /\ pc \in [Turns -> DbSteps \cup Ended \cup {"read", "record"}]
        /\ conv \in [Turns -> Conversations \cup {NoConv}]
    BY DEF TypeOK
  <2>2. CASE /\ pc' = [pc EXCEPT ![t] = "find"]
             /\ \E c \in Conversations : conv' = [conv EXCEPT ![t] = c]
    <3>1. PICK c \in Conversations : conv' = [conv EXCEPT ![t] = c]
      BY <2>2
    <3>2. c # NoConv
      BY NoConvAssumption DEF NoConv
    <3> QED BY <2>1, <2>2, <3>1, <3>2 DEF DbSteps
  <2>3. CASE pc' = [pc EXCEPT ![t] = "create"] /\ UNCHANGED conv
    BY <2>1, <2>3 DEF DbSteps
  <2>4. CASE pc' = [pc EXCEPT ![t] = "read"] /\ UNCHANGED conv
    BY <2>1, <2>4
  <2> QED BY <1>1, <2>2, <2>3, <2>4
<1>3. /\ clock \in Nat /\ clock' \in Nat /\ clock < clock'
      /\ \A u \in Turns : began[u] \in 0..clock /\ began'[u] = IF u = t THEN clock + 1 ELSE began[u]
  BY <1>1 DEF TypeOK
<1>4. TypeOK'
  <2>1. messages' \in Seq(Rows')
    BY <1>1, <1>3, RowsLater
  <2>2. began' \in [Turns -> 0..clock'] /\ updated' \in [Conversations -> 0..clock']
    BY <1>1, <1>3 DEF TypeOK
  <2> QED BY <1>1, <1>2, <1>3, <2>1, <2>2 DEF TypeOK, Rows
<1>5. TimesInv'
  BY <1>2, <1>3 DEF TimesInv
<1>6. \A u, r : Has(u, r)' <=> Has(u, r)
  BY <1>1 DEF Has
<1>7. TranscriptInv'
  <2>1. \A i \in DOMAIN messages : messages[i].turn \in Turns \ {t} /\ messages[i].at \in 1..clock
    <3>1. messages \in Seq(Rows)
      BY RowsTyped
    <3>2. \A i \in DOMAIN messages : messages[i] \in Rows
      BY <3>1
    <3> QED BY <1>1, <3>2 DEF Rows, TranscriptInv
  <2>2. \A i \in DOMAIN messages : /\ pc'[messages[i].turn] = pc[messages[i].turn]
                                   /\ began'[messages[i].turn] = began[messages[i].turn]
                                   /\ messages[i].at # clock + 1
    BY <1>2, <1>3, <2>1
  <2>3. \A i \in DOMAIN messages : messages[i].role = "ran" =>
          /\ messages[i].at > began'[messages[i].turn]
          /\ \A u \in Turns : messages[i].at # began'[u]
    BY <1>3, <2>2 DEF TranscriptInv
  <2> QED BY <1>1, <1>6, <2>2, <2>3 DEF TranscriptInv
<1>8. StageInv'
  <2>1. Stage(t)
    BY DEF StageInv
  <2>2. Stage(t)'
    BY <1>1, <1>2, <1>6, <2>1 DEF Stage, Unasked, Asked
  <2> QED BY <1>1, <1>2, <1>6, <2>2, OthersStay
<1> QED BY <1>4, <1>5, <1>7, <1>8

\* Turns that end before they are answered leave their row as it is.
LEMMA DropKeeps ==
  ASSUME TurnInv, NEW ts, Drop(ts)
  PROVE  TurnInv'
<1> USE DEF TurnInv
<1>1. /\ faults < MaxFaults /\ faults' = faults + 1
      /\ pc' = [t \in Turns |-> IF t \in ts /\ pc[t] \notin Ended THEN "failed" ELSE pc[t]]
      /\ UNCHANGED <<began, conv, queue, script, updated, messages, memory, clock>>
  BY DEF Drop
<1>2. \A u \in Turns : pc'[u] = pc[u] \/ (pc'[u] = "failed" /\ pc[u] # "idle")
  BY <1>1 DEF Ended
<1>3. \A u, r : Has(u, r)' <=> Has(u, r)
  BY <1>1 DEF Has
<1>4. TypeOK'
  <2>1. faults' \in 0..MaxFaults
    BY <1>1, FaultsAssumption DEF TypeOK
  <2>2. pc' \in [Turns -> DbSteps \cup Ended \cup {"read", "record"}]
    BY <1>1 DEF TypeOK, Ended
  <2> QED BY <1>1, <2>1, <2>2 DEF TypeOK
<1>5. TimesInv' /\ TranscriptInv'
  BY <1>1, <1>2, QuietTranscript
<1>6. StageInv'
  <2>1. ASSUME NEW u \in Turns PROVE Stage(u)'
    <3>1. Stage(u)
      BY DEF StageInv
    <3>2. /\ Has(u, "question")' <=> Has(u, "question")
          /\ Has(u, "reply")' <=> Has(u, "reply")
      BY <1>3
    <3> QED BY <1>1, <1>2, <3>1, <3>2 DEF Stage, Unasked, Asked
  <2> QED BY <2>1 DEF StageInv
<1> QED BY <1>4, <1>5, <1>6

\* What the worker and the scripts do besides.
LEMMA AroundKeeps ==
  ASSUME TurnInv, NEW t \in Turns, MarkLearned(t) \/ TouchScript(t)
  PROVE  TurnInv'
<1> USE DEF TurnInv
<1>1. /\ UNCHANGED <<pc, began, conv, queue, messages, clock, faults>>
      /\ memory' \in [Turns -> {"none", "episode", "marked"}]
      /\ script' \in [Turns -> {"none", "waiting", "ran", "done"}]
      /\ \A u \in Turns : script'[u] # "none" => script[u] # "none"
  BY DEF MarkLearned, TouchScript, TypeOK
<1>2. updated' \in [Conversations -> 0..clock]
  <2>1. CASE MarkLearned(t)
    BY <2>1 DEF MarkLearned, TypeOK
  <2>2. CASE TouchScript(t)
    <3>1. PICK i \in DOMAIN messages : updated' = [updated EXCEPT ![conv[t]] = messages[i].at]
      BY <2>2 DEF TouchScript, Listed
    <3>2. messages \in Seq(Rows)
      BY RowsTyped
    <3>3. messages[i] \in Rows
      BY <3>1, <3>2
    <3>4. messages[i].at \in 0..clock
      BY <3>3 DEF Rows, TypeOK
    <3> QED BY <3>1, <3>4 DEF TypeOK
  <2> QED BY <2>1, <2>2
<1>3. TypeOK'
  BY <1>1, <1>2 DEF TypeOK
<1>4. TimesInv' /\ TranscriptInv' /\ \A u, r : Has(u, r)' <=> Has(u, r)
  BY <1>1, QuietTranscript
<1>5. StageInv'
  <2>1. ASSUME NEW u \in Turns PROVE Stage(u)'
    <3>1. Stage(u)
      BY DEF StageInv
    <3>2. /\ Has(u, "question")' <=> Has(u, "question")
          /\ Has(u, "reply")' <=> Has(u, "reply")
      BY <1>4
    <3> QED BY <1>1, <3>1, <3>2 DEF Stage
  <2> QED BY <2>1 DEF StageInv
<1> QED BY <1>3, <1>4, <1>5

LEMMA TurnsInductive ==
  /\ Init => TurnInv
  /\ TurnInv /\ [Next]_vars => TurnInv'
<1>1. Init => TurnInv
  <2> SUFFICES ASSUME Init PROVE TurnInv
    OBVIOUS
  <2>1. \A t, r : ~Has(t, r)
    BY DEF Init, Has
  <2>2. TypeOK
    BY FaultsAssumption DEF Init, TypeOK, Ended, NoConv
  <2>3. TimesInv /\ TranscriptInv
    BY <2>1 DEF Init, TimesInv, TranscriptInv
  <2>4. StageInv
    BY <2>1 DEF Init, StageInv, Stage, Asked
  <2> QED BY <2>2, <2>3, <2>4 DEF TurnInv
<1>2. ASSUME TurnInv, [Next]_vars PROVE TurnInv'
  <2>1. ASSUME NEW t \in Turns, Quiet(t) PROVE TurnInv'
    <3>1. TypeOK' /\ UNCHANGED <<messages, began, clock>>
      BY <1>2, <2>1, QuietTyped
    <3>2. \A u, r : Has(u, r)' <=> Has(u, r)
      BY <3>1 DEF Has
    <3>3. StageInv' /\ \A u \in Turns : pc'[u] = "idle" <=> pc[u] = "idle"
      BY <1>2, <2>1, <3>2, QuietStage
    <3>4. TimesInv' /\ TranscriptInv'
      BY <1>2, <3>1, <3>3, QuietTranscript DEF TurnInv
    <3> QED BY <3>1, <3>3, <3>4 DEF TurnInv
  <2>2. CASE UNCHANGED vars
    <3>1. UNCHANGED <<pc, began, conv, queue, script, updated, messages, memory, clock, faults>>
      BY <2>2 DEF vars
    <3>2. TypeOK'
      BY <1>2, <3>1 DEF TurnInv, TypeOK
    <3>3. TimesInv' /\ TranscriptInv' /\ \A u, r : Has(u, r)' <=> Has(u, r)
      BY <1>2, <3>1, QuietTranscript DEF TurnInv
    <3>4. StageInv'
      BY <1>2, <3>1, <3>3 DEF TurnInv, StageInv, Stage
    <3> QED BY <3>2, <3>3, <3>4 DEF TurnInv
  <2> QED
    BY <1>2, <2>1, <2>2, AppendKeeps, AnswerKeeps, BeginKeeps, DropKeeps, AroundKeeps
       DEF Next, Handle, Quiet
<1> QED BY <1>1, <1>2

LEMMA TurnsHold == Spec => []TurnInv
BY TurnsInductive, PTL DEF Spec

-----------------------------------------------------------------------------
LEMMA RowsRead ==
  ASSUME TurnInv, NEW i \in DOMAIN messages
  PROVE  i \in Nat /\ messages[i].turn \in Turns /\ messages[i].at \in Nat \ {0}
         /\ messages[i].role \in {"question", "reply", "ran"}
<1>1. messages \in Seq(Rows) /\ clock \in Nat
  BY RowsTyped DEF TurnInv, TypeOK
<1>2. i \in Nat /\ messages[i] \in Rows
  BY <1>1
<1> QED BY <1>1, <1>2 DEF Rows

\* The turns keep their types: no row is stored of a turn that has not begun.
THEOREM TurnsAreTyped == Spec => []TypeOK
BY TurnsHold, PTL DEF TurnInv

\* The rows of store_turn (chat.rs) and of the queue agree, however many turns
\* run at a time and whatever failed: a row is closed only for a turn whose two
\* messages are stored, once.
THEOREM ClosedRowsAreStored == Spec => []HandledMeansStored
<1>1. ASSUME TurnInv PROVE HandledMeansStored
  <2> SUFFICES ASSUME NEW t \in Turns, NEW role \in {"question", "reply"}
               PROVE  /\ Cardinality(Message(t, role)) <= 1
                      /\ queue[t] = "handled" => Message(t, role) # {}
                      /\ pc[t] = "answered" => queue[t] # "pending"
    BY DEF HandledMeansStored
  <2>1. \A i, j \in Message(t, role) : i = j
    BY <1>1 DEF TurnInv, TranscriptInv, Message, Same
  <2>2. Cardinality(Message(t, role)) <= 1
    <3>1. CASE Message(t, role) = {}
      BY <3>1, FS_EmptySet
    <3>2. CASE \E i : i \in Message(t, role)
      <4>1. PICK i : i \in Message(t, role)
        BY <3>2
      <4>2. Message(t, role) = {i}
        BY <2>1, <4>1
      <4>3. Cardinality({i}) = 1
        BY FS_Singleton
      <4> QED BY <4>2, <4>3
    <3> QED BY <3>1, <3>2
  <2>3. Stage(t)
    BY <1>1 DEF TurnInv, StageInv
  <2>4. Has(t, role) <=> Message(t, role) # {}
    BY DEF Has, Message
  <2> QED BY <2>2, <2>3, <2>4 DEF Stage
<1> QED BY <1>1, TurnsHold, PTL

\* The reply of a turn stands next to its question, in whatever order messages of
\* the same time are listed and however many turns overlap in the conversation.
THEOREM TurnsAreListedWhole == Spec => []TurnsListedWhole
<1>1. ASSUME TurnInv PROVE TurnsListedWhole
  <2> SUFFICES ASSUME NEW t \in Turns, NEW r \in Message(t, "reply")
               PROVE  \E q \in Message(t, "question") :
                        \A i \in Listed(conv[t]) \ {q, r} : ~Between(i, q, r) /\ ~Between(i, r, q)
    BY DEF TurnsListedWhole
  <2>1. r \in DOMAIN messages /\ messages[r].turn = t /\ messages[r].role = "reply"
    BY DEF Message
  <2>2. PICK q \in DOMAIN messages : messages[q].turn = t /\ messages[q].role = "question"
    BY <1>1, <2>1 DEF TurnInv, TranscriptInv, Has
  <2>3. messages[q].at = began[t] /\ messages[r].at = began[t] /\ began[t] \in Nat \ {0}
    BY <1>1, <2>1, <2>2, RowsRead DEF TurnInv, TranscriptInv
  <2>4. ASSUME NEW i \in DOMAIN messages, i \notin {q, r}, Between(i, q, r) \/ Between(i, r, q)
        PROVE  FALSE
    <3>1. /\ i \in Nat /\ messages[i].turn \in Turns /\ messages[i].at \in Nat
          /\ messages[i].role \in {"question", "reply", "ran"}
      BY <1>1, RowsRead
    <3>2. messages[i].at = began[t]
      BY <2>3, <2>4, <3>1 DEF Between, Before
    <3>3. messages[i].role # "ran"
      BY <1>1, <3>2 DEF TurnInv, TranscriptInv
    <3>4. messages[i].turn = t
      BY <1>1, <2>3, <3>1, <3>2, <3>3 DEF TurnInv, TranscriptInv, TimesInv
    <3>5. i = q \/ i = r
      BY <1>1, <2>1, <2>2, <3>1, <3>3, <3>4 DEF TurnInv, TranscriptInv, Same
    <3> QED BY <2>4, <3>5
  <2> QED BY <2>2, <2>4 DEF Message, Listed
<1> QED BY <1>1, TurnsHold, PTL

\* The answer of a script comes after the turn that proposed it, also when the
\* user approves it first.
THEOREM AnswersFollowTurns == Spec => []AnswersListedAfterTurn
<1>1. ASSUME TurnInv PROVE AnswersListedAfterTurn
  <2> SUFFICES ASSUME NEW t \in Turns, NEW a \in Message(t, "ran"),
                      NEW i \in Message(t, "question") \cup Message(t, "reply")
               PROVE  Before(i, a)
    BY DEF AnswersListedAfterTurn
  <2>1. /\ a \in DOMAIN messages /\ messages[a].turn = t /\ messages[a].role = "ran"
        /\ i \in DOMAIN messages /\ messages[i].turn = t
        /\ messages[i].role \in {"question", "reply"}
    BY DEF Message
  <2>2. messages[a].at > began[t] /\ messages[i].at = began[t]
    BY <1>1, <2>1 DEF TurnInv, TranscriptInv
  <2> QED BY <1>1, <2>1, <2>2, RowsRead DEF Before
<1> QED BY <1>1, TurnsHold, PTL
=============================================================================
