------------------------------ MODULE ChatTurn ------------------------------
(***************************************************************************)
(* The turns of the chat: store_turn and build_ephemeral_turn of chat.rs,  *)
(* the message queue (queue/mod.rs) and the transcript                     *)
(* (conversation/service.rs), with what they hand to the memory and to the *)
(* scripts that wait for approval.                                         *)
(*                                                                         *)
(* Each turn is one call of the chat handler.  Turns run concurrently,     *)
(* also in one conversation, and interleave at every database call; a      *)
(* reading takes as long as the model and the command of the intent take.  *)
(* Every row of a turn carries the time the turn began, and no two turns   *)
(* begin at the same time.                                                 *)
(***************************************************************************)
EXTENDS Naturals, Sequences, FiniteSets

CONSTANTS
  Turns,           \* calls of the chat handler
  Conversations,
  MaxFaults        \* bound on failures

ASSUME FaultsAssumption == MaxFaults \in Nat
ASSUME NoConvAssumption == "none" \notin Conversations

VARIABLES
  pc,         \* where each turn is
  began,      \* the time each turn began
  conv,       \* its conversation, or NoConv for a turn that is not stored
  queue,      \* the status of its row of the message queue
  script,     \* the script it proposed
  updated,    \* updated_at of each conversation; 0 before it exists
  messages,   \* chat_message, in the order of the inserts
  memory,     \* whether the memory holds an episode of each turn and marked it
  clock,
  faults

vars == <<pc, began, conv, queue, script, updated, messages, memory, clock, faults>>

\* What a step of a turn that writes no other table leaves alone.
others == <<began, conv, script, memory, clock, faults>>

NoConv == "none"
Ended == {"idle", "answered", "failed"}
DbSteps == {"find", "create", "enqueue", "history", "propose", "question",
            "touch question", "reply", "touch reply", "mark"}

Init ==
  /\ pc = [t \in Turns |-> "idle"]
  /\ began = [t \in Turns |-> 0]
  /\ conv = [t \in Turns |-> NoConv]
  /\ queue = [t \in Turns |-> "none"]
  /\ script = [t \in Turns |-> "none"]
  /\ updated = [c \in Conversations |-> 0]
  /\ messages = <<>>
  /\ memory = [t \in Turns |-> "none"]
  /\ clock = 0 /\ faults = 0

Goto(t, step) == pc' = [pc EXCEPT ![t] = step]

\* The surface lists the messages by the time they carry and by nothing else:
\* those of the same time come in any order.
Before(i, j) == messages[i].at < messages[j].at

Listed(c) == {i \in DOMAIN messages : messages[i].conv = c}

Insert(t, role, at) ==
  messages' = Append(messages, [turn |-> t, role |-> role, conv |-> conv[t], at |-> at])

-----------------------------------------------------------------------------
\* The turn begins: the queue setting decides whether it is stored.
Begin(t) ==
  /\ pc[t] = "idle"
  /\ clock' = clock + 1
  /\ began' = [began EXCEPT ![t] = clock + 1]
  /\ \/ Goto(t, "find") /\ \E c \in Conversations : conv' = [conv EXCEPT ![t] = c]
     \/ Goto(t, "create") /\ UNCHANGED conv
     \/ Goto(t, "read") /\ UNCHANGED conv     \* the queue is off
  /\ UNCHANGED <<queue, script, updated, messages, memory, faults>>

FindConversation(t) ==
  /\ pc[t] = "find"
  /\ Goto(t, IF updated[conv[t]] = 0 THEN "failed" ELSE "enqueue")
  /\ UNCHANGED <<others, queue, updated, messages>>

CreateConversation(t) ==
  /\ pc[t] = "create"
  /\ \E c \in Conversations :
       /\ updated[c] = 0
       /\ conv' = [conv EXCEPT ![t] = c]
       /\ updated' = [updated EXCEPT ![c] = began[t]]
  /\ Goto(t, "enqueue")
  /\ UNCHANGED <<began, queue, script, messages, memory, clock, faults>>

Enqueue(t) ==
  /\ pc[t] = "enqueue"
  /\ queue' = [queue EXCEPT ![t] = "pending"]
  /\ Goto(t, "history")
  /\ UNCHANGED <<others, updated, messages>>

\* The earlier messages are read as the context of the message.
BuildHistory(t) ==
  /\ pc[t] = "history"
  /\ Goto(t, "read")
  /\ UNCHANGED <<others, queue, updated, messages>>

\* A turn that is not stored is answered as soon as it is read.
Store(t) == Goto(t, IF conv[t] = NoConv THEN "answered" ELSE "question")

\* The reading runs an intent, or matches none.
Read(t) ==
  /\ pc[t] = "read"
  /\ Goto(t, "record") \/ Store(t)
  /\ UNCHANGED <<others, queue, updated, messages>>

\* Only a turn no intent matched becomes an episode, and it goes on when the
\* memory is off or does not store it; the model wrote an answer or a script.
RecordEpisode(t) ==
  /\ pc[t] = "record"
  /\ memory' \in {memory, [memory EXCEPT ![t] = "episode"]}
  /\ Goto(t, "propose") \/ Store(t)
  /\ UNCHANGED <<began, conv, queue, script, updated, messages, clock, faults>>

StoreProposal(t) ==
  /\ pc[t] = "propose"
  /\ script' = [script EXCEPT ![t] = "waiting"]
  /\ Store(t)
  /\ UNCHANGED <<began, conv, queue, updated, messages, memory, clock, faults>>

\* Seeded fault: the reply is written before its question.
AppendReplyFirst(t) ==
  /\ pc[t] = "question"
  /\ Insert(t, "reply", began[t])
  /\ Goto(t, "touch question")
  /\ UNCHANGED <<others, queue, updated>>

AppendQuestion(t) ==
  /\ pc[t] = "question"
  /\ Insert(t, "question", began[t])
  /\ Goto(t, "touch question")
  /\ UNCHANGED <<others, queue, updated>>

TouchQuestion(t) ==
  /\ pc[t] = "touch question"
  /\ updated' = [updated EXCEPT ![conv[t]] = began[t]]
  /\ Goto(t, "reply")
  /\ UNCHANGED <<others, queue, messages>>

\* Seeded fault: the reply carries the time it is written.
AppendReplyNow(t) ==
  /\ pc[t] = "reply"
  /\ Insert(t, "reply", clock + 1)
  /\ clock' = clock + 1
  /\ Goto(t, "touch reply")
  /\ UNCHANGED <<began, conv, queue, script, updated, memory, faults>>

AppendReply(t) ==
  /\ pc[t] = "reply"
  /\ Insert(t, "reply", began[t])
  /\ Goto(t, "touch reply")
  /\ UNCHANGED <<others, queue, updated>>

TouchReply(t) ==
  /\ pc[t] = "touch reply"
  /\ updated' = [updated EXCEPT ![conv[t]] = began[t]]
  /\ Goto(t, "mark")
  /\ UNCHANGED <<others, queue, messages>>

MarkHandled(t) ==
  /\ pc[t] = "mark"
  /\ queue' = [queue EXCEPT ![t] = "handled"]
  /\ Goto(t, "answered")
  /\ UNCHANGED <<others, updated, messages>>

-----------------------------------------------------------------------------
\* Around the turns.

\* The worker of the memory reads the episode of a turn and marks its message.
MarkLearned(t) ==
  /\ memory[t] = "episode" /\ conv[t] # NoConv
  /\ memory' = [memory EXCEPT ![t] = "marked"]
  /\ UNCHANGED <<pc, began, conv, queue, script, updated, messages, clock, faults>>

\* Seeded fault: the answer of a script carries the time of its script.
ScriptAnswerThen(t) ==
  /\ script[t] = "waiting" /\ conv[t] # NoConv
  /\ Insert(t, "ran", began[t])
  /\ script' = [script EXCEPT ![t] = "ran"]
  /\ UNCHANGED <<pc, began, conv, queue, updated, memory, clock, faults>>

\* The user approved the script, which may be before its turn is stored: its
\* answer joins the conversation with the time it is written ...
ScriptAnswer(t) ==
  /\ script[t] = "waiting" /\ conv[t] # NoConv
  /\ clock' = clock + 1
  /\ Insert(t, "ran", clock + 1)
  /\ script' = [script EXCEPT ![t] = "ran"]
  /\ UNCHANGED <<pc, began, conv, queue, updated, memory, faults>>

\* ... and moves the conversation up the list.
TouchScript(t) ==
  /\ script[t] = "ran"
  /\ \E i \in Listed(conv[t]) :
       /\ messages[i].turn = t /\ messages[i].role = "ran"
       /\ updated' = [updated EXCEPT ![conv[t]] = messages[i].at]
  /\ script' = [script EXCEPT ![t] = "done"]
  /\ UNCHANGED <<pc, began, conv, queue, messages, memory, clock, faults>>

\* A database call of the turn fails.  A turn that is not stored goes on
\* without its script.
DbError(t) ==
  /\ pc[t] \in DbSteps
  /\ faults < MaxFaults
  /\ faults' = faults + 1
  /\ Goto(t, IF conv[t] = NoConv /\ pc[t] = "propose" THEN "answered" ELSE "failed")
  /\ UNCHANGED <<began, conv, queue, script, updated, messages, memory, clock>>

\* The client closes the connection of one turn, or the daemon stops.
Drop(ts) ==
  /\ \E t \in ts : pc[t] \notin Ended
  /\ faults < MaxFaults
  /\ faults' = faults + 1
  /\ pc' = [t \in Turns |-> IF t \in ts /\ pc[t] \notin Ended THEN "failed" ELSE pc[t]]
  /\ UNCHANGED <<began, conv, queue, script, updated, messages, memory, clock>>

Handle(t) ==
  \/ FindConversation(t) \/ CreateConversation(t) \/ Enqueue(t) \/ BuildHistory(t)
  \/ Read(t) \/ RecordEpisode(t) \/ StoreProposal(t)
  \/ AppendQuestion(t) \/ TouchQuestion(t) \/ AppendReply(t) \/ TouchReply(t) \/ MarkHandled(t)

Next ==
  \/ \E t \in Turns : Begin(t) \/ Handle(t) \/ DbError(t) \/ Drop({t})
  \/ \E t \in Turns : MarkLearned(t) \/ ScriptAnswer(t) \/ TouchScript(t)
  \/ Drop(Turns)

Spec == Init /\ [][Next]_vars
-----------------------------------------------------------------------------
\* Properties.

Message(t, role) == {i \in DOMAIN messages : messages[i].turn = t /\ messages[i].role = role}

TypeOK ==
  /\ pc \in [Turns -> DbSteps \cup Ended \cup {"read", "record"}]
  /\ began \in [Turns -> 0..clock]
  /\ conv \in [Turns -> Conversations \cup {NoConv}]
  /\ queue \in [Turns -> {"none", "pending", "handled"}]
  /\ script \in [Turns -> {"none", "waiting", "ran", "done"}]
  /\ updated \in [Conversations -> 0..clock]
  /\ messages \in Seq([turn : Turns, role : {"question", "reply", "ran"},
                       conv : Conversations, at : 1..clock])
  /\ memory \in [Turns -> {"none", "episode", "marked"}]
  /\ clock \in Nat /\ faults \in 0..MaxFaults

\* A row of the queue is closed only for a turn whose question and reply are in
\* the transcript, no turn is stored twice, and one that was answered left no
\* row behind, whatever failed on the way (chat.rs, step 4 of store_turn).
HandledMeansStored ==
  \A t \in Turns, role \in {"question", "reply"} :
    /\ Cardinality(Message(t, role)) <= 1
    /\ queue[t] = "handled" => Message(t, role) # {}
    /\ pc[t] = "answered" => queue[t] # "pending"

\* Message i may be listed between the two others.
Between(i, j, k) == ~Before(i, j) /\ ~Before(k, i)

\* However the turns of a conversation overlap, and in whatever order messages of
\* the same time come, a reply stands next to its own question: nothing is listed
\* between the two, whichever comes first (store_turn gives both one time).
TurnsListedWhole ==
  \A t \in Turns : \A r \in Message(t, "reply") :
    \E q \in Message(t, "question") :
      \A i \in Listed(conv[t]) \ {q, r} : ~Between(i, q, r) /\ ~Between(i, r, q)

\* The answer of a script is listed after the turn that proposed it, also when
\* the user approves it before that turn is stored.
AnswersListedAfterTurn ==
  \A t \in Turns : \A a \in Message(t, "ran") :
    \A i \in Message(t, "question") \cup Message(t, "reply") : Before(i, a)
-----------------------------------------------------------------------------
\* What the documentation says and the code does not do.

\* "The message is stored before the turn is read, so the memory of the turn
\* names the message the transcript shows" (chat.rs:229-230).
MemoryNamesShownMessage ==
  \A t \in Turns : memory[t] = "marked" => Message(t, "question") # {}
=============================================================================
