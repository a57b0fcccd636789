------------------------- MODULE DaemonParts_proofs --------------------------
(***************************************************************************)
(* Theorems about the event bus, the start on an older database, the list  *)
(* of a script entity, one run of a command, the catalog of commands, the  *)
(* readings of the memory, the streamed answer of a model, the readings by *)
(* labels and the passes of the built in models over many rows.            *)
(***************************************************************************)
EXTENDS EventStream, SchemaUpgrade, ScriptLists, CommandRun, CommandCatalog,
        MemoryRecall, AnswerStream, LabelReading, ModelBatch, Picks,
        SequenceTheorems, FiniteSetTheorems, TLAPS

-----------------------------------------------------------------------------
\* The event bus and its sockets.

\* No socket has read, or joined after, an event that was not published.
StreamInv ==
  /\ StreamTypeOK
  /\ StreamContiguous
  /\ \A s \in Sockets : joined[s] <= cursor[s] /\ cursor[s] <= published
  /\ \A s \in Sockets : socket[s] = "new" => joined[s] = cursor[s]

\* The events a socket forwards are the ones between its subscription and its
\* last event, without a gap, for every capacity of the bus (handle_socket).
THEOREM StreamIsContiguous == StreamSpec => []StreamContiguous
<1>1. StreamInit => StreamInv
  BY DEF StreamInit, StreamInv, StreamTypeOK, StreamContiguous
<1>2. StreamInv /\ [StreamNext]_streamVars => StreamInv'
  <2> SUFFICES ASSUME StreamInv, [StreamNext]_streamVars PROVE StreamInv'
    OBVIOUS
  <2> USE CapacityAssumption DEF StreamInv, StreamTypeOK, StreamContiguous
  <2>1. CASE Publish(1)
    BY <2>1 DEF Publish
  <2>2. ASSUME NEW s \in Sockets, Subscribe(s) PROVE StreamInv'
    <3>1. forwarded[s] = {} /\ (published + 1)..published = {}
      BY <2>2 DEF Subscribe
    <3>2. forwarded'[s] = (joined'[s] + 1)..cursor'[s]
      BY <3>1, <2>2 DEF Subscribe
    <3>3. StreamTypeOK'
      BY <2>2 DEF Subscribe
    <3>4. \A t \in Sockets : /\ joined'[t] <= cursor'[t] /\ cursor'[t] <= published'
                             /\ socket'[t] = "new" => joined'[t] = cursor'[t]
      BY <2>2 DEF Subscribe
    <3>5. \A t \in Sockets \ {s} : forwarded'[t] = (joined'[t] + 1)..cursor'[t]
      BY <2>2 DEF Subscribe
    <3>6. StreamContiguous'
      BY <3>2, <3>5
    <3> HIDE DEF StreamTypeOK, StreamContiguous
    <3> QED BY <3>3, <3>4, <3>6
  <2>3. ASSUME NEW s \in Sockets, Forward(s) PROVE StreamInv'
    <3>1. cursor[s] \in Nat /\ joined[s] \in Nat /\ joined[s] <= cursor[s] /\ cursor[s] < published
      BY <2>3 DEF Forward
    <3>2. forwarded'[s] = (joined'[s] + 1)..cursor'[s]
      <4>1. (joined[s] + 1)..(cursor[s] + 1) = ((joined[s] + 1)..cursor[s]) \cup {cursor[s] + 1}
        BY <3>1
      <4> QED BY <4>1, <2>3 DEF Forward
    <3>3. StreamTypeOK'
      BY <2>3, <3>1 DEF Forward
    <3>4. \A t \in Sockets : /\ joined'[t] <= cursor'[t] /\ cursor'[t] <= published'
                             /\ socket'[t] = "new" => joined'[t] = cursor'[t]
      BY <2>3, <3>1 DEF Forward
    <3>5. \A t \in Sockets \ {s} : forwarded'[t] = (joined'[t] + 1)..cursor'[t]
      BY <2>3 DEF Forward
    <3>6. StreamContiguous'
      BY <3>2, <3>5
    <3> HIDE DEF StreamTypeOK, StreamContiguous
    <3> QED BY <3>3, <3>4, <3>6
  <2>4. ASSUME NEW s \in Sockets, Lag(s) PROVE StreamInv'
    BY <2>4 DEF Lag, EndLagging
  <2>5. ASSUME NEW s \in Sockets, CloseSocket(s) PROVE StreamInv'
    BY <2>5 DEF CloseSocket
  <2>6. CASE UNCHANGED streamVars
    BY <2>6 DEF streamVars
  <2> QED BY <2>1, <2>2, <2>3, <2>4, <2>5, <2>6 DEF StreamNext
<1>3. StreamInv => StreamContiguous
  BY DEF StreamInv
<1> QED BY <1>1, <1>2, <1>3, PTL DEF StreamSpec

-----------------------------------------------------------------------------
\* The start of the daemon on an older database.

\* Where a start is tells which rows it has touched.
UpgradeInv ==
  /\ UpgradeTypeOK
  /\ LinkColumn \notin columns => upgrade \in {"stopped", "link column"}
  /\ LinkColumn \notin columns \/ upgrade = "import" => imported = 0
  /\ imported <= 1
  /\ upgrade = "link" => imported = 1
  /\ \A m \in Messages : linked[m] \in 0..imported
  /\ upgrade \in {"import", "link"} => LinkColumn \in columns
  /\ upgrade \notin {"import", "link"} /\ LinkColumn \in columns /\ ~broken =>
       \A m \in Messages : linked[m] # NoConversation
  /\ DateColumn \in columns /\ upgrade # "date" /\ ~broken => dated = Facts
  /\ upgrade \in {"date", "ready"} => DateColumn \in columns

LEMMA UpgradeInvInitially ==
  UpgradeInit => UpgradeInv
<1> SUFFICES ASSUME UpgradeInit PROVE UpgradeInv
  OBVIOUS
<1>1. UpgradeTypeOK
  BY DEF UpgradeInit, UpgradeTypeOK, NoConversation, Up
<1>2. LinkColumn \notin columns /\ DateColumn \notin columns
  BY ColumnsAssumption DEF UpgradeInit
<1>3. upgrade = "stopped" /\ imported = 0 /\ \A m \in Messages : linked[m] = 0
  BY DEF UpgradeInit, NoConversation
<1> QED BY <1>1, <1>2, <1>3 DEF UpgradeInv

LEMMA UpgradeInvKept ==
  UpgradeInv /\ [UpgradeNext]_schemaVars => UpgradeInv'
<1> SUFFICES ASSUME UpgradeInv, [UpgradeNext]_schemaVars PROVE UpgradeInv'
  OBVIOUS
<1>a. UpgradeTypeOK'
  <2> USE DEF UpgradeInv, UpgradeTypeOK, NoConversation, Up, UGoto
  <2>1. CASE StartDaemon
    BY <2>1 DEF StartDaemon
  <2>2. CASE AddLinkColumn
    BY <2>2 DEF AddLinkColumn, AddColumn
  <2>3. CASE CreateImport
    BY <2>3 DEF CreateImport
  <2>4. CASE LinkMessages
    BY <2>4 DEF LinkMessages
  <2>5. CASE AddPlainColumn
    <3>1. columns' \subseteq Columns \cup {LinkColumn, DateColumn}
      <4>1. CASE Columns \subseteq columns
        BY <4>1, <2>5 DEF AddPlainColumn
      <4>2. CASE ~(Columns \subseteq columns)
        <5>1. PICK c \in Columns : columns' = columns \cup {c}
          BY <4>2, <2>5 DEF AddPlainColumn
        <5> QED BY <5>1
      <4> QED BY <4>1, <4>2
    <3>2. upgrade' \in {"columns", "date column"}
      BY <2>5 DEF AddPlainColumn
    <3> QED BY <3>1, <3>2, <2>5 DEF AddPlainColumn
  <2>6. CASE AddDateColumn
    BY <2>6 DEF AddDateColumn, AddColumn
  <2>7. CASE DateFacts
    BY <2>7 DEF DateFacts
  <2>8. CASE CrashDaemon
    <3>1. broken' \in BOOLEAN
      BY <2>8, Zenon DEF CrashDaemon
    <3>2. upgrade' = "stopped" /\ UNCHANGED <<columns, imported, linked, dated>>
      BY <2>8 DEF CrashDaemon
    <3>3. crashes \in Nat /\ crashes' = crashes + 1
      BY <2>8 DEF CrashDaemon
    <3>4. crashes' \in Nat
      BY ONLY <3>3
    <3>5. /\ columns' \subseteq Columns \cup {LinkColumn, DateColumn}
          /\ imported' \in Nat /\ linked' \in [Messages -> Nat] /\ dated' \subseteq Facts
      BY <3>2, Zenon
    <3> QED BY <3>1, <3>2, <3>4, <3>5, Zenon
  <2>9. CASE UNCHANGED schemaVars
    BY <2>9 DEF schemaVars
  <2> QED
    BY <2>1, <2>2, <2>3, <2>4, <2>5, <2>6, <2>7, <2>8, <2>9 DEF UpgradeNext, UpgradeStep
<1>b. LinkColumn # DateColumn
  BY DEF LinkColumn, DateColumn
<1> USE ColumnsAssumption, <1>a, <1>b DEF UpgradeInv, NoConversation, UGoto
<1>1. CASE StartDaemon
  BY <1>1 DEF StartDaemon
<1>2. CASE AddLinkColumn
  <2>1. CASE LinkColumn \in columns
    BY <2>1, <1>2 DEF AddLinkColumn, AddColumn
  <2>2. CASE LinkColumn \notin columns
    <3>1. columns' = columns \cup {LinkColumn} /\ imported' = 0
          /\ upgrade' = (IF Messages = {} THEN "columns" ELSE "import")
      BY <2>2, <1>2 DEF AddLinkColumn, AddColumn
    <3> QED BY <2>2, <3>1, <1>2 DEF AddLinkColumn
  <2> QED BY <2>1, <2>2
<1>3. CASE CreateImport
  BY <1>3 DEF CreateImport
<1>4. CASE LinkMessages
  BY <1>4 DEF LinkMessages
<1>5. CASE AddPlainColumn
  BY <1>5 DEF AddPlainColumn
<1>6. CASE AddDateColumn
  BY <1>6 DEF AddDateColumn, AddColumn
<1>7. CASE DateFacts
  BY <1>7 DEF DateFacts
<1>8. CASE CrashDaemon
  BY <1>8 DEF CrashDaemon
<1>9. CASE UNCHANGED schemaVars
  BY <1>9 DEF schemaVars
<1> QED BY <1>1, <1>2, <1>3, <1>4, <1>5, <1>6, <1>7, <1>8, <1>9 DEF UpgradeNext, UpgradeStep

\* The old messages are imported into one conversation at most, and a daemon
\* that is up has linked every one and dated every old fact, unless a start was
\* cut short between a column and its rows (apply).
THEOREM UpgradeKeepsRows == UpgradeSpec => []UpgradeKeeps
<1>1. UpgradeInv => ImportedOnce
  BY DEF UpgradeInv, ImportedOnce
<1>2. UpgradeInv => RowsKept
  BY DEF UpgradeInv, RowsKept, NoConversation
<1>3. UpgradeInv => UpgradeKeeps
  BY <1>1, <1>2 DEF UpgradeKeeps
<1> QED BY <1>3, UpgradeInvInitially, UpgradeInvKept, PTL DEF UpgradeSpec

-----------------------------------------------------------------------------
\* The list of a script entity.

\* The list in memory, with its values or without, was printed by the script it
\* answers for at the time it counts from, unless it says that a run failed.
Honest(l) == ~l.failed => l.from = l.script /\ l.born = l.at

ListsInv ==
  /\ ListsTypeOK
  /\ list # NoList => Honest(list)
  /\ ServedFresh
  /\ \A a \in Askers : began[a] <= time
  /\ \A a \in Askers : asks[a] = "served" => served[a] # NoList

\* A turn that is given a list without an error is given one its own script
\* printed, not older than the time to live, for every interleaving of runs,
\* edits and turns and every time to live (EntityScripts::list).
THEOREM ListsServedFresh == ListsSpec => []ServedFresh
<1>1. ListsInit => ListsInv
  BY DEF ListsInit, ListsInv, ListsTypeOK, ServedFresh
<1>2. ListsInv /\ [ListsNext]_listVars => ListsInv'
  <2> SUFFICES ASSUME ListsInv, [ListsNext]_listVars PROVE ListsInv'
    OBVIOUS
  <2> USE TtlAssumption, NoListAssumption DEF ListsInv, ListsTypeOK, ServedFresh
  <2>1. CASE Tick
    BY <2>1 DEF Tick
  <2>2. CASE EditScript
    BY <2>2 DEF EditScript
  <2>3. ASSUME NEW a \in Askers, Ask(a) PROVE ListsInv'
    <3>1. CASE IsFresh
      <4>1. list \in Lists /\ Honest(list) /\ list.script = script /\ time - list.at < Ttl
        BY <3>1 DEF IsFresh
      <4> QED BY <3>1, <4>1, <2>3 DEF Ask, Honest, Lists
    <3>2. CASE ~IsFresh
      BY <3>2, <2>3 DEF Ask
    <3> QED BY <3>1, <3>2
  <2>4. ASSUME NEW a \in Askers, RunEnds(a) PROVE ListsInv'
    <3> DEFINE Good(l) == /\ l \in Lists /\ Honest(l)
                          /\ ~l.failed => l.from = asked[a] /\ l.born = began[a]
    <3>a. asked[a] \in Scripts /\ began[a] \in Nat
      OBVIOUS
    <3>b. Good(Printed(a))
      BY <3>a DEF Printed, List, Lists, Honest, Age
    <3>c. Good(Empty(a))
      BY <3>a DEF Empty, List, Lists, Honest, Age
    <3>d. Good(Kept(a))
      <4>1. CASE stored[a] # NoList /\ stored[a].filled
        <5>1. stored[a].from \in Scripts /\ stored[a].born \in Nat
          BY <4>1 DEF Lists
        <5> QED BY <3>a, <4>1, <5>1 DEF Kept, List, Lists, Honest, Age
      <4>2. CASE ~(stored[a] # NoList /\ stored[a].filled)
        BY <3>c, <4>2 DEF Kept
      <4> QED BY <4>1, <4>2
    <3>1. Good(list')
      BY <3>b, <3>c, <3>d, <2>4 DEF RunEnds
    <3> HIDE DEF Honest
    <3> QED BY <3>1, <2>4 DEF RunEnds
  <2>5. ASSUME NEW a \in Askers, LetGo(a) PROVE ListsInv'
    BY <2>5 DEF LetGo
  <2>6. CASE UNCHANGED listVars
    BY <2>6 DEF listVars
  <2> QED BY <2>1, <2>2, <2>3, <2>4, <2>5, <2>6 DEF ListsNext
<1>3. ListsInv => ServedFresh
  BY DEF ListsInv
<1> QED BY <1>1, <1>2, <1>3, PTL DEF ListsSpec

-----------------------------------------------------------------------------
\* One run of a shell command.

\* How much of a stream its task has read.
LinesRead(s) == Len(written[s]) - pipe[s]

\* The lines on the way are those read and not told, each stream's in order:
\* at[i] is the place in its stream of the line at i.
OnTheWay(at) ==
  /\ \A i \in DOMAIN channel :
       LET s == channel[i].stream IN
       /\ at[i] \in Nat /\ Len(heard[s]) < at[i] /\ at[i] <= LinesRead(s)
       /\ channel[i].text = written[s][at[i]]
  /\ \A i, j \in DOMAIN channel :
       i < j /\ channel[i].stream = channel[j].stream => at[i] < at[j]
  /\ \A s \in Streams, n \in Nat : Len(heard[s]) < n /\ n <= LinesRead(s) =>
       \E i \in DOMAIN channel : channel[i].stream = s /\ at[i] = n

RunShape ==
  /\ written \in [Streams -> Seq(Kinds)]
  /\ pipe \in [Streams -> Nat] /\ \A s \in Streams : pipe[s] <= Len(written[s])
  /\ reader \in [Streams -> {"reads", "ended"}]
  /\ heard \in [Streams -> Seq(Kinds)] /\ kept \in [Streams -> Seq(Kinds)]
  /\ channel \in Seq([stream : Streams, text : Kinds])
  /\ phase \in {"collects", "waits", "outcome", "timeout", "dropped"}

\* A text holds the lines from the first that is not blank.
TextOn(told, text) ==
  \/ text = <<>> /\ \A n \in DOMAIN told : told[n] = "blank"
  \/ \E first \in DOMAIN told :
       /\ told[first] # "blank" /\ \A n \in DOMAIN told : n < first => told[n] = "blank"
       /\ text = SubSeq(told, first, Len(told))

\* What was told is what was read first, and the text what was told.
ToldOf(s) ==
  /\ Len(heard[s]) <= LinesRead(s)
  /\ \A n \in 1..Len(heard[s]) : heard[s][n] = written[s][n]
  /\ TextOn(heard[s], kept[s])

\* A stream that is read no more was read up to bytes that are no text.
EndedWhole(s) ==
  reader[s] = "ended" /\ phase \notin {"timeout", "dropped"} =>
    pipe[s] = 0 \/ ~IsText(s)

RunInv ==
  /\ RunShape
  /\ \A s \in Streams : ToldOf(s) /\ EndedWhole(s)
  /\ phase = "collects" => \E at : OnTheWay(at)
  /\ phase \in {"waits", "outcome"} =>
       AllRead /\ channel = <<>> /\ \A s \in Streams : Len(heard[s]) = LinesRead(s)
  /\ phase = "outcome" => \A s \in Streams : output[s] = Cut(kept[s])

\* A text of lines that were told is those lines joined.
LEMMA TextJoined ==
  ASSUME NEW told \in Seq(Kinds), NEW text, TextOn(told, text)
  PROVE  text = Joined(told)
<1> DEFINE texts == {n \in DOMAIN told : told[n] # "blank"}
<1>1. CASE text = <<>> /\ \A n \in DOMAIN told : told[n] = "blank"
  <2>1. texts = {}
    BY <1>1
  <2> QED BY <1>1, <2>1 DEF Joined
<1>2. ASSUME NEW first \in DOMAIN told, told[first] # "blank",
             \A n \in DOMAIN told : n < first => told[n] = "blank",
             text = SubSeq(told, first, Len(told))
      PROVE  text = Joined(told)
  <2>1. DOMAIN told \subseteq Nat
    OBVIOUS
  <2>2. first \in texts /\ \A m \in texts : first <= m
    BY <1>2, <2>1
  <2>3. ASSUME NEW n \in texts, \A m \in texts : n <= m PROVE n = first
    BY <2>1, <2>2, <2>3
  <2>4. first = CHOOSE n \in texts : \A m \in texts : n <= m
    BY <2>2, <2>3
  <2> QED BY <1>2, <2>2, <2>4 DEF Joined
<1> QED BY <1>1, <1>2 DEF TextOn

\* One more line of a text.
LEMMA TextGrows ==
  ASSUME NEW told \in Seq(Kinds), NEW text \in Seq(Kinds), NEW x \in Kinds, TextOn(told, text)
  PROVE  TextOn(Append(told, x), Push(text, x)) /\ Push(text, x) \in Seq(Kinds)
<1> DEFINE more == Append(told, x)
<1>1. /\ more \in Seq(Kinds) /\ Len(told) \in Nat /\ Len(more) = Len(told) + 1
      /\ DOMAIN more = 1..(Len(told) + 1) /\ DOMAIN told = 1..Len(told)
      /\ \A n \in 1..Len(told) : more[n] = told[n]
      /\ more[Len(told) + 1] = x
  OBVIOUS
<1> HIDE DEF more
<1>2. Push(text, x) \in Seq(Kinds)
  BY DEF Push
<1>3. ASSUME text = <<>>, \A n \in DOMAIN told : told[n] = "blank"
      PROVE  TextOn(more, Push(text, x))
  <2>1. CASE x = "blank"
    <3>1. \A n \in DOMAIN more : more[n] = "blank"
      BY <1>1, <1>3, <2>1
    <3>2. Push(text, x) = <<>>
      BY <1>3, <2>1 DEF Push
    <3> QED BY <3>1, <3>2 DEF TextOn
  <2>2. CASE x # "blank"
    <3>1. PICK last : last = Len(told) + 1
      OBVIOUS
    <3>2. last \in DOMAIN more /\ more[last] # "blank"
          /\ \A n \in DOMAIN more : n < last => more[n] = "blank"
      BY <1>1, <1>3, <2>2, <3>1
    <3>3. Push(text, x) = <<x>>
      BY <1>3, <2>2 DEF Push
    <3>4. SubSeq(more, last, Len(more)) = <<x>>
      <4>1. PICK part : part = SubSeq(more, last, last)
        OBVIOUS
      <4>2. part \in Seq(Kinds) /\ Len(part) = 1 /\ part[1] = more[last]
        BY <1>1, <3>1, <4>1
      <4>3. part = <<part[1]>>
        BY <4>2
      <4> QED BY <1>1, <3>1, <4>1, <4>2, <4>3
    <3> QED BY <3>2, <3>3, <3>4 DEF TextOn
  <2> QED BY <2>1, <2>2
<1>4. ASSUME NEW first \in DOMAIN told, told[first] # "blank",
             \A n \in DOMAIN told : n < first => told[n] = "blank",
             text = SubSeq(told, first, Len(told))
      PROVE  TextOn(more, Push(text, x))
  <2>1. first \in 1..Len(told)
    BY <1>1, <1>4
  <2>2. Len(text) = Len(told) - first + 1
    BY <1>4, <2>1
  <2>3. text # <<>>
    BY <1>1, <2>1, <2>2
  <2>4. Push(text, x) = Append(text, x)
    BY <2>3 DEF Push
  <2>5. SubSeq(more, first, Len(more)) = Append(text, x)
    <3>1. /\ Len(SubSeq(more, first, Len(more))) = Len(more) - first + 1
          /\ \A n \in 1..(Len(more) - first + 1) : SubSeq(more, first, Len(more))[n] = more[first + n - 1]
          /\ SubSeq(more, first, Len(more)) \in Seq(Kinds)
      BY <1>1, <2>1
    <3>2. \A n \in 1..(Len(told) - first + 1) : text[n] = told[first + n - 1]
      BY <1>4, <2>1
    <3>3. /\ Append(text, x) \in Seq(Kinds) /\ Len(Append(text, x)) = Len(more) - first + 1
          /\ \A n \in 1..(Len(told) - first + 1) : Append(text, x)[n] = text[n]
          /\ Append(text, x)[Len(more) - first + 1] = x
      BY <1>1, <2>2
    <3>4. ASSUME NEW n \in 1..(Len(more) - first + 1)
          PROVE  SubSeq(more, first, Len(more))[n] = Append(text, x)[n]
      <4>1. CASE n = Len(more) - first + 1
        <5>1. first + n - 1 = Len(told) + 1
          BY <1>1, <2>1, <4>1
        <5> QED BY <1>1, <3>1, <3>3, <4>1, <5>1
      <4>2. CASE n \in 1..(Len(told) - first + 1)
        <5>1. first + n - 1 \in 1..Len(told)
          BY <1>1, <2>1, <4>2
        <5>2. SubSeq(more, first, Len(more))[n] = told[first + n - 1]
          BY <1>1, <3>1, <5>1
        <5> QED BY <3>2, <3>3, <4>2, <5>2
      <4>3. Len(more) - first + 1 = (Len(told) - first + 1) + 1 /\ Len(told) - first + 1 \in Nat
        BY <1>1, <2>1
      <4>4. n = Len(more) - first + 1 \/ n \in 1..(Len(told) - first + 1)
        BY <4>3
      <4> QED BY <4>1, <4>2, <4>4
    <3> QED BY <1>1, <2>1, <3>1, <3>3, <3>4
  <2>6. /\ first \in DOMAIN more /\ more[first] # "blank"
        /\ \A n \in DOMAIN more : n < first => more[n] = "blank"
    BY <1>1, <1>4, <2>1
  <2> QED BY <2>4, <2>5, <2>6 DEF TextOn
<1> QED BY <1>2, <1>3, <1>4 DEF TextOn, more

-----------------------------------------------------------------------------
LEMMA RunInvInitially == RunInit => RunInv
<1> SUFFICES ASSUME RunInit PROVE RunInv
  OBVIOUS
<1>1. <<>> \in Seq(Kinds) /\ <<>> \in Seq([stream : Streams, text : Kinds]) /\ Len(<<>>) = 0
      /\ DOMAIN <<>> = {}
  OBVIOUS
<1>2. \A s \in Streams : /\ written[s] = <<>> /\ heard[s] = <<>> /\ kept[s] = <<>>
                        /\ pipe[s] = 0 /\ reader[s] = "reads"
  BY DEF RunInit, Nothing
<1>3. RunShape
  BY <1>1 DEF RunInit, RunShape, Nothing
<1>4. \A s \in Streams : ToldOf(s) /\ EndedWhole(s)
  BY <1>1, <1>2 DEF ToldOf, EndedWhole, TextOn, LinesRead
<1>5. \A at : OnTheWay(at)
  BY <1>1, <1>2 DEF RunInit, OnTheWay, LinesRead
<1> QED BY <1>3, <1>4, <1>5 DEF RunInit, RunInv

\* What the processes do shows only in what they write.
LEMMA ProcessesLeave ==
  ASSUME RunInv, UNCHANGED <<written, pipe, reader, channel, collection>>
  PROVE  RunInv'
<1>1. \A at : OnTheWay(at)' <=> OnTheWay(at)
  BY DEF OnTheWay, LinesRead, collection
<1>2. \A s \in Streams : ToldOf(s)' /\ EndedWhole(s)'
  BY DEF RunInv, ToldOf, EndedWhole, LinesRead, IsText, collection
<1>3. RunShape'
  BY DEF RunInv, RunShape, collection
<1> QED BY <1>1, <1>2, <1>3 DEF RunInv, AllRead, LinesRead, collection

LEMMA LinesTyped ==
  ASSUME RunInv, NEW i \in DOMAIN channel
  PROVE  channel[i].stream \in Streams /\ channel[i].text \in Kinds
<1>1. PICK S : S = [stream : Streams, text : Kinds]
  OBVIOUS
<1>2. channel \in Seq(S)
  BY <1>1 DEF RunInv, RunShape
<1>3. channel[i] \in S
  BY <1>2
<1> QED BY <1>1, <1>3

LEMMA WriteLineKeeps == ASSUME RunInv, NEW s \in Streams, WriteLine(s) PROVE RunInv'
<1>1. PICK kind \in Kinds : written' = [written EXCEPT ![s] = Append(@, kind)]
  BY DEF WriteLine
<1>2. /\ reader[s] = "reads" /\ pipe' = [pipe EXCEPT ![s] = @ + 1]
      /\ UNCHANGED <<reader, channel, heard, kept, phase, output>>
  BY DEF WriteLine, collection
<1>3. \A t \in Streams : written[t] \in Seq(Kinds) /\ pipe[t] \in Nat /\ pipe[t] <= Len(written[t])
  BY DEF RunInv, RunShape
<1>4. ASSUME NEW t \in Streams
      PROVE  /\ LinesRead(t)' = LinesRead(t) /\ LinesRead(t) \in Nat
             /\ written'[t] \in Seq(Kinds) /\ pipe'[t] \in Nat /\ pipe'[t] <= Len(written'[t])
             /\ \A n \in Nat : 1 <= n /\ n <= LinesRead(t) => written'[t][n] = written[t][n]
             /\ t # s => written'[t] = written[t] /\ pipe'[t] = pipe[t]
  <2>1. CASE t = s
    <3>1. written'[s] = Append(written[s], kind) /\ pipe'[s] = pipe[s] + 1
      BY <1>1, <1>2 DEF RunInv, RunShape
    <3>2. /\ written'[s] \in Seq(Kinds) /\ Len(written'[s]) = Len(written[s]) + 1 /\ Len(written[s]) \in Nat
          /\ \A n \in 1..Len(written[s]) : written'[s][n] = written[s][n]
      BY <1>3, <3>1
    <3>3. LinesRead(s)' = LinesRead(s) /\ LinesRead(s) \in Nat /\ LinesRead(s) <= Len(written[s])
      BY <1>3, <3>1, <3>2 DEF LinesRead
    <3> QED BY <1>3, <2>1, <3>1, <3>2, <3>3
  <2>2. CASE t # s
    <3>1. written'[t] = written[t] /\ pipe'[t] = pipe[t]
      BY <1>1, <1>2, <2>2 DEF RunInv, RunShape
    <3>2. LinesRead(t)' = LinesRead(t) /\ LinesRead(t) \in Nat
      BY <1>3, <3>1 DEF LinesRead
    <3> QED BY <1>3, <3>1, <3>2
  <2> QED BY <2>1, <2>2
<1>5. RunShape'
  <2>1. written' \in [Streams -> Seq(Kinds)] /\ pipe' \in [Streams -> Nat]
    BY <1>1, <1>2, <1>4 DEF RunInv, RunShape
  <2> QED BY <1>2, <1>4, <2>1 DEF RunInv, RunShape
<1>6. ASSUME NEW t \in Streams PROVE ToldOf(t)' /\ EndedWhole(t)'
  <2>1. ToldOf(t)'
    <3>1. Len(heard[t]) \in Nat /\ Len(heard[t]) <= LinesRead(t) /\ ToldOf(t)
      <4>1. ToldOf(t)
        BY DEF RunInv
      <4>2. heard[t] \in Seq(Kinds)
        BY DEF RunInv, RunShape
      <4>3. Len(heard[t]) \in Nat
        BY <4>2
      <4> QED BY <4>1, <4>3 DEF ToldOf
    <3>2. \A n \in 1..Len(heard[t]) : n \in Nat /\ 1 <= n /\ n <= LinesRead(t)
      BY <1>4, <3>1
    <3> QED BY <1>2, <1>4, <3>1, <3>2 DEF ToldOf
  <2>2. EndedWhole(t)'
    BY <1>2, <1>4 DEF RunInv, EndedWhole, IsText
  <2> QED BY <2>1, <2>2
<1>7. ASSUME NEW at, OnTheWay(at) PROVE OnTheWay(at)'
  <2>1. ASSUME NEW i \in DOMAIN channel
        PROVE  /\ channel[i].stream \in Streams
               /\ written'[channel[i].stream][at[i]] = written[channel[i].stream][at[i]]
    <3>1. PICK t \in Streams : t = channel[i].stream
      BY LinesTyped
    <3>2. at[i] \in Nat /\ 1 <= at[i] /\ at[i] <= LinesRead(t)
      <4>1. at[i] \in Nat /\ Len(heard[t]) < at[i] /\ at[i] <= LinesRead(t) /\ Len(heard[t]) \in Nat
        BY SMTT(30), <1>7, <3>1 DEF OnTheWay, RunInv, RunShape
      <4> QED BY <4>1
    <3> QED BY <1>4, <3>1, <3>2
  <2> QED BY <1>2, <1>4, <1>7, <2>1 DEF OnTheWay
<1>8. \A t \in Streams : LinesRead(t)' = LinesRead(t)
  BY <1>4
<1>9. phase \notin {"waits", "outcome"}
  BY <1>2 DEF RunInv, AllRead
<1> QED BY <1>2, <1>5, <1>6, <1>7, <1>9 DEF RunInv

LEMMA ReadPipeKeeps == ASSUME RunInv, NEW s \in Streams, ReadPipe(s) PROVE RunInv'
<1>1. /\ reader[s] = "reads" /\ UNCHANGED <<written, heard, kept, phase, output>>
      /\ phase \notin {"waits", "outcome"}
  BY DEF ReadPipe, collection, RunInv, AllRead
<1>2. \A t \in Streams : written[t] \in Seq(Kinds) /\ pipe[t] \in Nat /\ pipe[t] <= Len(written[t])
  BY DEF RunInv, RunShape
<1>3. ASSUME EndReader(s), pipe[s] = 0 \/ NextLine(s) = "bytes" \/ ~UnderWay PROVE RunInv'
  <2>1. reader' = [reader EXCEPT ![s] = "ended"] /\ pipe' = pipe /\ channel' = channel
    BY <1>3 DEF EndReader
  <2>2. \A at : OnTheWay(at)' <=> OnTheWay(at)
    BY <1>1, <2>1 DEF OnTheWay, LinesRead
  <2>3. \A t \in Streams : ToldOf(t)'
    BY <1>1, <2>1 DEF RunInv, ToldOf, LinesRead
  <2>4. ASSUME NEW t \in Streams PROVE EndedWhole(t)'
    <3>1. CASE t # s
      BY <1>1, <2>1, <3>1 DEF RunInv, RunShape, EndedWhole, IsText
    <3>2. CASE NextLine(s) = "bytes" /\ pipe[s] # 0
      <4>1. Len(written[s]) - pipe[s] + 1 \in DOMAIN written[s]
        BY <1>2, <3>2
      <4>2. ~IsText(s)
        BY <3>2, <4>1 DEF NextLine, IsText, ToSet
      <4> QED BY <1>1, <2>1, <3>1, <4>2 DEF EndedWhole, IsText
    <3>3. CASE ~UnderWay \/ pipe[s] = 0
      BY <1>1, <2>1, <3>1, <3>3 DEF EndedWhole, UnderWay, RunInv, RunShape
    <3> QED BY <1>3, <3>1, <3>2, <3>3
  <2>5. RunShape'
    BY <1>1, <2>1 DEF RunInv, RunShape
  <2> QED BY <1>1, <2>2, <2>3, <2>4, <2>5 DEF RunInv
<1>4. ASSUME pipe[s] # 0, UnderWay, channel' = Append(channel, [stream |-> s, text |-> NextLine(s)]),
             pipe' = [pipe EXCEPT ![s] = @ - 1], reader' = reader
      PROVE  RunInv'
  <2>1. PICK new, len : new = LinesRead(s) + 1 /\ len = Len(channel)
    OBVIOUS
  <2>2. /\ new \in Nat /\ new - 1 = LinesRead(s) /\ LinesRead(s)' = new /\ new \in 1..Len(written[s])
        /\ pipe'[s] \in Nat /\ pipe'[s] <= Len(written[s])
    <3>1. pipe'[s] = pipe[s] - 1
      BY <1>4 DEF RunInv, RunShape
    <3> QED BY <1>1, <1>2, <1>4, <2>1, <3>1 DEF LinesRead
  <2>3. \A t \in Streams \ {s} : pipe'[t] = pipe[t] /\ LinesRead(t)' = LinesRead(t)
    BY <1>1, <1>4 DEF RunInv, RunShape, LinesRead
  <2>4. NextLine(s) = written[s][new] /\ NextLine(s) \in Kinds
    BY <1>2, <2>1, <2>2 DEF NextLine, LinesRead
  <2>5. PICK line : line = [stream |-> s, text |-> written[s][new]]
    OBVIOUS
  <2>6. line \in [stream : Streams, text : Kinds] /\ line.stream = s /\ line.text = written[s][new]
        /\ channel' = Append(channel, line)
    BY <1>4, <2>4, <2>5
  <2>7. /\ len \in Nat /\ DOMAIN channel = 1..len /\ DOMAIN channel' = 1..(len + 1)
        /\ channel'[len + 1] = line /\ \A i \in 1..len : channel'[i] = channel[i]
        /\ channel' \in Seq([stream : Streams, text : Kinds])
    BY <2>1, <2>6 DEF RunInv, RunShape
  <2>8. RunShape'
    <3>1. pipe' \in [Streams -> Nat]
      BY <1>4, <2>2, <2>3 DEF RunInv, RunShape
    <3>2. \A t \in Streams : pipe'[t] <= Len(written'[t])
      BY <1>1, <1>2, <2>2, <2>3
    <3> QED BY <1>1, <1>4, <2>7, <3>1, <3>2 DEF RunInv, RunShape
  <2>9. ASSUME NEW t \in Streams PROVE ToldOf(t)' /\ EndedWhole(t)'
    <3>1. Len(heard[t]) \in Nat /\ ToldOf(t) /\ EndedWhole(t)
      BY DEF RunInv, RunShape
    <3>2. Len(heard[t]) <= LinesRead(t)'
      BY <2>1, <2>2, <2>3, <3>1 DEF ToldOf
    <3>3. ToldOf(t)'
      BY <1>1, <3>1, <3>2 DEF ToldOf
    <3>4. EndedWhole(t)'
      BY <1>1, <1>4, <2>3, <3>1 DEF EndedWhole, IsText
    <3> QED BY <3>3, <3>4
  <2>10. phase = "collects"
    BY <1>1, <1>4 DEF UnderWay
  <2>11. PICK old : OnTheWay(old)
    BY <2>10 DEF RunInv
  <2>12. PICK at : at = [i \in 1..(len + 1) |-> IF i = len + 1 THEN new ELSE old[i]]
    OBVIOUS
  <2>13. at[len + 1] = new /\ \A i \in 1..len : at[i] = old[i]
    BY <2>7, <2>12
  <2>14. Len(heard[s]) \in Nat /\ Len(heard[s]) < new
    BY <2>2 DEF RunInv, RunShape, ToldOf
  <2>15. ASSUME NEW i \in DOMAIN channel', NEW t, t = channel'[i].stream
         PROVE  /\ at[i] \in Nat /\ Len(heard[t]) < at[i] /\ at[i] <= LinesRead(t)'
                /\ channel'[i].text = written[t][at[i]]
    <3>1. CASE i = len + 1
      BY <2>2, <2>6, <2>7, <2>13, <2>14, <2>15, <3>1
    <3>2. CASE i \in 1..len
      <4>1. t = channel[i].stream /\ t \in Streams /\ channel'[i].text = channel[i].text
        BY <2>7, <2>15, <3>2, LinesTyped
      <4>2. /\ at[i] \in Nat /\ Len(heard[t]) < at[i] /\ at[i] <= LinesRead(t)
            /\ channel[i].text = written[t][at[i]]
        BY <2>7, <2>11, <2>13, <3>2, <4>1 DEF OnTheWay
      <4>3. at[i] <= LinesRead(t)'
        BY <2>1, <2>2, <2>3, <4>1, <4>2
      <4> QED BY <4>1, <4>2, <4>3
    <3> QED BY <2>7, <3>1, <3>2
  <2>16. ASSUME NEW i \in DOMAIN channel', NEW j \in DOMAIN channel', i < j,
                channel'[i].stream = channel'[j].stream
         PROVE  at[i] < at[j]
    <3>1. i \in 1..len
      BY <2>7, <2>16
    <3>2. CASE j = len + 1
      <4>1. channel[i].stream = s
        BY <2>6, <2>7, <2>16, <3>1, <3>2
      <4>2. old[i] \in Nat /\ old[i] <= LinesRead(s)
        BY <2>7, <2>11, <3>1, <4>1 DEF OnTheWay
      <4>3. old[i] < new
        BY <2>1, <2>2, <4>2
      <4> QED BY <2>13, <3>1, <3>2, <4>3
    <3>3. CASE j \in 1..len
      BY <2>7, <2>11, <2>13, <2>16, <3>1, <3>3 DEF OnTheWay
    <3> QED BY <2>7, <3>2, <3>3
  <2>17. ASSUME NEW t \in Streams, NEW n \in Nat, Len(heard[t]) < n, n <= LinesRead(t)'
         PROVE  \E i \in DOMAIN channel' : channel'[i].stream = t /\ at[i] = n
    <3>1. CASE n <= LinesRead(t)
      <4>1. PICK i \in DOMAIN channel : channel[i].stream = t /\ old[i] = n
        BY <2>11, <2>17, <3>1 DEF OnTheWay
      <4> QED BY <2>7, <2>13, <4>1
    <3>2. CASE ~(n <= LinesRead(t))
      <4>1. t = s
        BY <2>3, <2>17, <3>2
      <4>2. n = new
        BY <2>1, <2>2, <2>17, <3>2, <4>1
      <4> QED BY <2>6, <2>7, <2>13, <4>1, <4>2
    <3> QED BY <3>1, <3>2
  <2>18. OnTheWay(at)'
    <3>1. \A i, t : i \in DOMAIN channel' /\ t = channel'[i].stream =>
             /\ at[i] \in Nat /\ Len(heard'[t]) < at[i] /\ at[i] <= LinesRead(t)'
             /\ channel'[i].text = written'[t][at[i]]
      BY <1>1, <2>15
    <3>2. \A t \in Streams, n \in Nat : Len(heard'[t]) < n /\ n <= LinesRead(t)' =>
             \E i \in DOMAIN channel' : channel'[i].stream = t /\ at[i] = n
      BY <1>1, <2>17
    <3> QED BY <2>16, <3>1, <3>2 DEF OnTheWay, LinesRead
  <2> QED BY <1>1, <2>8, <2>9, <2>18 DEF RunInv
<1> QED BY <1>3, <1>4 DEF ReadPipe

LEMMA CollectKeeps == ASSUME RunInv, Collect PROVE RunInv'
<1>1. PICK line, s, len : line = Head(channel) /\ s = line.stream /\ len = Len(channel)
  OBVIOUS
<1>2. /\ phase = "collects" /\ channel # <<>> /\ channel' = Tail(channel)
      /\ heard' = [heard EXCEPT ![s] = Append(@, line.text)]
      /\ kept' = [kept EXCEPT ![s] = Push(@, line.text)]
      /\ UNCHANGED <<written, pipe, reader, phase, output>>
  BY <1>1 DEF Collect
<1>3. PICK S : S = [stream : Streams, text : Kinds]
  OBVIOUS
<1>4. channel \in Seq(S)
  BY <1>3 DEF RunInv, RunShape
<1>5. /\ len \in Nat /\ len >= 1 /\ DOMAIN channel = 1..len /\ 1 \in DOMAIN channel /\ line = channel[1]
      /\ channel' \in Seq(S) /\ DOMAIN channel' = 1..(len - 1)
      /\ \A i \in 1..(len - 1) : i + 1 \in DOMAIN channel /\ channel'[i] = channel[i + 1]
  <2>1. len \in Nat /\ DOMAIN channel = 1..len /\ len # 0
    BY <1>1, <1>2, <1>4
  <2>2. line = channel[1]
    BY <1>1, <1>2, <1>4
  <2>3. channel' \in Seq(S) /\ DOMAIN channel' = 1..(len - 1)
    BY <1>1, <1>2, <1>4
  <2>4. \A i \in 1..(len - 1) : channel'[i] = channel[i + 1]
    BY <1>1, <1>2, <1>4
  <2> QED BY <2>1, <2>2, <2>3, <2>4
<1>6. s \in Streams /\ line.text \in Kinds
  BY <1>1, <1>5, LinesTyped
<1>7. PICK old : OnTheWay(old)
  BY <1>2 DEF RunInv
<1>8. /\ heard'[s] = Append(heard[s], line.text) /\ kept'[s] = Push(kept[s], line.text)
      /\ \A t \in Streams \ {s} : heard'[t] = heard[t] /\ kept'[t] = kept[t]
      /\ heard[s] \in Seq(Kinds) /\ kept[s] \in Seq(Kinds)
  BY <1>2, <1>6 DEF RunInv, RunShape
<1>9. \A t \in Streams : LinesRead(t)' = LinesRead(t) /\ Len(heard[t]) \in Nat /\ LinesRead(t) \in Int
  BY <1>2 DEF RunInv, RunShape, LinesRead
<1>10. PICK next : next = Len(heard[s]) + 1
  OBVIOUS
<1>11. /\ next \in Nat /\ Len(heard'[s]) = next /\ heard'[s] \in Seq(Kinds)
       /\ heard'[s][next] = line.text /\ \A n \in 1..(next - 1) : heard'[s][n] = heard[s][n]
  BY <1>6, <1>8, <1>9, <1>10
<1>12. /\ old[1] \in Nat /\ Len(heard[s]) < old[1] /\ old[1] <= LinesRead(s)
       /\ line.text = written[s][old[1]]
  BY <1>1, <1>5, <1>7 DEF OnTheWay
<1>13. old[1] = next
  <2>1. next <= LinesRead(s) /\ Len(heard[s]) < next
    BY <1>9, <1>10, <1>6, <1>12
  <2>2. PICK i \in DOMAIN channel : channel[i].stream = s /\ old[i] = next
    BY <1>6, <1>7, <1>11, <2>1 DEF OnTheWay
  <2>3. i # 1 => old[1] < old[i]
    <3>1. i # 1 => 1 < i
      BY <1>5
    <3> QED BY <1>1, <1>5, <1>7, <2>2, <3>1 DEF OnTheWay
  <2> QED BY <1>6, <1>9, <1>10, <1>12, <2>2, <2>3
<1>14. RunShape'
  <2>1. Push(kept[s], line.text) \in Seq(Kinds)
    BY <1>6, <1>8 DEF Push
  <2>2. heard' \in [Streams -> Seq(Kinds)] /\ kept' \in [Streams -> Seq(Kinds)]
    BY <1>2, <1>8, <1>11, <2>1 DEF RunInv, RunShape
  <2> QED BY <1>2, <1>3, <1>5, <2>2 DEF RunInv, RunShape
<1>15. ASSUME NEW t \in Streams PROVE ToldOf(t)' /\ EndedWhole(t)'
  <2>1. EndedWhole(t)'
    BY <1>2 DEF RunInv, EndedWhole, IsText
  <2>2. CASE t # s
    <3>1. ToldOf(t)'
      BY <1>2, <1>8, <1>9, <2>2 DEF RunInv, ToldOf
    <3> QED BY <2>1, <3>1
  <2>3. CASE t = s
    <3>1. TextOn(heard[s], kept[s]) /\ \A n \in 1..Len(heard[s]) : heard[s][n] = written[s][n]
      BY <1>6 DEF RunInv, ToldOf
    <3>2. TextOn(heard'[s], kept'[s])
      BY <1>6, <1>8, <3>1, TextGrows
    <3>3. Len(heard'[s]) <= LinesRead(s)'
      BY <1>6, <1>9, <1>11, <1>12, <1>13
    <3>4. ASSUME NEW n \in 1..Len(heard'[s]) PROVE heard'[s][n] = written'[s][n]
      <4>1. n = next \/ n \in 1..(next - 1)
        BY <1>11
      <4>2. next - 1 = Len(heard[s])
        BY <1>6, <1>9, <1>10
      <4> QED BY <1>2, <1>11, <1>12, <1>13, <3>1, <4>1, <4>2
    <3>5. ToldOf(s)'
      BY <3>2, <3>3, <3>4 DEF ToldOf
    <3> QED BY <2>1, <2>3, <3>5
  <2> QED BY <2>2, <2>3
<1>16. PICK at : at = [i \in 1..(len - 1) |-> old[i + 1]]
  OBVIOUS
<1>17. ASSUME NEW i, NEW t, i \in DOMAIN channel', t = channel'[i].stream
       PROVE  /\ at[i] \in Nat /\ Len(heard'[t]) < at[i] /\ at[i] <= LinesRead(t)'
              /\ channel'[i].text = written'[t][at[i]]
  <2>1. /\ i \in 1..(len - 1) /\ at[i] = old[i + 1] /\ i + 1 \in DOMAIN channel /\ channel'[i] = channel[i + 1]
        /\ i + 1 # 1
    BY <1>5, <1>16, <1>17
  <2>2. t = channel[i + 1].stream /\ t \in Streams
    BY <1>17, <2>1, LinesTyped
  <2>3. /\ old[i + 1] \in Nat /\ Len(heard[t]) < old[i + 1] /\ old[i + 1] <= LinesRead(t)
        /\ channel[i + 1].text = written[t][old[i + 1]]
    BY <1>7, <2>1, <2>2 DEF OnTheWay
  <2>4. Len(heard'[t]) < old[i + 1]
    <3>1. CASE t # s
      BY <1>8, <2>2, <2>3, <3>1
    <3>2. CASE t = s
      <4>1. 1 < i + 1
        BY <2>1
      <4>2. old[1] < old[i + 1]
        BY <1>1, <1>5, <1>7, <2>1, <2>2, <3>2, <4>1 DEF OnTheWay
      <4> QED BY <1>11, <1>13, <3>2, <4>2
    <3> QED BY <3>1, <3>2
  <2> QED BY <1>2, <1>9, <2>1, <2>2, <2>3, <2>4
<1>18. ASSUME NEW i \in DOMAIN channel', NEW j \in DOMAIN channel', i < j,
              channel'[i].stream = channel'[j].stream
       PROVE  at[i] < at[j]
  <2>1. /\ i + 1 \in DOMAIN channel /\ j + 1 \in DOMAIN channel /\ i + 1 < j + 1
        /\ channel'[i] = channel[i + 1] /\ channel'[j] = channel[j + 1]
        /\ at[i] = old[i + 1] /\ at[j] = old[j + 1]
    BY <1>5, <1>16, <1>18
  <2> QED BY <1>7, <1>18, <2>1 DEF OnTheWay
<1>19. ASSUME NEW t \in Streams, NEW n \in Nat, Len(heard'[t]) < n, n <= LinesRead(t)'
       PROVE  \E i \in DOMAIN channel' : channel'[i].stream = t /\ at[i] = n
  <2>1. Len(heard[t]) < n /\ n <= LinesRead(t) /\ (t = s => n # next)
    <3>1. CASE t = s
      BY <1>6, <1>9, <1>10, <1>11, <1>19, <3>1
    <3>2. CASE t # s
      BY <1>8, <1>9, <1>19, <3>2
    <3> QED BY <3>1, <3>2
  <2>2. PICK k \in DOMAIN channel : channel[k].stream = t /\ old[k] = n
    BY <1>7, <2>1 DEF OnTheWay
  <2>3. k # 1
    BY <1>1, <1>5, <1>13, <2>1, <2>2
  <2>4. k - 1 \in 1..(len - 1) /\ (k - 1) + 1 = k
    BY <1>5, <2>3
  <2>5. k - 1 \in DOMAIN channel' /\ channel'[k - 1] = channel[k] /\ at[k - 1] = old[k]
    BY <1>5, <1>16, <2>4
  <2> QED BY <2>2, <2>5
<1>20. OnTheWay(at)'
  BY <1>17, <1>18, <1>19 DEF OnTheWay, LinesRead
<1> QED BY <1>2, <1>14, <1>15, <1>20 DEF RunInv

LEMMA EndOfLinesKeeps == ASSUME RunInv, EndOfLines PROVE RunInv'
<1>1. /\ phase = "collects" /\ phase' = "waits" /\ channel = <<>> /\ AllRead
      /\ UNCHANGED <<written, pipe, reader, channel, heard, kept, output>>
  BY DEF EndOfLines, Collected
<1>2. PICK at : OnTheWay(at)
  BY <1>1 DEF RunInv
<1>3. DOMAIN channel = {}
  BY <1>1
<1>4. ASSUME NEW s \in Streams PROVE Len(heard[s]) = LinesRead(s)
  <2>1. Len(heard[s]) \in Nat /\ LinesRead(s) \in Int /\ Len(heard[s]) <= LinesRead(s)
    BY DEF RunInv, RunShape, ToldOf, LinesRead
  <2>2. LinesRead(s) \in Nat
    BY <2>1
  <2>3. ~(Len(heard[s]) < LinesRead(s) /\ LinesRead(s) <= LinesRead(s))
    BY <1>2, <1>3, <2>2 DEF OnTheWay
  <2> QED BY <2>1, <2>3
<1>5. \A s \in Streams : ToldOf(s)' /\ EndedWhole(s)'
  BY <1>1 DEF RunInv, ToldOf, EndedWhole, LinesRead, IsText
<1>6. RunShape'
  BY <1>1 DEF RunInv, RunShape
<1>7. \A s \in Streams : Len(heard'[s]) = LinesRead(s)'
  BY <1>1, <1>4 DEF LinesRead
<1> QED BY <1>1, <1>5, <1>6, <1>7 DEF RunInv, AllRead

LEMMA OutcomeKeeps == ASSUME RunInv, Outcome PROVE RunInv'
<1>1. /\ phase = "waits" /\ phase' = "outcome" /\ output' = [s \in Streams |-> Cut(kept[s])]
      /\ UNCHANGED <<written, pipe, reader, channel, heard, kept>>
  BY DEF Outcome
<1>2. \A s \in Streams : ToldOf(s)' /\ EndedWhole(s)'
  BY <1>1 DEF RunInv, ToldOf, EndedWhole, LinesRead, IsText
<1>3. RunShape'
  BY <1>1 DEF RunInv, RunShape
<1>4. \A s \in Streams : output'[s] = Cut(kept'[s]) /\ Len(heard'[s]) = LinesRead(s)'
  BY <1>1 DEF RunInv, LinesRead
<1> QED BY <1>1, <1>2, <1>3, <1>4 DEF RunInv, AllRead

LEMMA OverKeeps == ASSUME RunInv, Over PROVE RunInv'
<1>1. /\ phase' \in {"timeout", "dropped"} /\ channel' = <<>>
      /\ UNCHANGED <<written, pipe, reader, heard, kept, output>>
  BY DEF Over
<1>2. <<>> \in Seq([stream : Streams, text : Kinds])
  OBVIOUS
<1>3. \A s \in Streams : ToldOf(s)' /\ EndedWhole(s)'
  BY <1>1 DEF RunInv, ToldOf, EndedWhole, LinesRead
<1>4. RunShape'
  BY <1>1, <1>2 DEF RunInv, RunShape
<1> QED BY <1>1, <1>3, <1>4 DEF RunInv

LEMMA RunInvKept == RunInv /\ [RunNext]_runVars => RunInv'
<1> SUFFICES ASSUME RunInv, [RunNext]_runVars PROVE RunInv'
  OBVIOUS
<1>1. CASE UNCHANGED runVars
  BY <1>1, ProcessesLeave DEF runVars, collection
<1>2. CASE \E s \in Streams : WriteLine(s) \/ BreakPipe(s) \/ ReadPipe(s)
  BY <1>2, WriteLineKeeps, ReadPipeKeeps, ProcessesLeave DEF BreakPipe
<1>3. CASE Fork \/ Exit
  BY <1>3, ProcessesLeave DEF Fork, Exit
<1> QED BY <1>1, <1>2, <1>3, CollectKeeps, EndOfLinesKeeps, OutcomeKeeps, OverKeeps DEF RunNext

\* The caller hears the lines of a stream in their order and none twice, and the
\* outcome quotes all that was written before it, by the shell and by what it
\* left behind, cut to its limit (CommandRunner::run).
THEOREM OutputIsTold == RunSpec => []OutputTold
<1>1. ASSUME RunInv, NEW s \in Streams
      PROVE  /\ IsPrefix(heard[s], written[s])
             /\ phase = "outcome" /\ IsText(s) =>
                  heard[s] = written[s] /\ output[s] = Cut(Joined(written[s]))
  <2>1. PICK told, all : told = heard[s] /\ all = written[s]
    OBVIOUS
  <2>2. /\ told \in Seq(Kinds) /\ all \in Seq(Kinds) /\ pipe[s] \in Nat /\ Len(told) <= Len(all) - pipe[s]
        /\ \A n \in 1..Len(told) : told[n] = all[n]
    BY <1>1, <2>1 DEF RunInv, RunShape, ToldOf, LinesRead
  <2>3. Len(told) \in Nat /\ Len(all) \in Nat /\ Len(told) <= Len(all)
    BY <2>2
  <2>4. SubSeq(told, 1, Len(told)) = SubSeq(all, 1, Len(told))
    BY <2>2, <2>3
  <2>5. IsPrefix(heard[s], written[s])
    BY <2>1, <2>3, <2>4 DEF IsPrefix
  <2>6. ASSUME phase = "outcome", IsText(s)
        PROVE  heard[s] = written[s] /\ output[s] = Cut(Joined(written[s]))
    <3>1. Len(told) = Len(all) - pipe[s] /\ pipe[s] = 0 /\ output[s] = Cut(kept[s])
      BY <1>1, <2>1, <2>6 DEF RunInv, LinesRead, AllRead, EndedWhole
    <3>2. Len(told) = Len(all)
      BY <2>3, <3>1
    <3>3. told = all
      BY <2>2, <3>2
    <3>4. kept[s] = Joined(told)
      BY <1>1, <2>1, <2>2, TextJoined DEF RunInv, ToldOf
    <3> QED BY <2>1, <3>1, <3>3, <3>4
  <2> QED BY <2>5, <2>6
<1>2. RunInv => OutputTold
  BY <1>1 DEF OutputTold
<1> QED BY <1>2, RunInvInitially, RunInvKept, PTL DEF RunSpec

-----------------------------------------------------------------------------
\* The catalog of commands.  A set in an order: every place of it is taken.

Ordered(S, order) ==
  /\ IsFiniteSet(S)
  /\ \A a \in S : <<a, a>> \notin order
  /\ \A a, b \in S : a # b => <<a, b>> \in order \/ <<b, a>> \in order
  /\ \A a, b, c \in S : <<a, b>> \in order /\ <<b, c>> \in order => <<a, c>> \in order

LEMMA SortedTakesAll ==
  ASSUME NEW S, NEW order, Ordered(S, order)
  PROVE  /\ Cardinality(S) \in Nat
         /\ Sorted(S, order) \in Seq(S)
         /\ DOMAIN Sorted(S, order) = 1..Cardinality(S)
         /\ Len(Sorted(S, order)) = Cardinality(S)
         /\ \A n \in 1..Cardinality(S) : Sorted(S, order)[n] \in S
         /\ \A m, n \in 1..Cardinality(S) :
              m < n => <<Sorted(S, order)[m], Sorted(S, order)[n]>> \in order
         /\ \A m, n \in 1..Cardinality(S) :
              m # n => Sorted(S, order)[m] # Sorted(S, order)[n]
         /\ \A e \in S : \E n \in 1..Cardinality(S) : Sorted(S, order)[n] = e
<1> DEFINE Before(e) == {d \in S : <<d, e>> \in order}
           size == Cardinality(S)
           place == [e \in S |-> Cardinality(Before(e))]
<1>1. IsFiniteSet(S) /\ size \in Nat
  BY FS_CardinalityType DEF Ordered
<1>2. \A e \in S : IsFiniteSet(Before(e)) /\ Cardinality(Before(e)) \in Nat
  BY <1>1, FS_Subset, FS_CardinalityType
<1>3. \A e \in S : e \notin Before(e)
  BY DEF Ordered
<1>4. ASSUME NEW e \in S PROVE Cardinality(Before(e)) < size
  <2>1. Before(e) \in SUBSET S /\ Before(e) # S
    BY <1>3
  <2>2. /\ Cardinality(Before(e)) <= Cardinality(S)
        /\ Cardinality(S) = Cardinality(Before(e)) => S = Before(e)
    BY <1>1, <2>1, FS_Subset
  <2> QED BY <1>1, <1>2, <2>1, <2>2
<1>5. ASSUME NEW a \in S, NEW b \in S, <<a, b>> \in order
      PROVE  Cardinality(Before(a)) < Cardinality(Before(b))
  <2>1. Before(a) \in SUBSET Before(b)
    BY <1>5 DEF Ordered
  <2>2. Before(a) # Before(b)
    BY <1>3, <1>5
  <2>3. /\ Cardinality(Before(a)) <= Cardinality(Before(b))
        /\ Cardinality(Before(b)) = Cardinality(Before(a)) => Before(b) = Before(a)
    BY <1>2, <2>1, FS_Subset
  <2> QED BY <1>2, <2>2, <2>3
<1>6. Sorted(S, order) = [n \in 1..size |-> CHOOSE e \in S : Cardinality(Before(e)) = n - 1]
  BY DEF Sorted
<1> HIDE DEF Before
<1>7. place \in Injection(S, 0..(size - 1))
  <2>1. \A a \in S : place[a] \in 0..(size - 1)
    BY <1>1, <1>2, <1>4
  <2>2. ASSUME NEW a \in S, NEW b \in S, a # b PROVE place[a] # place[b]
    <3>1. <<a, b>> \in order \/ <<b, a>> \in order
      BY <2>2 DEF Ordered
    <3> QED BY <1>2, <1>5, <3>1
  <2> QED BY <2>1, <2>2 DEF Injection, IsInjective
<1>8. IsFiniteSet(0..(size - 1)) /\ Cardinality(0..(size - 1)) = size
  BY <1>1, FS_Interval
<1>9. place \in Surjection(S, 0..(size - 1))
  BY <1>1, <1>7, <1>8, FS_Injection
<1>10. ASSUME NEW n \in 1..size
       PROVE  /\ Sorted(S, order)[n] \in S
              /\ Cardinality(Before(Sorted(S, order)[n])) = n - 1
  <2>1. n - 1 \in 0..(size - 1)
    BY <1>1
  <2>2. \E e \in S : Cardinality(Before(e)) = n - 1
    BY <1>9, <2>1 DEF Surjection
  <2>3. Sorted(S, order)[n] = CHOOSE e \in S : Cardinality(Before(e)) = n - 1
    BY <1>6
  <2> QED BY <2>2, <2>3
<1> HIDE DEF size
<1>11. DOMAIN Sorted(S, order) = 1..size
  BY <1>6
<1>12. Sorted(S, order) \in [1..size -> S]
  BY <1>6, <1>10
<1>13. Sorted(S, order) \in Seq(S) /\ Len(Sorted(S, order)) = size
  BY <1>1, <1>12
<1>14. ASSUME NEW m \in 1..size, NEW n \in 1..size, m # n
       PROVE  Sorted(S, order)[m] # Sorted(S, order)[n]
  BY <1>1, <1>10, <1>14
<1>15. ASSUME NEW m \in 1..size, NEW n \in 1..size, m < n
       PROVE  <<Sorted(S, order)[m], Sorted(S, order)[n]>> \in order
  <2> DEFINE a == Sorted(S, order)[m]
             b == Sorted(S, order)[n]
  <2>1. a \in S /\ b \in S /\ a # b
    BY <1>10, <1>14, <1>15
  <2>2. Cardinality(Before(a)) = m - 1 /\ Cardinality(Before(b)) = n - 1
    BY <1>10
  <2> HIDE DEF a, b
  <2>3. <<b, a>> \notin order
    BY <1>1, <1>5, <1>15, <2>1, <2>2
  <2>4. <<a, b>> \in order
    BY <2>1, <2>3 DEF Ordered
  <2> QED BY <2>4 DEF a, b
<1>16. ASSUME NEW e \in S PROVE \E n \in 1..size : Sorted(S, order)[n] = e
  <2> DEFINE n == Cardinality(Before(e)) + 1
  <2>1. n \in 1..size /\ n - 1 = Cardinality(Before(e))
    BY <1>1, <1>2, <1>4 DEF size
  <2>2. Sorted(S, order)[n] \in S /\ Cardinality(Before(Sorted(S, order)[n])) = n - 1
    BY <1>10, <2>1
  <2> DEFINE d == Sorted(S, order)[n]
  <2>3. d \in S /\ Cardinality(Before(d)) = Cardinality(Before(e))
    BY <2>1, <2>2
  <2> HIDE DEF d
  <2>4. d = e
    <3>1. Cardinality(Before(e)) \in Nat
      BY <1>2
    <3>2. <<d, e>> \notin order /\ <<e, d>> \notin order
      BY <1>5, <2>3, <3>1
    <3> QED BY <2>3, <3>2 DEF Ordered
  <2> QED BY <2>1, <2>4 DEF d
<1> QED BY <1>1, <1>10, <1>11, <1>13, <1>14, <1>15, <1>16 DEF size

LEMMA FirstIsLeast ==
  ASSUME NEW S \in SUBSET Nat, IsFiniteSet(S), S # {}
  PROVE  First(S) \in S /\ \A n \in S : First(S) <= n
<1> DEFINE less == {p \in S \X S : p[1] < p[2]}
<1>1. \A a, b \in S : <<a, b>> \in less <=> a < b
  OBVIOUS
<1> HIDE DEF less
<1>2. Ordered(S, less)
  BY <1>1 DEF Ordered
<1> DEFINE s == Sorted(S, less)
<1>3. /\ Cardinality(S) \in Nat
      /\ \A n \in 1..Cardinality(S) : s[n] \in S
      /\ \A m, n \in 1..Cardinality(S) : m < n => <<s[m], s[n]>> \in less
      /\ \A e \in S : \E n \in 1..Cardinality(S) : s[n] = e
  BY <1>2, SortedTakesAll
<1> HIDE DEF s
<1>4. PICK e \in S : TRUE
  OBVIOUS
<1>5. PICK k \in 1..Cardinality(S) : s[k] = e
  BY <1>3
<1>6. 1 \in 1..Cardinality(S)
  BY <1>3, <1>5
<1>7. ASSUME NEW d \in S PROVE s[1] <= d
  <2>1. PICK n \in 1..Cardinality(S) : s[n] = d
    BY <1>3
  <2>2. n = 1 \/ 1 < n
    BY <1>3, <2>1
  <2>3. s[1] \in Nat /\ d \in Nat
    BY <1>3, <1>6
  <2>4. CASE n = 1
    BY <2>1, <2>3, <2>4
  <2>5. CASE 1 < n
    <3>1. <<s[1], s[n]>> \in less
      BY <1>3, <1>6, <2>5
    <3>2. s[1] < s[n]
      BY <1>1, <1>3, <1>6, <3>1
    <3> QED BY <2>1, <2>3, <3>2
  <2> QED BY <2>2, <2>4, <2>5
<1> QED BY <1>3, <1>6, <1>7 DEF First

-----------------------------------------------------------------------------
\* The sentences.

LEMMA PrintoutTyped ==
  ASSUME NEW m \in Printouts
  PROVE  /\ m.fish \in Seq([command : Nat, says : {"nothing", "kind", "sentence"}])
         /\ DOMAIN m.fish = 1..Len(m.fish) /\ Len(m.fish) \in Nat
         /\ \A n \in DOMAIN m.fish :
              m.fish[n] \in [command : Nat, says : {"nothing", "kind", "sentence"}]
         /\ DOMAIN m.man = 1..Len(m.man) /\ Len(m.man) \in Nat
         /\ \A n \in DOMAIN m.man : m.man[n] \in [command : Nat, section : Nat]
         /\ IsFiniteSet(Named(m)) /\ Cardinality(Named(m)) \in Nat /\ Named(m) \subseteq Nat
<1> DEFINE FishLines == [command : Nat, says : {"nothing", "kind", "sentence"}]
           ManPages == [command : Nat, section : Nat]
<1>1. m.fish \in Seq(FishLines) /\ m.man \in Seq(ManPages)
  <2>1. \A n \in Machines : n.fish \in Seq(FishLines) /\ n.man \in Seq(ManPages)
    BY CatalogAssumption
  <2>2. <<>> \in Seq(FishLines) /\ <<>> \in Seq(ManPages)
    OBVIOUS
  <2>3. m.fish \in {<<>>} \cup {n.fish : n \in Machines}
        /\ m.man \in {<<>>} \cup {n.man : n \in Machines}
    BY DEF Printouts
  <2> HIDE DEF FishLines, ManPages
  <2> QED BY <2>1, <2>2, <2>3
<1> HIDE DEF FishLines, ManPages
<1>2. /\ DOMAIN m.fish = 1..Len(m.fish) /\ Len(m.fish) \in Nat
      /\ \A n \in DOMAIN m.fish : m.fish[n] \in FishLines
      /\ DOMAIN m.man = 1..Len(m.man) /\ Len(m.man) \in Nat
      /\ \A n \in DOMAIN m.man : m.man[n] \in ManPages
  BY <1>1
<1>3. IsFiniteSet(DOMAIN m.fish)
  BY <1>2, FS_Interval
<1>4. Named(m) = {m.fish[n].command : n \in DOMAIN m.fish}
  BY DEF Named
<1> DEFINE name == [n \in DOMAIN m.fish |-> m.fish[n].command]
<1>5. name \in Surjection(DOMAIN m.fish, Named(m))
  BY <1>4 DEF Surjection
<1>6. IsFiniteSet(Named(m)) /\ Cardinality(Named(m)) \in Nat
  BY <1>3, <1>5, FS_Surjection, FS_CardinalityType
<1>7. Named(m) \subseteq Nat
  BY <1>2, <1>4 DEF FishLines
<1> QED BY <1>1, <1>2, <1>6, <1>7 DEF FishLines, ManPages

\* A page of the manual is found exactly if there is one, and it is of the section
\* a reader reaches first.
LEMMA PagesFound ==
  ASSUME NEW m \in Printouts, NEW c
  PROVE  /\ (ManLines(m.man, c) # {}) <=> Pages(m, c) # {}
         /\ ManLines(m.man, c) \in SUBSET Nat /\ IsFiniteSet(ManLines(m.man, c))
         /\ \A n \in ManLines(m.man, c) :
              /\ n \in Pages(m, c)
              /\ \A k \in Pages(m, c) :
                   SectionRank(m.man[n].section) <= SectionRank(m.man[k].section)
<1> DEFINE pages == {n \in DOMAIN m.man : m.man[n].command = c}
           rank(n) == SectionRank(m.man[n].section)
           before == {p \in pages \X pages :
                        rank(p[1]) < rank(p[2]) \/ (rank(p[1]) = rank(p[2]) /\ p[1] < p[2])}
<1>1. ManLines(m.man, c) =
        {n \in pages : \A k \in pages : rank(n) < rank(k) \/ (rank(n) = rank(k) /\ n <= k)}
  BY DEF ManLines
<1>2. \A n \in pages : n \in Nat /\ rank(n) \in Nat
  <2>1. \A n : rank(n) \in {0, 1, 2}
    BY DEF SectionRank
  <2>2. \A n \in pages : n \in 1..Len(m.man) /\ Len(m.man) \in Nat
    BY PrintoutTyped
  <2> HIDE DEF rank, pages
  <2> QED BY <2>1, <2>2
<1>3. IsFiniteSet(pages)
  <2>1. pages \in SUBSET (1..Len(m.man)) /\ Len(m.man) \in Nat
    BY PrintoutTyped
  <2> QED BY <2>1, FS_Interval, FS_Subset
<1>4. \A a, b \in pages :
        <<a, b>> \in before <=> rank(a) < rank(b) \/ (rank(a) = rank(b) /\ a < b)
  OBVIOUS
<1>5. ASSUME pages # {} PROVE ManLines(m.man, c) # {}
  <2> HIDE DEF rank, before
  <2>1. Ordered(pages, before)
    <3>1. \A a \in pages : <<a, a>> \notin before
      BY <1>2, <1>4
    <3>2. \A a, b \in pages : a # b => <<a, b>> \in before \/ <<b, a>> \in before
      BY <1>2, <1>4
    <3>3. \A a, b, d \in pages :
            <<a, b>> \in before /\ <<b, d>> \in before => <<a, d>> \in before
      BY <1>2, <1>4
    <3> HIDE DEF pages
    <3> QED BY <1>3, <3>1, <3>2, <3>3 DEF Ordered
  <2> DEFINE size == Cardinality(pages)
             s == Sorted(pages, before)
  <2> HIDE DEF pages
  <2>2. /\ size \in Nat
        /\ \A n \in 1..size : s[n] \in pages
        /\ \A k, n \in 1..size : k < n => <<s[k], s[n]>> \in before
        /\ \A e \in pages : \E n \in 1..size : s[n] = e
    BY <2>1, SortedTakesAll
  <2> HIDE DEF s, size
  <2>3. 1 \in 1..size
    BY <1>5, <2>2
  <2>4. ASSUME NEW k \in pages
        PROVE  rank(s[1]) < rank(k) \/ (rank(s[1]) = rank(k) /\ s[1] <= k)
    <3>1. PICK n \in 1..size : s[n] = k
      BY <2>2
    <3>2. n = 1 \/ 1 < n
      BY <2>2, <3>1
    <3>3. s[1] \in pages /\ s[1] \in Nat
      BY <1>2, <2>2, <2>3
    <3>4. CASE n = 1
      BY <3>1, <3>3, <3>4
    <3>5. CASE 1 < n
      <4>1. <<s[1], k>> \in before
        BY <2>2, <2>3, <3>1, <3>5
      <4>2. rank(s[1]) < rank(k) \/ (rank(s[1]) = rank(k) /\ s[1] < k)
        BY <1>4, <3>3, <4>1
      <4> QED BY <1>2, <3>3, <4>2
    <3> QED BY <3>2, <3>4, <3>5
  <2> QED BY <1>1, <2>2, <2>3, <2>4
<1>6. ManLines(m.man, c) \subseteq pages
  BY <1>1
<1>7. ManLines(m.man, c) \in SUBSET Nat /\ IsFiniteSet(ManLines(m.man, c))
  <2> HIDE DEF rank, pages, before
  <2> QED BY <1>2, <1>3, <1>6, FS_Subset
<1>8. ASSUME NEW n \in ManLines(m.man, c), NEW k \in pages
      PROVE  rank(n) <= rank(k)
  <2> HIDE DEF rank, pages, before
  <2> QED BY <1>1, <1>2, <1>8
<1>9. pages = Pages(m, c)
  BY DEF Pages
<1> QED BY <1>5, <1>6, <1>7, <1>8, <1>9

\* A command has a sentence exactly if a page or its first line of fish has one,
\* and it is the sentence of the page where there is one.
LEMMA SentenceTold ==
  ASSUME NEW m \in Printouts, NEW c \in Named(m)
  PROVE  /\ (Summary(m, c) = NoSentence) <=> ~Documented(m, c)
         /\ Tells(m, c, Summary(m, c))
<1> DEFINE pages == {k \in DOMAIN m.fish : m.fish[k].command = c}
           n == First(pages)
<1>1. pages \in SUBSET Nat /\ IsFiniteSet(pages) /\ pages # {}
  <2>1. pages \in SUBSET (1..Len(m.fish)) /\ Len(m.fish) \in Nat
    BY PrintoutTyped
  <2>2. pages # {}
    BY DEF Named
  <2> HIDE DEF pages
  <2>3. IsFiniteSet(1..Len(m.fish))
    BY <2>1, FS_Interval
  <2>4. IsFiniteSet(pages)
    BY <2>1, <2>3, FS_Subset
  <2> QED BY <2>1, <2>2, <2>4
<1>2. n \in pages /\ \A k \in pages : n <= k
  <2> HIDE DEF pages
  <2> QED BY <1>1, FirstIsLeast
<1> HIDE DEF n
<1>3. \A k \in 1..n - 1 : m.fish[k].command # c
  <2> SUFFICES ASSUME NEW k \in 1..n - 1, m.fish[k].command = c PROVE FALSE
    OBVIOUS
  <2>1. k \in pages
    BY <1>1, <1>2, PrintoutTyped
  <2> QED BY <1>1, <1>2, <2>1
<1>4. Said(m, c) = IF m.fish[n].says = "sentence" THEN {n} ELSE {}
  <2>1. ASSUME m.fish[n].says = "sentence" PROVE n \in Said(m, c)
    <3>1. m.fish[n] = [command |-> c, says |-> "sentence"]
      BY <1>2, <2>1, PrintoutTyped
    <3> QED BY <1>2, <1>3, <3>1 DEF Said
  <2>2. ASSUME NEW k \in Said(m, c) PROVE k = n /\ m.fish[n].says = "sentence"
    <3>1. /\ k \in DOMAIN m.fish /\ m.fish[k] = [command |-> c, says |-> "sentence"]
          /\ \A j \in 1..k - 1 : m.fish[j].command # c
      BY DEF Said
    <3>2. k \in pages
      BY <3>1
    <3>3. n = k \/ n \in 1..k - 1
      BY <1>1, <1>2, <3>2, PrintoutTyped
    <3>4. m.fish[n].command = c
      BY <1>2
    <3> QED BY <3>1, <3>3, <3>4
  <2> HIDE DEF pages
  <2> QED BY <2>1, <2>2
<1>5. FishSummary(m.fish, c) = IF m.fish[n].says = "sentence" THEN <<"fish", n>> ELSE NoSentence
  BY DEF FishSummary, n
<1>6. \A k : <<"fish", k>> # NoSentence /\ <<"man", k>> # NoSentence
  BY DEF NoSentence
<1> HIDE DEF pages
<1>7. CASE ManLines(m.man, c) # {}
  <2> DEFINE first == First(ManLines(m.man, c))
  <2>1. Summary(m, c) = <<"man", first>>
    BY <1>7 DEF Summary
  <2>2. first \in ManLines(m.man, c)
    BY <1>7, PagesFound, FirstIsLeast
  <2> HIDE DEF first
  <2>3. /\ first \in Pages(m, c)
        /\ \A k \in Pages(m, c) :
             SectionRank(m.man[first].section) <= SectionRank(m.man[k].section)
    BY <2>2, PagesFound
  <2> QED BY <1>6, <2>1, <2>3 DEF Documented, Tells
<1>8. CASE ManLines(m.man, c) = {}
  <2>1. Summary(m, c) = FishSummary(m.fish, c) /\ Pages(m, c) = {}
    BY <1>8, PagesFound DEF Summary
  <2> QED BY <1>4, <1>5, <1>6, <2>1 DEF Documented, Tells
<1> QED BY <1>7, <1>8

-----------------------------------------------------------------------------
\* The list, as it is built and as it is cut.

LEMMA EntriesTold ==
  ASSUME NEW m \in Printouts
  PROVE  /\ IsFiniteSet(Entries(m)) /\ Cardinality(Entries(m)) = Cardinality(Named(m))
         /\ \A e \in Entries(m) :
              /\ e.command \in Named(m) /\ e.command \in Nat
              /\ (e.summary = NoSentence) <=> ~Documented(m, e.command)
              /\ Tells(m, e.command, e.summary)
         /\ \A d, e \in Entries(m) : d.command = e.command => d = e
         /\ \A c \in Named(m) : \E e \in Entries(m) : e.command = c
<1> DEFINE entry == [c \in Named(m) |-> [command |-> c, summary |-> Summary(m, c)]]
<1>1. /\ \A e \in Entries(m) : e.command \in Named(m) /\ e = entry[e.command]
      /\ \A c \in Named(m) : entry[c] \in Entries(m) /\ entry[c].command = c
      /\ \A c \in Named(m) : entry[c].summary = Summary(m, c)
  BY DEF Entries
<1>2. entry \in Bijection(Named(m), Entries(m))
  <2>1. entry \in [Named(m) -> Entries(m)]
    BY <1>1
  <2> HIDE DEF entry
  <2> QED BY <1>1, <2>1 DEF Bijection, Injection, Surjection, IsInjective
<1> HIDE DEF entry
<1>3. IsFiniteSet(Entries(m)) /\ Cardinality(Entries(m)) = Cardinality(Named(m))
  BY <1>2, PrintoutTyped, FS_Bijection DEF ExistsBijection
<1>4. \A e \in Entries(m) :
        /\ (e.summary = NoSentence) <=> ~Documented(m, e.command)
        /\ Tells(m, e.command, e.summary)
  BY <1>1, SentenceTold
<1> QED BY <1>1, <1>3, <1>4, PrintoutTyped

\* A list of entries, each once.
EachOnce(m, cut) ==
  /\ cut \in Seq(Entries(m))
  /\ \A j, k \in DOMAIN cut : j # k => cut[j] # cut[k]

LEMMA BuildTakesAll ==
  ASSUME NEW m \in Printouts
  PROVE  /\ EachOnce(m, Build(m)) /\ Len(Build(m)) = Cardinality(Named(m))
         /\ \A e \in Entries(m) : \E n \in DOMAIN Build(m) : Build(m)[n] = e
<1> DEFINE S == Entries(m)
           byName == {p \in S \X S : p[1].command < p[2].command}
<1>1. \A a, b \in S : <<a, b>> \in byName <=> a.command < b.command
  OBVIOUS
<1>2. Build(m) = Sorted(S, byName)
  BY DEF Build, ByName
<1>3. IsFiniteSet(S) /\ \A a \in S : a.command \in Nat
  BY EntriesTold
<1>4. \A a, b \in S : a.command = b.command => a = b
  BY EntriesTold
<1> HIDE DEF S, byName
<1>5. \A a, b \in S : a # b => <<a, b>> \in byName \/ <<b, a>> \in byName
  BY <1>1, <1>3, <1>4
<1>6. \A a, b, c \in S : <<a, b>> \in byName /\ <<b, c>> \in byName => <<a, c>> \in byName
  BY <1>1, <1>3
<1>7. Ordered(S, byName)
  BY <1>1, <1>3, <1>5, <1>6 DEF Ordered
<1>8. /\ Build(m) \in Seq(S) /\ Len(Build(m)) = Cardinality(S)
      /\ DOMAIN Build(m) = 1..Cardinality(S)
      /\ \A j, k \in DOMAIN Build(m) : j # k => Build(m)[j] # Build(m)[k]
      /\ \A e \in S : \E n \in DOMAIN Build(m) : Build(m)[n] = e
  BY <1>2, <1>7, SortedTakesAll
<1> QED BY <1>8, EntriesTold DEF S, EachOnce

\* A list that is cut holds the first of the order, and whatever stands before
\* one that is held is held.
LEMMA CapTakesFirst ==
  ASSUME NEW m \in Printouts
  PROVE  /\ EachOnce(m, Cap(Build(m)))
         /\ Len(Cap(Build(m))) = IF MaxCommands \in 1..Cardinality(Named(m))
                                 THEN MaxCommands ELSE Cardinality(Named(m))
         /\ \A n \in DOMAIN Cap(Build(m)), e \in Entries(m) :
              Cap(Build(m))[n].summary = NoSentence /\ e.summary # NoSentence =>
                \E k \in DOMAIN Cap(Build(m)) : Cap(Build(m))[k] = e
<1> DEFINE S == Entries(m)
           size == Cardinality(Named(m))
<1>1. /\ Build(m) \in Seq(S) /\ Len(Build(m)) = size /\ size \in Nat
      /\ \A e \in S : \E n \in DOMAIN Build(m) : Build(m)[n] = e
  BY BuildTakesAll, PrintoutTyped DEF EachOnce
<1>2. MaxCommands \in Nat
  BY CatalogAssumption
<1>3. CASE MaxCommands = 0 \/ size <= MaxCommands
  <2>1. Cap(Build(m)) = Build(m)
    BY <1>1, <1>3 DEF Cap
  <2>2. size = IF MaxCommands \in 1..size THEN MaxCommands ELSE size
    BY <1>1, <1>2, <1>3
  <2> QED BY <1>1, <2>1, <2>2, BuildTakesAll
<1>4. CASE ~(MaxCommands = 0 \/ size <= MaxCommands)
  <2> DEFINE order == SentenceFirst(S)
             all == Sorted(S, order)
  <2>1. ToSet(Build(m)) = S
    BY <1>1 DEF ToSet
  <2>2. Cap(Build(m)) = SubSeq(all, 1, MaxCommands)
    BY <1>1, <1>4, <2>1 DEF Cap
  <2>3. \A a, b \in S :
          <<a, b>> \in order <=>
            \/ a.summary # NoSentence /\ b.summary = NoSentence
            \/ /\ (a.summary = NoSentence) = (b.summary = NoSentence)
               /\ a.command < b.command
    BY DEF SentenceFirst
  <2>4. /\ IsFiniteSet(S) /\ Cardinality(S) = size /\ \A a \in S : a.command \in Nat
        /\ \A a, b \in S : a.command = b.command => a = b
    BY EntriesTold
  <2> HIDE DEF order, S, size
  <2>5. Ordered(S, order)
    <3>1. \A a \in S : <<a, a>> \notin order
      BY <2>3, <2>4
    <3>2. \A a, b \in S : a # b => <<a, b>> \in order \/ <<b, a>> \in order
      BY <2>3, <2>4
    <3>3. \A a, b, c \in S : <<a, b>> \in order /\ <<b, c>> \in order => <<a, c>> \in order
      BY <2>3, <2>4
    <3> QED BY <2>4, <3>1, <3>2, <3>3 DEF Ordered
  <2>6. /\ all \in Seq(S) /\ DOMAIN all = 1..size /\ Len(all) = size
        /\ \A j, k \in 1..size : j < k => <<all[j], all[k]>> \in order
        /\ \A j, k \in 1..size : j # k => all[j] # all[k]
        /\ \A n \in 1..size : all[n] \in S
        /\ \A e \in S : \E n \in 1..size : all[n] = e
    BY <2>4, <2>5, SortedTakesAll
  <2>7. MaxCommands \in 1..size
    BY <1>1, <1>2, <1>4
  <2> HIDE DEF all
  <2>8. /\ Cap(Build(m)) \in Seq(S) /\ Len(Cap(Build(m))) = MaxCommands
        /\ DOMAIN Cap(Build(m)) = 1..MaxCommands
        /\ \A n \in 1..MaxCommands : Cap(Build(m))[n] = all[n]
    <3>1. all \in Seq(S) /\ Len(all) = size /\ size \in Nat /\ MaxCommands \in 1..size
      BY <1>1, <2>6, <2>7
    <3>2. /\ SubSeq(all, 1, MaxCommands) \in Seq(S)
          /\ Len(SubSeq(all, 1, MaxCommands)) = MaxCommands
          /\ \A n \in 1..MaxCommands : SubSeq(all, 1, MaxCommands)[n] = all[n]
      BY <3>1
    <3>3. DOMAIN SubSeq(all, 1, MaxCommands) = 1..MaxCommands
      BY <3>1, <3>2
    <3> QED BY <2>2, <3>2, <3>3
  <2>9. \A j, k \in 1..MaxCommands : j # k => Cap(Build(m))[j] # Cap(Build(m))[k]
    <3>1. \A n \in 1..MaxCommands : n \in 1..size
      BY <1>1, <2>7
    <3>2. ASSUME NEW j \in 1..MaxCommands, NEW k \in 1..MaxCommands, j # k
          PROVE  Cap(Build(m))[j] # Cap(Build(m))[k]
      <4>1. all[j] # all[k]
        BY <2>6, <3>1, <3>2
      <4> QED BY <2>8, <4>1
    <3> QED BY <3>2
  <2>10. ASSUME NEW n \in 1..MaxCommands, NEW e \in S,
                all[n].summary = NoSentence, e.summary # NoSentence
         PROVE  \E k \in 1..MaxCommands : all[k] = e
    <3>1. PICK k \in 1..size : all[k] = e
      BY <2>6
    <3>2. n \in 1..size
      BY <1>1, <2>7
    <3>3. n \in 1..size /\ all[n] \in S
      BY <2>6, <3>2
    <3>4. <<all[n], e>> \notin order
      BY <2>3, <2>10, <3>3
    <3>5. ~(n < k)
      BY <2>6, <3>1, <3>3, <3>4
    <3>6. k \in 1..MaxCommands
      BY <1>1, <2>7, <3>3, <3>5
    <3> QED BY <3>1, <3>6
  <2>11. EachOnce(m, Cap(Build(m)))
    BY <2>8, <2>9 DEF EachOnce, S
  <2>12. Len(Cap(Build(m))) = IF MaxCommands \in 1..size THEN MaxCommands ELSE size
    BY <2>7, <2>8
  <2> QED BY <2>8, <2>10, <2>11, <2>12 DEF S, size
<1> QED BY <1>3, <1>4

LEMMA CapIsCatalog ==
  ASSUME NEW m \in Printouts
  PROVE  CatalogOf(m, Cap(Build(m)))
<1> DEFINE cut == Cap(Build(m))
           names == {cut[n].command : n \in DOMAIN cut}
<1>1. cut \in Seq(Entries(m)) /\ \A j, k \in DOMAIN cut : j # k => cut[j] # cut[k]
  BY CapTakesFirst DEF EachOnce
<1>2. /\ Len(cut) = IF MaxCommands \in 1..Cardinality(Named(m))
                     THEN MaxCommands ELSE Cardinality(Named(m))
      /\ \A n \in DOMAIN cut, e \in Entries(m) :
           cut[n].summary = NoSentence /\ e.summary # NoSentence =>
             \E k \in DOMAIN cut : cut[k] = e
  BY CapTakesFirst
<1>3. CatalogOf(m, cut) <=>
        /\ names \subseteq Named(m) /\ Cardinality(names) = Len(cut)
        /\ Len(cut) = IF MaxCommands \in 1..Cardinality(Named(m))
                       THEN MaxCommands ELSE Cardinality(Named(m))
        /\ \A n \in DOMAIN cut :
             /\ Tells(m, cut[n].command, cut[n].summary)
             /\ cut[n].summary = NoSentence =>
                  \A c \in Named(m) : Documented(m, c) => c \in names
  BY DEF CatalogOf
<1> HIDE DEF cut
<1>4. /\ DOMAIN cut = 1..Len(cut) /\ Len(cut) \in Nat
      /\ \A n \in DOMAIN cut : cut[n] \in Entries(m)
  BY <1>1
<1>5. /\ \A e \in Entries(m) :
           /\ e.command \in Named(m)
           /\ (e.summary = NoSentence) <=> ~Documented(m, e.command)
           /\ Tells(m, e.command, e.summary)
      /\ \A d, e \in Entries(m) : d.command = e.command => d = e
      /\ \A c \in Named(m) : \E e \in Entries(m) : e.command = c
  BY EntriesTold
<1>6. Cardinality(names) = Len(cut)
  <2> DEFINE name == [n \in DOMAIN cut |-> cut[n].command]
  <2>1. name \in [DOMAIN cut -> names] /\ \A n \in DOMAIN cut : name[n] = cut[n].command
    OBVIOUS
  <2>2. \A j, k \in DOMAIN cut : j # k => name[j] # name[k]
    BY <1>1, <1>4, <1>5, <2>1
  <2>3. \A c \in names : \E n \in DOMAIN cut : name[n] = c
    BY <2>1
  <2> HIDE DEF name, names
  <2>4. name \in Bijection(DOMAIN cut, names)
    BY <2>1, <2>2, <2>3 DEF Bijection, Injection, Surjection, IsInjective
  <2>5. IsFiniteSet(1..Len(cut)) /\ Cardinality(1..Len(cut)) = Len(cut)
    BY <1>4, FS_Interval
  <2> QED BY <1>4, <2>4, <2>5, FS_Bijection DEF ExistsBijection
<1>7. ASSUME NEW n \in DOMAIN cut, cut[n].summary = NoSentence,
             NEW c \in Named(m), Documented(m, c)
      PROVE  c \in names
  <2>1. PICK e \in Entries(m) : e.command = c
    BY <1>5
  <2>2. e.summary # NoSentence
    BY <1>5, <1>7, <2>1
  <2>3. PICK k \in DOMAIN cut : cut[k] = e
    BY <1>2, <1>7, <2>2
  <2> QED BY <2>1, <2>3
<1>8. names \subseteq Named(m)
  BY <1>4, <1>5
<1>9. \A n \in DOMAIN cut : Tells(m, cut[n].command, cut[n].summary)
  BY <1>4, <1>5
<1> HIDE DEF names
<1>10. CatalogOf(m, cut)
  BY <1>2, <1>3, <1>6, <1>7, <1>8, <1>9
<1> QED BY <1>10 DEF cut

-----------------------------------------------------------------------------
\* The turns that read it.

SomeEntries == UNION {Entries(m) : m \in Printouts}
CatalogTurns ==
  [state : {"fish", "man", "built", "read", "offers"}, of : Printouts,
   list : Seq(SomeEntries), since : Nat, at : Nat]
KeptLists == [of : Printouts, list : Seq(SomeEntries), at : Nat]

CommandsTyped ==
  /\ machine \in Machines /\ clock \in Nat /\ askCount \in Nat
  /\ turns \in Seq(CatalogTurns)
  /\ cached # NoCommands => cached \in KeptLists

\* No turn asked later than it is now.
CatalogInv ==
  /\ CommandsTyped /\ CommandsRead
  /\ cached # NoCommands => CatalogOf(cached.of, cached.list)
  /\ \A t \in DOMAIN turns : turns[t].since <= clock

LEMMA BuildTyped ==
  ASSUME NEW m \in Printouts
  PROVE  Cap(Build(m)) \in Seq(SomeEntries)
<1>1. PICK cut : cut = Cap(Build(m))
  OBVIOUS
<1>2. cut \in Seq(Entries(m))
  BY <1>1, CapTakesFirst DEF EachOnce
<1>3. PICK S : S = Entries(m)
  OBVIOUS
<1>4. cut \in Seq(S)
  BY <1>2, <1>3
<1>5. Len(cut) \in Nat /\ DOMAIN cut = 1..Len(cut) /\ \A n \in 1..Len(cut) : cut[n] \in S
  BY <1>4
<1>6. S \subseteq SomeEntries
  BY <1>3 DEF SomeEntries
<1>7. cut = [n \in 1..Len(cut) |-> cut[n]]
  BY <1>4, <1>5
<1>8. PICK T : T = SomeEntries
  OBVIOUS
<1>9. \A n \in 1..Len(cut) : cut[n] \in T
  BY <1>5, <1>6, <1>8
<1>10. cut \in [1..Len(cut) -> T]
  BY <1>7, <1>9
<1>11. cut \in Seq(T)
  BY <1>5, <1>10
<1> QED BY <1>1, <1>8, <1>11

LEMMA TakeTyped ==
  ASSUME NEW S, NEW cut \in Seq(S)
  PROVE  Take(cut) \in Seq(S)
<1>1. Limit \in Nat
  BY CatalogAssumption
<1>2. CASE Len(cut) <= Limit
  BY <1>2 DEF Take
<1>3. CASE ~(Len(cut) <= Limit)
  <2>1. Limit \in 0..Len(cut)
    BY <1>1, <1>3
  <2>2. SubSeq(cut, 1, Limit) \in Seq(S)
    BY <2>1
  <2> QED BY <1>3, <2>2 DEF Take
<1> QED BY <1>2, <1>3

LEMMA RankedTyped ==
  ASSUME NEW S, NEW cut \in Seq(S), NEW marks \in [DOMAIN cut -> 0..1]
  PROVE  Ranked(cut, marks) \in Seq(S)
<1> DEFINE order == {p \in (DOMAIN cut) \X (DOMAIN cut) :
                       marks[p[1]] > marks[p[2]] \/ (marks[p[1]] = marks[p[2]] /\ p[1] < p[2])}
           best == Sorted(DOMAIN cut, order)
           taken == [n \in DOMAIN best |-> cut[best[n]]]
<1>1. Ranked(cut, marks) = Take(taken)
  BY DEF Ranked
<1>2. DOMAIN cut = 1..Len(cut) /\ Len(cut) \in Nat
  OBVIOUS
<1>3. \A a, b \in DOMAIN cut :
        <<a, b>> \in order <=> marks[a] > marks[b] \/ (marks[a] = marks[b] /\ a < b)
  OBVIOUS
<1>4. \A a \in DOMAIN cut : a \in Nat /\ marks[a] \in Nat
  BY <1>2
<1> HIDE DEF order
<1>5. Ordered(DOMAIN cut, order)
  <2>1. IsFiniteSet(DOMAIN cut)
    BY <1>2, FS_Interval
  <2>2. PICK D : D = DOMAIN cut
    OBVIOUS
  <2>3. \A a \in D : <<a, a>> \notin order
    BY <1>3, <1>4, <2>2
  <2>4. \A a, b \in D : a # b => <<a, b>> \in order \/ <<b, a>> \in order
    BY <1>3, <1>4, <2>2
  <2>5. \A a, b, c \in D : <<a, b>> \in order /\ <<b, c>> \in order => <<a, c>> \in order
    BY <1>3, <1>4, <2>2
  <2>6. Ordered(D, order)
    BY <2>1, <2>2, <2>3, <2>4, <2>5 DEF Ordered
  <2> QED BY <2>2, <2>6
<1>6. /\ Cardinality(DOMAIN cut) \in Nat /\ DOMAIN best = 1..Cardinality(DOMAIN cut)
      /\ \A n \in 1..Cardinality(DOMAIN cut) : best[n] \in DOMAIN cut
  BY <1>5, SortedTakesAll
<1> HIDE DEF best
<1>7. PICK k \in Nat : DOMAIN best = 1..k /\ \A n \in 1..k : best[n] \in DOMAIN cut
  BY <1>6
<1>8. \A n \in 1..k : cut[best[n]] \in S
  BY <1>2, <1>7
<1>9. taken \in [1..k -> S]
  BY <1>7, <1>8
<1>10. taken \in Seq(S)
  BY <1>9
<1> HIDE DEF taken
<1> QED BY <1>1, <1>10, TakeTyped

\* What a turn of CommandsRead promises, and the time it asked.
TurnHolds(turn) ==
  /\ turn.state = "read" =>
       /\ CatalogOf(turn.of, turn.list)
       /\ turn.at >= turn.since \/ turn.since - turn.at < CatalogTtl
  /\ turn.since <= clock

LEMMA TurnsSet ==
  ASSUME CatalogInv, NEW t \in DOMAIN turns, NEW turn \in CatalogTurns, TurnHolds(turn),
         SetTurn(t, turn), UNCHANGED clock
  PROVE  /\ turns' \in Seq(CatalogTurns) /\ CommandsRead'
         /\ \A u \in DOMAIN turns' : turns'[u].since <= clock'
<1>1. PICK S : S = CatalogTurns
  OBVIOUS
<1>2. turns' = [turns EXCEPT ![t] = turn] /\ turns \in Seq(S) /\ turn \in S
  BY <1>1 DEF SetTurn, CatalogInv, CommandsTyped
<1>3. turns' \in Seq(S) /\ DOMAIN turns' = DOMAIN turns
  BY <1>2
<1>4. \A u \in DOMAIN turns : turns'[u] = IF u = t THEN turn ELSE turns[u]
  BY <1>2
<1>5. \A u \in DOMAIN turns : TurnHolds(turns[u])
  BY DEF CatalogInv, CommandsRead, TurnHolds
<1>6. \A u \in DOMAIN turns' : TurnHolds(turns'[u])
  BY <1>3, <1>4, <1>5
<1>7. CommandsRead' /\ \A u \in DOMAIN turns' : turns'[u].since <= clock'
  BY <1>6 DEF CommandsRead, TurnHolds
<1> QED BY <1>1, <1>3, <1>7

LEMMA CatalogTyped ==
  ASSUME CatalogInv
  PROVE  /\ machine \in Machines /\ clock \in Nat /\ askCount \in Nat
         /\ turns \in Seq(CatalogTurns)
         /\ DOMAIN turns = 1..Len(turns) /\ Len(turns) \in Nat
         /\ \A t \in DOMAIN turns :
              /\ turns[t] \in CatalogTurns /\ TurnHolds(turns[t])
              /\ turns[t].of \in Printouts /\ turns[t].since \in Nat /\ turns[t].since <= clock
         /\ cached # NoCommands =>
              cached \in KeptLists /\ cached.at \in Nat /\ CatalogOf(cached.of, cached.list)
<1>1. /\ machine \in Machines /\ clock \in Nat /\ askCount \in Nat
      /\ turns \in Seq(CatalogTurns)
      /\ cached # NoCommands => cached \in KeptLists /\ CatalogOf(cached.of, cached.list)
  BY DEF CatalogInv, CommandsTyped
<1>2. PICK S : S = CatalogTurns
  OBVIOUS
<1>3. turns \in Seq(S)
  BY <1>1, <1>2
<1>4. /\ DOMAIN turns = 1..Len(turns) /\ Len(turns) \in Nat
      /\ \A t \in DOMAIN turns : turns[t] \in S
  BY <1>3
<1>5. \A t \in DOMAIN turns : TurnHolds(turns[t])
  BY DEF CatalogInv, CommandsRead, TurnHolds
<1> QED BY <1>1, <1>2, <1>4, <1>5 DEF CatalogTurns, KeptLists, TurnHolds

LEMMA CommandsAsked == CatalogInv /\ AskCommands => CatalogInv'
<1> SUFFICES ASSUME CatalogInv, AskCommands PROVE CatalogInv'
  OBVIOUS
<1> DEFINE turn == IF Fresh THEN Turn("read", cached.of, cached.list, clock, cached.at)
                   ELSE Turn("fish", NoPrintout, <<>>, clock, clock)
<1>1. turns' = Append(turns, turn) /\ askCount' = askCount + 1
      /\ UNCHANGED <<machine, clock, cached>>
  BY DEF AskCommands
<1>2. turn \in CatalogTurns /\ TurnHolds(turn)
  <2>1. CASE Fresh
    <3>1. turn = [state |-> "read", of |-> cached.of, list |-> cached.list, since |-> clock,
                  at |-> cached.at]
      BY <2>1 DEF Turn
    <3>2. /\ cached \in KeptLists /\ CatalogOf(cached.of, cached.list)
          /\ clock - cached.at < CatalogTtl /\ clock \in Nat
      BY <2>1, CatalogTyped DEF Fresh
    <3> HIDE DEF turn
    <3>3. turn \in CatalogTurns
      BY <3>1, <3>2 DEF CatalogTurns, KeptLists
    <3> QED BY <3>1, <3>2, <3>3 DEF TurnHolds
  <2>2. CASE ~Fresh
    <3>1. turn = [state |-> "fish", of |-> NoPrintout, list |-> <<>>, since |-> clock,
                  at |-> clock]
      BY <2>2 DEF Turn
    <3>2. <<>> \in Seq(SomeEntries) /\ NoPrintout \in Printouts /\ clock \in Nat
      BY CatalogTyped DEF NoPrintout, Printouts
    <3> HIDE DEF turn
    <3>3. turn \in CatalogTurns
      BY <3>1, <3>2 DEF CatalogTurns
    <3> QED BY <3>1, <3>2, <3>3 DEF TurnHolds
  <2> QED BY <2>1, <2>2
<1> HIDE DEF turn
<1>3. PICK S : S = CatalogTurns
  OBVIOUS
<1>4. turns \in Seq(S) /\ turn \in S
  BY <1>2, <1>3, CatalogTyped
<1>5. /\ turns' \in Seq(S) /\ DOMAIN turns' = 1..Len(turns) + 1
      /\ \A u \in 1..Len(turns) : turns'[u] = turns[u]
      /\ turns'[Len(turns) + 1] = turn
  BY <1>1, <1>4
<1>6. \A u \in DOMAIN turns' : u \in DOMAIN turns \/ u = Len(turns) + 1
  BY <1>5, CatalogTyped
<1>7. \A u \in DOMAIN turns' : TurnHolds(turns'[u])
  BY <1>2, <1>5, <1>6, CatalogTyped
<1>8. CommandsRead' /\ \A u \in DOMAIN turns' : turns'[u].since <= clock'
  BY <1>1, <1>7 DEF CommandsRead, TurnHolds
<1>9. CommandsTyped'
  BY <1>1, <1>3, <1>5, CatalogTyped DEF CommandsTyped
<1> QED BY <1>1, <1>8, <1>9, CatalogTyped DEF CatalogInv

\* A turn that goes on waiting, or that ends, reads no catalog.
LEMMA TurnGoesOn ==
  ASSUME CatalogInv, NEW t \in DOMAIN turns, NEW state \in {"man", "built", "offers"},
         NEW printed \in Printouts, NEW cut \in Seq(SomeEntries),
         SetTurn(t, [turns[t] EXCEPT !.state = state, !.of = printed, !.list = cut]),
         UNCHANGED <<machine, clock, cached, askCount>>
  PROVE  CatalogInv'
<1>1. PICK old \in CatalogTurns : old = turns[t] /\ TurnHolds(old)
  BY CatalogTyped
<1>2. PICK turn : turn = [old EXCEPT !.state = state, !.of = printed, !.list = cut]
  OBVIOUS
<1>3. turn \in CatalogTurns /\ turn.state = state /\ turn.since = old.since
  BY <1>1, <1>2 DEF CatalogTurns
<1>4. TurnHolds(turn)
  BY <1>1, <1>3 DEF TurnHolds
<1>5. /\ turns' \in Seq(CatalogTurns) /\ CommandsRead'
      /\ \A u \in DOMAIN turns' : turns'[u].since <= clock'
  BY <1>1, <1>2, <1>3, <1>4, TurnsSet
<1> QED BY <1>5, CatalogTyped DEF CatalogInv, CommandsTyped

LEMMA PrintoutRead ==
  ASSUME CatalogInv, NEW t \in DOMAIN turns, ReadFish(t) \/ ReadManual(t)
  PROVE  CatalogInv'
<1>1. PICK old \in CatalogTurns : old = turns[t]
  BY CatalogTyped
<1>2. old.of \in Printouts /\ old.list \in Seq(SomeEntries)
  BY <1>1 DEF CatalogTurns
<1>3. PICK cut : cut = old.list
  OBVIOUS
<1>4. machine \in Machines
  BY CatalogTyped
<1>5. CASE ReadFish(t)
  <2>1. PICK printed : printed = [old.of EXCEPT !.fish = machine.fish]
    OBVIOUS
  <2>2. printed \in Printouts
    BY <1>2, <1>4, <2>1 DEF Printouts
  <2>3. /\ SetTurn(t, [old EXCEPT !.state = "man", !.of = printed])
        /\ UNCHANGED <<machine, clock, cached, askCount>>
    BY <1>1, <1>5, <2>1 DEF ReadFish
  <2>4. [old EXCEPT !.state = "man", !.of = printed] =
          [old EXCEPT !.state = "man", !.of = printed, !.list = cut]
    BY <1>3 DEF CatalogTurns
  <2> QED BY <1>1, <1>2, <1>3, <2>2, <2>3, <2>4, TurnGoesOn
<1>6. CASE ReadManual(t)
  <2>1. PICK man \in {machine.man, <<>>} :
          SetTurn(t, [old EXCEPT !.state = "built", !.of.man = man])
    BY <1>1, <1>6 DEF ReadManual
  <2>2. PICK printed : printed = [old.of EXCEPT !.man = man]
    OBVIOUS
  <2>3. printed \in Printouts
    BY <1>2, <1>4, <2>1, <2>2 DEF Printouts
  <2>4. /\ SetTurn(t, [old EXCEPT !.state = "built", !.of = printed])
        /\ UNCHANGED <<machine, clock, cached, askCount>>
    BY <1>1, <1>6, <2>1, <2>2 DEF ReadManual
  <2>5. [old EXCEPT !.state = "built", !.of = printed] =
          [old EXCEPT !.state = "built", !.of = printed, !.list = cut]
    BY <1>3 DEF CatalogTurns
  <2> QED BY <1>1, <1>2, <1>3, <2>3, <2>4, <2>5, TurnGoesOn
<1> QED BY <1>5, <1>6

LEMMA CommandsKept ==
  ASSUME CatalogInv, NEW t \in DOMAIN turns, KeepCommands(t)
  PROVE  CatalogInv'
<1>1. PICK m, cut, since : m = turns[t].of /\ cut = Cap(Build(m)) /\ since = turns[t].since
  OBVIOUS
<1>2. m \in Printouts /\ since \in Nat /\ clock \in Nat /\ since <= clock
  BY <1>1, CatalogTyped
<1>3. CatalogOf(m, cut) /\ cut \in Seq(SomeEntries)
  BY <1>1, <1>2, CapIsCatalog, BuildTyped
<1>4. /\ cached' = [of |-> m, list |-> cut, at |-> clock]
      /\ SetTurn(t, Turn("read", m, cut, since, clock))
      /\ UNCHANGED <<machine, clock, askCount>>
  BY <1>1 DEF KeepCommands
<1>5. PICK turn : turn = Turn("read", m, cut, since, clock)
  OBVIOUS
<1>6. turn = [state |-> "read", of |-> m, list |-> cut, since |-> since, at |-> clock]
  BY <1>5 DEF Turn
<1>7. turn \in CatalogTurns
  BY <1>2, <1>3, <1>6 DEF CatalogTurns
<1>8. TurnHolds(turn)
  BY <1>2, <1>3, <1>6 DEF TurnHolds
<1>9. /\ turns' \in Seq(CatalogTurns) /\ CommandsRead'
      /\ \A u \in DOMAIN turns' : turns'[u].since <= clock'
  BY <1>4, <1>5, <1>7, <1>8, TurnsSet
<1>10. cached' \in KeptLists /\ CatalogOf(cached.of, cached.list)'
  BY <1>2, <1>3, <1>4 DEF KeptLists
<1> QED BY <1>4, <1>9, <1>10, CatalogTyped DEF CatalogInv, CommandsTyped

LEMMA CommandsOffered ==
  ASSUME CatalogInv, NEW t \in DOMAIN turns, NoCatalogRead(t) \/ Offer(t)
  PROVE  CatalogInv'
<1>1. PICK old \in CatalogTurns : old = turns[t]
  BY CatalogTyped
<1>2. old.of \in Printouts /\ old.list \in Seq(SomeEntries)
  BY <1>1 DEF CatalogTurns
<1>3. PICK printed, cut : printed = old.of /\ cut = old.list
  OBVIOUS
<1>4. CASE NoCatalogRead(t)
  <2>1. [old EXCEPT !.state = "offers"] =
          [old EXCEPT !.state = "offers", !.of = printed, !.list = cut]
    BY <1>3 DEF CatalogTurns
  <2> QED BY <1>1, <1>2, <1>3, <1>4, <2>1, TurnGoesOn DEF NoCatalogRead
<1>5. CASE Offer(t)
  <2>1. PICK offered \in {Take(cut)} \cup {Ranked(cut, s) : s \in [DOMAIN cut -> 0..1]} :
          SetTurn(t, [old EXCEPT !.state = "offers", !.list = offered])
    BY <1>1, <1>3, <1>5 DEF Offer
  <2>2. offered \in Seq(SomeEntries)
    BY <1>2, <1>3, <2>1, TakeTyped, RankedTyped
  <2>3. [old EXCEPT !.state = "offers", !.list = offered] =
          [old EXCEPT !.state = "offers", !.of = printed, !.list = offered]
    BY <1>3 DEF CatalogTurns
  <2>4. UNCHANGED <<machine, clock, cached, askCount>>
    BY <1>5 DEF Offer
  <2> QED BY <1>1, <1>2, <1>3, <2>1, <2>2, <2>3, <2>4, TurnGoesOn
<1> QED BY <1>4, <1>5

\* The catalog a turn reads holds commands of one run of fish, each once and as
\* many as fit, with the sentences of one run of the manual, drops none that has a
\* sentence before one that has none, and is not older than its lifetime
\* (build_catalog, cap_entries and CatalogStore::read), whatever fish and the
\* manual print, and however builds, turns and installations overlap.
THEOREM CatalogRead == CommandsSpec => []CommandsRead
<1>1. CommandsInit => CatalogInv
  <2> SUFFICES ASSUME CommandsInit PROVE CatalogInv
    OBVIOUS
  <2>1. CommandsTyped
    BY DEF CommandsInit, CommandsTyped
  <2>2. CommandsRead
    BY DEF CommandsInit, CommandsRead
  <2> QED BY <2>1, <2>2 DEF CommandsInit, CatalogInv
<1>2. CatalogInv /\ [CommandsNext]_commandVars => CatalogInv'
  <2> SUFFICES ASSUME CatalogInv, [CommandsNext]_commandVars PROVE CatalogInv'
    OBVIOUS
  <2>1. CASE AskCommands
    BY <2>1, CommandsAsked
  <2>2. ASSUME NEW t \in DOMAIN turns,
               ReadFish(t) \/ ReadManual(t) \/ KeepCommands(t) \/ NoCatalogRead(t) \/ Offer(t)
        PROVE  CatalogInv'
    BY <2>2, PrintoutRead, CommandsKept, CommandsOffered
  <2>3. CASE ChangeMachine
    BY <2>3 DEF ChangeMachine, CatalogInv, CommandsTyped, CommandsRead
  <2>4. CASE Pass
    <3>1. \A t \in DOMAIN turns : turns[t].since \in Nat /\ turns[t].since <= clock
      BY CatalogTyped
    <3>2. clock \in Nat /\ clock' = clock + 1 /\ UNCHANGED <<machine, cached, turns, askCount>>
      BY <2>4, CatalogTyped DEF Pass
    <3>3. \A t \in DOMAIN turns' : turns'[t].since <= clock'
      BY <3>1, <3>2
    <3> QED BY <3>2, <3>3 DEF CatalogInv, CommandsTyped, CommandsRead
  <2>5. CASE UNCHANGED commandVars
    BY <2>5 DEF commandVars, CatalogInv, CommandsTyped, CommandsRead
  <2> QED BY <2>1, <2>2, <2>3, <2>4, <2>5 DEF CommandsNext
<1>3. CatalogInv => CommandsRead
  BY DEF CatalogInv
<1> QED BY <1>1, <1>2, <1>3, PTL DEF CommandsSpec

-----------------------------------------------------------------------------
\* The memory, read while it is written.

\* What a call has left to do: it closes the facts that would be true twice
\* before it inserts a fact, or moves the facts of a concept to another.
Statements ==
  [do : {"touch", "drop", "forget"}, at : Concepts]
    \cup [do : {"close", "confirm"}, at : FactIds]
    \cup [do : {"move"}, at : FactIds, into : Concepts]
    \cup [do : {"insert"}, at : FactIds, row : {row \in Rows : row.of \in Concepts}]

StaysOpen(f) ==
  said[f].open /\ \A n \in DOMAIN pending : pending[n].do = "close" => pending[n].at # f
Moves(f) == \E n \in DOMAIN pending : pending[n].do = "move" /\ pending[n].at = f

ClosesFirst ==
  \A m, n \in DOMAIN pending :
    pending[m].do = "close" /\ (pending[n].do = "move" \/ pending[n].do = "insert") => m < n

InsertsNew ==
  \A n \in DOMAIN pending : pending[n].do = "insert" =>
    /\ said[pending[n].at] = NoFact
    /\ \A f \in FactIds : StaysOpen(f) => said[f].of # pending[n].row.of
    /\ \A m \in DOMAIN pending : m # n => pending[m].do \in {"touch", "close"}

MovesOne ==
  \A n \in DOMAIN pending : pending[n].do = "move" =>
    /\ \A m \in DOMAIN pending : pending[m].do = "move" => pending[m].into = pending[n].into
    /\ \A f, g \in FactIds :
         /\ StaysOpen(f) /\ (Moves(f) \/ said[f].of = pending[n].into)
         /\ StaysOpen(g) /\ (Moves(g) \/ said[g].of = pending[n].into)
         => f = g

WriteInv ==
  /\ there \subseteq Concepts /\ changed \in [Concepts -> Nat] /\ wrote \in Nat
  /\ said \in [FactIds -> Rows] /\ pending \in Seq(Statements)
  /\ \A f, g \in FactIds : said[f].open /\ said[g].open /\ said[f].of = said[g].of => f = g
  /\ ClosesFirst /\ InsertsNew /\ MovesOne
  /\ steady \cap Concepts \subseteq there

SomeWords == UNION {{text[n] : n \in DOMAIN text} : text \in Questions}
Readings ==
  [step : {"idle", "nodes", "edges", "named", "recent", "facts", "count", "twins", "orphans", "told"},
   what : {"none", "seed", "query", "lint"}, limit : Nat, terms : SUBSET SomeWords,
   found : SUBSET [concept : Concepts, named : Nat, changed : Nat],
   missed : SUBSET Concepts, left : SUBSET Concepts,
   shut : SUBSET FactIds, bare : SUBSET Concepts, lines : SUBSET Concepts,
   told : SUBSET [concept : Concepts, fact : FactIds, current : BOOLEAN]]

FoundOnce ==
  /\ \A x, y \in recall.found : x.concept = y.concept => x = y
  /\ Recalling("named") => recall.left \cap Seen = {}

\* A concept named in full is found, or was not read for the many named concepts
\* that changed later, or gave way to concepts that are named.
NamedFound ==
  recall.step \in {"edges", "named", "recent", "facts"} /\ recall.what # "lint" =>
    \A c \in steady \cap Concepts : WordsNamed(c) >= FullyNamed =>
      \/ \E x \in recall.found : x.concept = c /\ x.named >= FullyNamed
      \/ c \in recall.missed
      \/ /\ recall.what = "query" /\ Recalling("facts")
         /\ \A x \in recall.found : x.named > 0

ShutStays == \A f \in recall.shut : ~said[f].open /\ said[f] # NoFact

ReadInv ==
  /\ recall \in Readings
  /\ recall.step \in {"nodes", "edges", "named", "facts"} => recall.what # "lint"
  /\ recall.step \in {"count", "twins", "orphans"} => recall.what = "lint"
  /\ recall.step \notin {"orphans", "told"} => recall.told = {} /\ recall.lines = {}
  /\ FoundOnce /\ NamedFound /\ ShutStays
  /\ recall.what = "lint" => {t.fact : t \in ToldTrue} \cap recall.shut = {}
  /\ Recalling("told") /\ recall.what # "lint" => NothingTwice /\ StillFactsTold /\ FullyNamedFirst

RecallInv == WriteInv /\ ReadInv

-----------------------------------------------------------------------------
\* The calls that write.

LEMMA SetListed ==
  ASSUME NEW S, IsFiniteSet(S)
  PROVE  /\ Cardinality(S) \in Nat
         /\ SetToSeq(S) \in [1..Cardinality(S) -> S]
         /\ \A e \in S : \E n \in 1..Cardinality(S) : SetToSeq(S)[n] = e
<1>1. Cardinality(S) \in Nat
  BY FS_CardinalityType
<1>2. ExistsBijection(1..Cardinality(S), S)
  BY FS_CardinalityType
<1>3. PICK f \in Bijection(1..Cardinality(S), S) : TRUE
  BY <1>2 DEF ExistsBijection
<1>4. f \in [1..Cardinality(S) -> S] /\ IsInjective(f)
  BY <1>3 DEF Bijection, Injection, IsInjective
<1> DEFINE s == SetToSeq(S)
<1>5. s \in [1..Cardinality(S) -> S] /\ IsInjective(s)
  BY <1>4 DEF SetToSeq
<1> HIDE DEF s
<1>6. IsFiniteSet(1..Cardinality(S)) /\ Cardinality(1..Cardinality(S)) = Cardinality(S)
  BY <1>1, FS_Interval
<1>7. s \in Injection(1..Cardinality(S), S)
  BY <1>5 DEF Injection, IsInjective
<1>8. s \in Surjection(1..Cardinality(S), S)
  BY <1>6, <1>7, FS_Injection
<1> QED BY <1>1, <1>5, <1>8 DEF Surjection, s

LEMMA FactsFinite ==
  /\ IsFiniteSet(FactIds)
  /\ \A c : IsFiniteSet(OwnFacts(c)) /\ IsFiniteSet(OpenFacts(c))
  /\ \A c : OwnFacts(c) \subseteq FactIds /\ OpenFacts(c) \subseteq FactIds
<1>1. IsFiniteSet(FactIds)
  BY RecallAssumption, FS_Interval DEF FactIds
<1>2. \A c : OwnFacts(c) \subseteq FactIds /\ OpenFacts(c) \subseteq FactIds
  BY DEF OwnFacts, OpenFacts
<1> QED BY <1>1, <1>2, FS_Subset

LEMMA ClosingListed ==
  ASSUME NEW S \in SUBSET FactIds
  PROVE  /\ ClosingAll(S) \in Seq(Statements) /\ Len(ClosingAll(S)) \in Nat
         /\ \A n \in 1..Len(ClosingAll(S)) :
              ClosingAll(S)[n].do = "close" /\ ClosingAll(S)[n].at \in S
         /\ \A f \in S : \E n \in 1..Len(ClosingAll(S)) : ClosingAll(S)[n].at = f
<1>1. IsFiniteSet(S)
  BY FactsFinite, FS_Subset
<1> DEFINE k == Cardinality(S)
           s == SetToSeq(S)
<1>2. k \in Nat /\ s \in [1..k -> S] /\ \A f \in S : \E n \in 1..k : s[n] = f
  BY <1>1, SetListed
<1>3. ClosingAll(S) = [n \in 1..k |-> [do |-> "close", at |-> s[n]]]
  BY DEF ClosingAll, CloseFact
<1> HIDE DEF k, s
<1>4. \A n \in 1..k : [do |-> "close", at |-> s[n]] \in [do : {"close", "confirm"}, at : FactIds]
  BY <1>2
<1>5. \A n \in 1..k : [do |-> "close", at |-> s[n]] \in Statements
  BY <1>4 DEF Statements
<1>6. ClosingAll(S) \in [1..k -> Statements]
  BY <1>3, <1>5
<1>7. PICK T : T = Statements
  OBVIOUS
<1>8. ClosingAll(S) \in Seq(T) /\ Len(ClosingAll(S)) = k
  BY <1>2, <1>6, <1>7
<1> QED BY <1>2, <1>3, <1>7, <1>8

LEMMA MovingListed ==
  ASSUME NEW S \in SUBSET FactIds, NEW c \in Concepts
  PROVE  /\ MovingAll(S, c) \in Seq(Statements) /\ Len(MovingAll(S, c)) \in Nat
         /\ \A n \in 1..Len(MovingAll(S, c)) :
              MovingAll(S, c)[n].do = "move" /\ MovingAll(S, c)[n].at \in S
                /\ MovingAll(S, c)[n].into = c
<1>1. IsFiniteSet(S)
  BY FactsFinite, FS_Subset
<1> DEFINE k == Cardinality(S)
           s == SetToSeq(S)
<1>2. k \in Nat /\ s \in [1..k -> S]
  BY <1>1, SetListed
<1>3. MovingAll(S, c) = [n \in 1..k |-> [do |-> "move", at |-> s[n], into |-> c]]
  BY DEF MovingAll, MoveFact
<1> HIDE DEF k, s
<1>4. \A n \in 1..k :
        [do |-> "move", at |-> s[n], into |-> c] \in [do : {"move"}, at : FactIds, into : Concepts]
  BY <1>2
<1>5. \A n \in 1..k : [do |-> "move", at |-> s[n], into |-> c] \in Statements
  BY <1>4 DEF Statements
<1>6. MovingAll(S, c) \in [1..k -> Statements]
  BY <1>3, <1>5
<1>7. PICK T : T = Statements
  OBVIOUS
<1>8. MovingAll(S, c) \in Seq(T) /\ Len(MovingAll(S, c)) = k
  BY <1>2, <1>6, <1>7
<1> QED BY <1>2, <1>3, <1>7, <1>8

LEMMA StatementFields ==
  ASSUME NEW s \in Statements
  PROVE  /\ s.do \in {"touch", "close", "confirm", "move", "drop", "insert", "forget"}
         /\ s.do \in {"touch", "drop", "forget"} => s.at \in Concepts
         /\ s.do \in {"close", "confirm", "move", "insert"} => s.at \in FactIds
         /\ s.do = "insert" => s.row \in Rows /\ s.row.of \in Concepts
         /\ s.do = "move" => s.into \in Concepts
<1>1. CASE s \in [do : {"touch", "drop", "forget"}, at : Concepts]
  BY <1>1
<1>2. CASE s \in [do : {"close", "confirm"}, at : FactIds]
  BY <1>2
<1>3. CASE s \in [do : {"move"}, at : FactIds, into : Concepts]
  BY <1>3
<1>4. CASE s \in [do : {"insert"}, at : FactIds, row : {row \in Rows : row.of \in Concepts}]
  BY <1>4
<1> QED BY <1>1, <1>2, <1>3, <1>4 DEF Statements

LEMMA WriteInvInitially == MemoryInit => WriteInv
<1> SUFFICES ASSUME MemoryInit PROVE WriteInv
  OBVIOUS
<1>1. said \in [FactIds -> Rows]
      /\ \A f, g \in FactIds : said[f].open /\ said[g].open /\ said[f].of = said[g].of => f = g
  BY FirstFactsAssumption DEF MemoryInit
<1>2. PICK T : T = Statements
  OBVIOUS
<1>3. pending = <<>> /\ pending \in Seq(T) /\ DOMAIN pending = {}
  BY DEF MemoryInit
<1>4. there \subseteq Concepts /\ changed \in [Concepts -> Nat] /\ wrote \in Nat
      /\ steady \cap Concepts \subseteq there
  BY DEF MemoryInit
<1>5. ClosesFirst /\ InsertsNew /\ MovesOne
  BY <1>3 DEF ClosesFirst, InsertsNew, MovesOne
<1> QED BY <1>1, <1>2, <1>3, <1>4, <1>5 DEF WriteInv

\* A call that begins has yet to close all that would be true twice.
LEMMA LearnFactKept ==
  ASSUME WriteInv, LearnFact
  PROVE  /\ pending' \in Seq(Statements)
         /\ said' = said => ClosesFirst' /\ InsertsNew' /\ MovesOne'
<1>1. PICK c \in Concepts \ gone, v \in Sayings, sure \in BOOLEAN :
        LET same == {f \in OpenFacts(c) : said[f].says = v} IN
        \/ \E f \in same : pending' = <<TouchConcept(c), [do |-> "confirm", at |-> f]>>
        \/ /\ same = {}
           /\ \E f \in FactIds :
                /\ said[f] = NoFact /\ \A g \in 1..(f - 1) : said[g] # NoFact
                /\ pending' = <<TouchConcept(c)>> \o CloseThenInsert(c, f, v, sure)
  BY DEF LearnFact
<1>2. PICK T : T = Statements
  OBVIOUS
<1> DEFINE touch == [do |-> "touch", at |-> c]
<1>3. touch \in [do : {"touch", "drop", "forget"}, at : Concepts]
  OBVIOUS
<1>4. touch \in T
  BY <1>2, <1>3 DEF Statements
<1>5. ASSUME NEW f \in OpenFacts(c), pending' = <<touch, [do |-> "confirm", at |-> f]>>
      PROVE  /\ pending' \in Seq(Statements)
             /\ said' = said => ClosesFirst' /\ InsertsNew' /\ MovesOne'
  <2> DEFINE confirm == [do |-> "confirm", at |-> f]
  <2>1. confirm \in [do : {"close", "confirm"}, at : FactIds]
    BY FactsFinite
  <2>2. confirm \in T
    BY <1>2, <2>1 DEF Statements
  <2>3. touch.do = "touch" /\ confirm.do = "confirm"
    OBVIOUS
  <2> HIDE DEF touch, confirm
  <2>4. pending' = <<touch, confirm>>
    BY <1>5 DEF touch, confirm
  <2>5. DOMAIN pending' = 1..2 /\ pending'[1] = touch /\ pending'[2] = confirm
    BY <2>4
  <2>6. pending' \in Seq(T)
    BY <1>4, <2>2, <2>4
  <2>7. \A n \in DOMAIN pending' : pending'[n].do \in {"touch", "confirm"}
    BY <2>3, <2>5
  <2>8. ClosesFirst' /\ InsertsNew' /\ MovesOne'
    BY <2>7 DEF ClosesFirst, InsertsNew, MovesOne
  <2> QED BY <1>2, <2>6, <2>8
<1>6. ASSUME NEW f \in FactIds, said[f] = NoFact,
             pending' = <<touch>> \o CloseThenInsert(c, f, v, sure)
      PROVE  /\ pending' \in Seq(Statements)
             /\ said' = said => ClosesFirst' /\ InsertsNew' /\ MovesOne'
  <2> DEFINE row == [of |-> c, says |-> v, open |-> TRUE, sure |-> sure]
             insert == [do |-> "insert", at |-> f, row |-> row]
             closing == ClosingAll(OpenFacts(c))
  <2>1. row \in Rows /\ row.of = c /\ c \in Concepts
    BY DEF Rows
  <2>2. insert \in [do : {"insert"}, at : FactIds, row : {r \in Rows : r.of \in Concepts}]
    BY <2>1
  <2>3. insert \in T
    BY <1>2, <2>2 DEF Statements
  <2>4. touch.do = "touch" /\ insert.do = "insert" /\ insert.at = f /\ insert.row.of = c
    OBVIOUS
  <2>5. PICK k \in Nat : k = Len(closing)
    BY ClosingListed, FactsFinite
  <2>6. closing \in Seq(T) /\ \A n \in 1..k : closing[n].do = "close" /\ closing[n].at \in FactIds
    BY <1>2, <2>5, ClosingListed, FactsFinite
  <2>7. \A g \in OpenFacts(c) : \E n \in 1..k : closing[n].at = g
    BY <2>5, ClosingListed, FactsFinite
  <2>8. pending' = <<touch>> \o (closing \o <<insert>>)
    BY <1>6 DEF CloseThenInsert
  <2> HIDE DEF touch, row, insert, closing
  <2>9. pending' \in Seq(T) /\ DOMAIN pending' = 1..(k + 2)
    BY <1>4, <2>3, <2>5, <2>6, <2>8
  <2>10. /\ pending'[1] = touch /\ pending'[k + 2] = insert
         /\ \A n \in 1..k : pending'[n + 1] = closing[n]
    BY <1>4, <2>3, <2>5, <2>6, <2>8
  <2>11. \A n \in 1..(k + 2) : n = 1 \/ n = k + 2 \/ (n - 1 \in 1..k /\ n = (n - 1) + 1)
    BY <2>5
  <2>12. \A n \in 1..(k + 2) : n = k + 2 \/ pending'[n].do \in {"touch", "close"}
    BY <2>4, <2>6, <2>10, <2>11
  <2>13. \A n \in 1..(k + 2) : pending'[n].do = "insert" => n = k + 2
    BY <2>12
  <2>14. \A n \in 1..(k + 2) : pending'[n].do # "move" /\ (pending'[n].do = "close" => n # k + 2)
    BY <2>4, <2>10, <2>12
  <2>15. ASSUME said' = said PROVE ClosesFirst' /\ InsertsNew' /\ MovesOne'
    <3>1. ClosesFirst'
      <4> SUFFICES ASSUME NEW m \in DOMAIN pending', NEW n \in DOMAIN pending',
                          pending'[m].do = "close",
                          pending'[n].do = "move" \/ pending'[n].do = "insert"
                   PROVE  m < n
        BY DEF ClosesFirst
      <4>1. m \in 1..(k + 2) /\ m # k + 2 /\ n = k + 2
        BY <2>9, <2>13, <2>14
      <4> QED BY <2>5, <4>1
    <3>2. MovesOne'
      BY <2>9, <2>14 DEF MovesOne
    <3>3. ASSUME NEW g \in FactIds, StaysOpen(g)' PROVE said'[g].of # c
      <4> SUFFICES ASSUME said'[g].of = c PROVE FALSE
        OBVIOUS
      <4>1. g \in OpenFacts(c)
        BY <2>15, <3>3 DEF StaysOpen, OpenFacts, OwnFacts
      <4>2. PICK n \in 1..k : closing[n].at = g
        BY <2>7, <4>1
      <4>3. n + 1 \in DOMAIN pending' /\ pending'[n + 1] = closing[n]
        BY <2>5, <2>9, <2>10
      <4> QED BY <2>6, <3>3, <4>2, <4>3 DEF StaysOpen
    <3>4. InsertsNew'
      <4> SUFFICES ASSUME NEW n \in DOMAIN pending', pending'[n].do = "insert"
                   PROVE  /\ said'[pending'[n].at] = NoFact
                          /\ \A g \in FactIds : StaysOpen(g)' => said'[g].of # pending'[n].row.of
                          /\ \A m \in DOMAIN pending' : m # n => pending'[m].do \in {"touch", "close"}
        BY DEF InsertsNew
      <4>1. n = k + 2 /\ pending'[n].at = f /\ pending'[n].row.of = c
        BY <2>4, <2>9, <2>10, <2>13
      <4> QED BY <1>6, <2>9, <2>12, <2>15, <3>3, <4>1
    <3> QED BY <3>1, <3>2, <3>4
  <2> QED BY <1>2, <2>9, <2>15
<1> QED BY <1>1, <1>5, <1>6 DEF TouchConcept

LEMMA MergeConceptsKept ==
  ASSUME WriteInv, MergeConcepts
  PROVE  /\ pending' \in Seq(Statements)
         /\ said' = said => ClosesFirst' /\ InsertsNew' /\ MovesOne'
<1>1. PICK c \in there : \E d \in there \ {c} :
        \E lost \in {{}} \cup {{f} : f \in OpenFacts(c) \cup OpenFacts(d)} :
          /\ (lost = {}) = (OpenFacts(c) = {} \/ OpenFacts(d) = {})
          /\ (\E e \in OpenFacts(c), f \in OpenFacts(d) : said[e].says = said[f].says)
               => lost = OpenFacts(c)
          /\ pending' = ClosingAll(lost) \o MovingAll(OwnFacts(c), d) \o <<[do |-> "drop", at |-> c]>>
  BY DEF MergeConcepts
<1>2. PICK d \in there \ {c} :
        \E lost \in {{}} \cup {{f} : f \in OpenFacts(c) \cup OpenFacts(d)} :
          /\ (lost = {}) = (OpenFacts(c) = {} \/ OpenFacts(d) = {})
          /\ pending' = ClosingAll(lost) \o MovingAll(OwnFacts(c), d) \o <<[do |-> "drop", at |-> c]>>
  BY <1>1
<1>3. PICK lost \in {{}} \cup {{f} : f \in OpenFacts(c) \cup OpenFacts(d)} :
          /\ (lost = {}) = (OpenFacts(c) = {} \/ OpenFacts(d) = {})
          /\ pending' = ClosingAll(lost) \o MovingAll(OwnFacts(c), d) \o <<[do |-> "drop", at |-> c]>>
  BY <1>2
<1>4. c \in Concepts /\ d \in Concepts /\ c # d
  BY DEF WriteInv
<1>5. lost \in SUBSET FactIds /\ OwnFacts(c) \in SUBSET FactIds
  BY FactsFinite
<1>6. PICK T : T = Statements
  OBVIOUS
<1> DEFINE drop == [do |-> "drop", at |-> c]
           closing == ClosingAll(lost)
           moving == MovingAll(OwnFacts(c), d)
<1>7. drop \in [do : {"touch", "drop", "forget"}, at : Concepts]
  BY <1>4
<1>8. drop \in T /\ drop.do = "drop"
  BY <1>6, <1>7 DEF Statements
<1>9. PICK k \in Nat : k = Len(closing)
  BY <1>5, ClosingListed
<1>10. PICK l \in Nat : l = Len(moving)
  BY <1>4, <1>5, MovingListed
<1>11. closing \in Seq(T) /\ \A n \in 1..k : closing[n].do = "close"
  BY <1>5, <1>6, <1>9, ClosingListed
<1>12. \A f \in lost : \E n \in 1..k : closing[n].at = f
  BY <1>5, <1>9, ClosingListed
<1>13. /\ moving \in Seq(T)
       /\ \A n \in 1..l : moving[n].do = "move" /\ moving[n].at \in OwnFacts(c) /\ moving[n].into = d
  BY <1>4, <1>5, <1>6, <1>10, MovingListed
<1>14. pending' = closing \o moving \o <<drop>>
  BY <1>3
<1> HIDE DEF drop, closing, moving
<1>15. pending' \in Seq(T) /\ DOMAIN pending' = 1..(k + l + 1)
  BY <1>8, <1>9, <1>10, <1>11, <1>13, <1>14
<1>16. /\ \A n \in 1..k : pending'[n] = closing[n]
       /\ \A n \in 1..l : pending'[k + n] = moving[n]
       /\ pending'[k + l + 1] = drop
  BY <1>8, <1>9, <1>10, <1>11, <1>13, <1>14
<1>17. \A n \in 1..(k + l + 1) :
         n \in 1..k \/ n = k + l + 1 \/ (n - k \in 1..l /\ n = k + (n - k))
  BY <1>9, <1>10
<1>18. \A n \in 1..(k + l + 1) :
         /\ pending'[n].do \in {"close", "move", "drop"}
         /\ pending'[n].do = "close" => n <= k
         /\ pending'[n].do = "move" =>
              /\ k < n /\ pending'[n].into = d /\ pending'[n].at \in OwnFacts(c)
  <2> SUFFICES ASSUME NEW n \in 1..(k + l + 1)
               PROVE  /\ pending'[n].do \in {"close", "move", "drop"}
                      /\ pending'[n].do = "close" => n <= k
                      /\ pending'[n].do = "move" =>
                           /\ k < n /\ pending'[n].into = d /\ pending'[n].at \in OwnFacts(c)
    OBVIOUS
  <2>1. CASE n \in 1..k
    BY <1>11, <1>16, <2>1
  <2>2. CASE n = k + l + 1
    BY <1>8, <1>16, <2>2
  <2>3. CASE n - k \in 1..l /\ n = k + (n - k)
    <3>1. pending'[n] = moving[n - k] /\ k < n
      BY <1>9, <1>16, <2>3
    <3> QED BY <1>13, <2>3, <3>1
  <2> QED BY <1>17, <2>1, <2>2, <2>3
<1>19. ASSUME said' = said PROVE ClosesFirst' /\ InsertsNew' /\ MovesOne'
  <2>1. InsertsNew'
    BY <1>15, <1>18 DEF InsertsNew
  <2>2. ClosesFirst'
    <3> SUFFICES ASSUME NEW m \in DOMAIN pending', NEW n \in DOMAIN pending',
                        pending'[m].do = "close",
                        pending'[n].do = "move" \/ pending'[n].do = "insert"
                 PROVE  m < n
      BY DEF ClosesFirst
    <3>1. m \in 1..(k + l + 1) /\ n \in 1..(k + l + 1) /\ m <= k /\ k < n
      BY <1>15, <1>18
    <3> QED BY <1>9, <3>1
  <2>3. ASSUME NEW f \in FactIds, StaysOpen(f)', Moves(f)' \/ said'[f].of = d
        PROVE  (f \in OpenFacts(c) \/ f \in OpenFacts(d)) /\ f \notin lost
    <3>1. said[f].open
      BY <1>19, <2>3 DEF StaysOpen
    <3>2. f \notin lost
      <4> SUFFICES ASSUME f \in lost PROVE FALSE
        OBVIOUS
      <4>1. PICK n \in 1..k : closing[n].at = f
        BY <1>12
      <4>2. n \in DOMAIN pending' /\ pending'[n] = closing[n] /\ closing[n].do = "close"
        BY <1>9, <1>10, <1>11, <1>15, <1>16
      <4> QED BY <2>3, <4>1, <4>2 DEF StaysOpen
    <3>3. said[f].of = c \/ said[f].of = d
      BY <1>15, <1>18, <1>19, <2>3 DEF Moves, OwnFacts
    <3> QED BY <3>1, <3>2, <3>3 DEF OpenFacts, OwnFacts
  <2>4. ASSUME NEW f \in FactIds, StaysOpen(f)', Moves(f)' \/ said'[f].of = d,
               NEW g \in FactIds, StaysOpen(g)', Moves(g)' \/ said'[g].of = d
        PROVE  f = g
    <3>1. /\ (f \in OpenFacts(c) \/ f \in OpenFacts(d)) /\ f \notin lost
          /\ (g \in OpenFacts(c) \/ g \in OpenFacts(d)) /\ g \notin lost
      BY <2>3, <2>4
    <3>2. \A a, b \in FactIds : said[a].open /\ said[b].open /\ said[a].of = said[b].of => a = b
      BY DEF WriteInv
    <3>3. \A x \in {c, d} : \A a, b \in OpenFacts(x) : a = b
      BY <3>2 DEF OpenFacts, OwnFacts
    <3>4. CASE OpenFacts(c) = {} \/ OpenFacts(d) = {}
      BY <3>1, <3>3, <3>4
    <3>5. CASE OpenFacts(c) # {} /\ OpenFacts(d) # {}
      <4>1. PICK e \in OpenFacts(c) \cup OpenFacts(d) : lost = {e}
        BY <1>3, <3>5
      <4> QED BY <3>1, <3>3, <4>1
    <3> QED BY <3>4, <3>5
  <2>5. MovesOne'
    <3> SUFFICES ASSUME NEW n \in DOMAIN pending', pending'[n].do = "move"
                 PROVE  /\ \A m \in DOMAIN pending' :
                             pending'[m].do = "move" => pending'[m].into = pending'[n].into
                        /\ \A f, g \in FactIds :
                             /\ StaysOpen(f)' /\ (Moves(f)' \/ said'[f].of = pending'[n].into)
                             /\ StaysOpen(g)' /\ (Moves(g)' \/ said'[g].of = pending'[n].into)
                             => f = g
      BY DEF MovesOne
    <3>1. \A m \in DOMAIN pending' : pending'[m].do = "move" => pending'[m].into = d
      BY <1>15, <1>18
    <3> QED BY <2>4, <3>1
  <2> QED BY <2>1, <2>2, <2>5
<1> QED BY <1>6, <1>15, <1>19

LEMMA BeginWriteKept == ASSUME WriteInv, BeginWrite PROVE WriteInv'
<1> USE DEF BeginWrite
<1>1. ASSUME pending' \in Seq(Statements) /\ (said' = said => ClosesFirst' /\ InsertsNew' /\ MovesOne')
      PROVE  WriteInv'
  BY <1>1 DEF WriteInv
<1>2. CASE LearnFact
  BY <1>1, <1>2, LearnFactKept
<1>3. CASE MergeConcepts
  BY <1>1, <1>3, MergeConceptsKept
<1>4. PICK T : T = Statements
  OBVIOUS
<1>5. ASSUME pending' \in Seq(T),
             \A n \in DOMAIN pending' : pending'[n].do \notin {"insert", "move"}
      PROVE  WriteInv'
  <2>1. ClosesFirst' /\ InsertsNew' /\ MovesOne'
    BY <1>5 DEF ClosesFirst, InsertsNew, MovesOne
  <2> QED BY <1>1, <1>4, <1>5, <2>1
<1>6. CASE DeleteConcept
  <2>1. PICK c \in there : pending' = <<[do |-> "drop", at |-> c], [do |-> "forget", at |-> c]>>
    BY <1>6 DEF DeleteConcept
  <2> DEFINE drop == [do |-> "drop", at |-> c]
             forget == [do |-> "forget", at |-> c]
  <2>2. /\ drop \in [do : {"touch", "drop", "forget"}, at : Concepts]
        /\ forget \in [do : {"touch", "drop", "forget"}, at : Concepts]
    BY DEF WriteInv
  <2>3. drop \in T /\ forget \in T /\ drop.do = "drop" /\ forget.do = "forget"
    BY <1>4, <2>2 DEF Statements
  <2>4. pending' = <<drop, forget>>
    BY <2>1
  <2> HIDE DEF drop, forget
  <2>5. pending' \in Seq(T) /\ \A n \in DOMAIN pending' : pending'[n].do \notin {"insert", "move"}
    BY <2>3, <2>4
  <2> QED BY <1>5, <2>5
<1>7. CASE RetireOne
  <2>1. PICK f \in FactIds : pending' = <<CloseFact(f)>>
    BY <1>7 DEF RetireOne
  <2>2. CloseFact(f) \in [do : {"close", "confirm"}, at : FactIds] /\ CloseFact(f).do = "close"
    BY DEF CloseFact
  <2>3. CloseFact(f) \in T
    BY <1>4, <2>2 DEF Statements
  <2>4. pending' \in Seq(T) /\ \A n \in DOMAIN pending' : pending'[n].do \notin {"insert", "move"}
    BY <2>1, <2>2, <2>3
  <2> QED BY <1>5, <2>4
<1> QED BY <1>2, <1>3, <1>6, <1>7

\* What one statement does to the facts.
StatementDoes(s) ==
  /\ s.do \in {"touch", "drop"} => said' = said
  /\ s.do = "close" => \A f \in FactIds :
       said'[f] = IF f = s.at THEN [said[f] EXCEPT !.open = FALSE] ELSE said[f]
  /\ s.do = "confirm" => \A f \in FactIds :
       said'[f] = IF f = s.at THEN [said[f] EXCEPT !.sure = TRUE] ELSE said[f]
  /\ s.do = "move" => \A f \in FactIds :
       said'[f] = IF f = s.at THEN [said[f] EXCEPT !.of = s.into] ELSE said[f]
  /\ s.do = "insert" => \A f \in FactIds : said'[f] = IF f = s.at THEN s.row ELSE said[f]
  /\ s.do = "forget" => \A f \in FactIds :
       said'[f] = IF said[f].of = s.at THEN GoneFact ELSE said[f]

LEMMA StatementTyped ==
  ASSUME WriteInv, Statement, NEW s, s = Head(pending)
  PROVE  /\ s \in Statements /\ s = pending[1] /\ 1 \in DOMAIN pending
         /\ StatementDoes(s) /\ said' \in [FactIds -> Rows]
         /\ there' \subseteq Concepts /\ changed' \in [Concepts -> Nat]
<1>1. PICK T : T = Statements
  OBVIOUS
<1>2. pending \in Seq(T) /\ pending # <<>>
  BY <1>1 DEF WriteInv, Statement
<1>3. s \in T /\ s = pending[1] /\ 1 \in DOMAIN pending
  BY <1>2
<1>4. /\ s.do \in {"touch", "close", "confirm", "move", "drop", "insert", "forget"}
      /\ s.do \in {"touch", "drop", "forget"} => s.at \in Concepts
      /\ s.do \in {"close", "confirm", "move", "insert"} => s.at \in FactIds
      /\ s.do = "insert" => s.row \in Rows
      /\ s.do = "move" => s.into \in Concepts
  BY <1>1, <1>3, StatementFields
<1>5. said \in [FactIds -> Rows] /\ there \subseteq Concepts /\ changed \in [Concepts -> Nat]
      /\ wrote \in Nat
  BY DEF WriteInv
<1>6. said' = CASE s.do = "close" -> [said EXCEPT ![s.at].open = FALSE]
                [] s.do = "confirm" -> [said EXCEPT ![s.at].sure = TRUE]
                [] s.do = "move" -> [said EXCEPT ![s.at].of = s.into]
                [] s.do = "insert" -> [said EXCEPT ![s.at] = s.row]
                [] s.do = "forget" ->
                     [f \in FactIds |-> IF said[f].of = s.at THEN GoneFact ELSE said[f]]
                [] OTHER -> said
  BY DEF Statement
<1>7. StatementDoes(s)
  BY <1>4, <1>5, <1>6 DEF StatementDoes
<1>8. said' \in [FactIds -> Rows]
  <2>1. GoneFact \in Rows
    BY DEF GoneFact, NoFact, Rows
  <2>2. /\ \A r \in Rows : [r EXCEPT !.open = FALSE] \in Rows
        /\ \A r \in Rows : [r EXCEPT !.sure = TRUE] \in Rows
        /\ \A r \in Rows, c \in Concepts : [r EXCEPT !.of = c] \in Rows
    BY DEF Rows
  <2>3. PICK R : R = Rows
    OBVIOUS
  <2>4. CASE s.do \in {"touch", "drop"}
    BY <1>5, <1>6, <2>4
  <2>5. CASE s.do = "close"
    <3>1. said' = [said EXCEPT ![s.at] = [said[s.at] EXCEPT !.open = FALSE]]
      BY <1>6, <2>5
    <3> QED BY <1>4, <1>5, <2>2, <2>3, <2>5, <3>1
  <2>6. CASE s.do = "confirm"
    <3>1. said' = [said EXCEPT ![s.at] = [said[s.at] EXCEPT !.sure = TRUE]]
      BY <1>6, <2>6
    <3> QED BY <1>4, <1>5, <2>2, <2>3, <2>6, <3>1
  <2>7. CASE s.do = "move"
    <3>1. said' = [said EXCEPT ![s.at] = [said[s.at] EXCEPT !.of = s.into]]
      BY <1>6, <2>7
    <3> QED BY <1>4, <1>5, <2>2, <2>3, <2>7, <3>1
  <2>8. CASE s.do = "insert"
    BY <1>4, <1>5, <1>6, <2>3, <2>8
  <2>9. CASE s.do = "forget"
    <3>1. said' = [f \in FactIds |-> IF said[f].of = s.at THEN GoneFact ELSE said[f]]
      BY <1>6, <2>9
    <3> QED BY <1>5, <2>1, <2>3, <3>1
  <2> QED BY <1>4, <2>4, <2>5, <2>6, <2>7, <2>8, <2>9
<1>9. there' \subseteq Concepts
  BY <1>4, <1>5 DEF Statement
<1>10. changed' \in [Concepts -> Nat]
  BY <1>4, <1>5 DEF Statement
<1> QED BY <1>1, <1>3, <1>7, <1>8, <1>9, <1>10

\* A statement leaves the list shorter; only an insert or a move may make a
\* second fact of a concept true.
LEMMA StatementKept == ASSUME WriteInv, Statement PROVE WriteInv'
<1>1. PICK s : s = Head(pending)
  OBVIOUS
<1>2. /\ s \in Statements /\ s = pending[1] /\ 1 \in DOMAIN pending
      /\ StatementDoes(s) /\ said' \in [FactIds -> Rows]
      /\ there' \subseteq Concepts /\ changed' \in [Concepts -> Nat]
  BY <1>1, StatementTyped
<1>3. /\ s.do \in {"touch", "close", "confirm", "move", "drop", "insert", "forget"}
      /\ s.do \in {"close", "confirm", "move", "insert"} => s.at \in FactIds
      /\ s.do = "insert" => s.row \in Rows
      /\ s.do = "move" => s.into \in Concepts
  BY <1>2, StatementFields
<1>4. /\ pending' \in Seq(Statements)
      /\ \A n \in DOMAIN pending' :
           n \in Nat /\ n + 1 \in DOMAIN pending /\ n + 1 # 1 /\ pending'[n] = pending[n + 1]
      /\ \A n \in DOMAIN pending : n # 1 =>
           n \in Nat /\ n - 1 \in DOMAIN pending' /\ pending'[n - 1] = pending[n]
  <2>1. PICK T : T = Statements
    OBVIOUS
  <2>2. pending \in Seq(T) /\ pending # <<>> /\ pending' = Tail(pending)
    BY <2>1 DEF WriteInv, Statement
  <2> QED BY <2>1, <2>2
<1>5. steady' \cap Concepts \subseteq there'
  BY DEF WriteInv, Statement
<1>6. wrote' \in Nat
  BY DEF WriteInv, Statement
<1>7. ClosesFirst'
  <2> SUFFICES ASSUME NEW m \in DOMAIN pending', NEW n \in DOMAIN pending',
                      pending'[m].do = "close",
                      pending'[n].do = "move" \/ pending'[n].do = "insert"
               PROVE  m < n
    BY DEF ClosesFirst
  <2>1. /\ m + 1 \in DOMAIN pending /\ pending[m + 1].do = "close" /\ m \in Nat /\ n \in Nat
        /\ n + 1 \in DOMAIN pending /\ (pending[n + 1].do = "move" \/ pending[n + 1].do = "insert")
    BY <1>4
  <2>2. m + 1 < n + 1
    BY <2>1 DEF ClosesFirst, WriteInv
  <2> QED BY <2>1, <2>2
<1>8. \A f : Moves(f)' => Moves(f)
  BY <1>4 DEF Moves
<1> DEFINE OneOpen == \A f, g \in FactIds : said[f].open /\ said[g].open /\ said[f].of = said[g].of => f = g
<1>9. OneOpen /\ said \in [FactIds -> Rows] /\ ClosesFirst /\ InsertsNew /\ MovesOne
  BY DEF WriteInv
<1>10. SUFFICES OneOpen' /\ InsertsNew' /\ MovesOne'
  BY <1>2, <1>4, <1>5, <1>6, <1>7 DEF WriteInv
<1>11. CASE s.do \in {"touch", "drop", "close", "confirm", "forget"}
  <2>1. \A f \in FactIds : said'[f].open => said[f].open /\ said'[f].of = said[f].of
    BY <1>2, <1>9, <1>11 DEF StatementDoes, GoneFact, NoFact, Rows
  <2>2. \A f \in FactIds : s.do = "close" /\ s.at = f => ~said'[f].open
    BY <1>2, <1>9 DEF StatementDoes, Rows
  <2>3. \A f \in FactIds : StaysOpen(f)' => StaysOpen(f)
    <3> SUFFICES ASSUME NEW f \in FactIds, StaysOpen(f)',
                        NEW n \in DOMAIN pending, pending[n].do = "close"
                 PROVE  pending[n].at # f
      BY <2>1 DEF StaysOpen
    <3>1. CASE n = 1
      BY <1>2, <2>2, <3>1 DEF StaysOpen
    <3>2. CASE n # 1
      BY <1>4, <3>2 DEF StaysOpen
    <3> QED BY <3>1, <3>2
  <2>4. OneOpen'
    BY <1>9, <2>1
  <2>5. InsertsNew'
    <3> SUFFICES ASSUME NEW n \in DOMAIN pending', pending'[n].do = "insert"
                 PROVE  /\ said'[pending'[n].at] = NoFact
                        /\ \A f \in FactIds : StaysOpen(f)' => said'[f].of # pending'[n].row.of
                        /\ \A m \in DOMAIN pending' : m # n => pending'[m].do \in {"touch", "close"}
      BY DEF InsertsNew
    <3>1. n + 1 \in DOMAIN pending /\ n + 1 # 1 /\ pending'[n] = pending[n + 1] /\ n \in Nat
      BY <1>4
    <3>2. /\ said[pending[n + 1].at] = NoFact
          /\ \A f \in FactIds : StaysOpen(f) => said[f].of # pending[n + 1].row.of
          /\ \A m \in DOMAIN pending : m # n + 1 => pending[m].do \in {"touch", "close"}
      BY <1>9, <3>1 DEF InsertsNew
    <3>3. s.do \in {"touch", "close"}
      BY <1>2, <3>1, <3>2
    <3>4. pending[n + 1].at \in FactIds
      BY <1>4, <3>1, StatementFields
    <3>5. [NoFact EXCEPT !.open = FALSE] = NoFact
      <4>1. PICK r : r = NoFact
        OBVIOUS
      <4>2. r \in Rows /\ ~r.open
        BY <4>1 DEF NoFact, Rows
      <4>3. [r EXCEPT !.open = FALSE] = r
        BY <4>2 DEF Rows
      <4> QED BY <4>1, <4>3
    <3>6. said'[pending'[n].at] = NoFact
      <4>1. PICK p \in FactIds : p = pending'[n].at /\ said[p] = NoFact
        BY <3>1, <3>2, <3>4
      <4>2. CASE s.do = "touch"
        BY <1>2, <4>1, <4>2 DEF StatementDoes
      <4>3. CASE s.do = "close"
        <5>1. said'[p] = IF p = s.at THEN [said[p] EXCEPT !.open = FALSE] ELSE said[p]
          BY <1>2, <4>3 DEF StatementDoes
        <5> QED BY <3>5, <4>1, <5>1
      <4> QED BY <3>3, <4>2, <4>3
    <3>7. \A f \in FactIds : StaysOpen(f)' => said'[f].of # pending'[n].row.of
      BY <2>1, <2>3, <3>1, <3>2 DEF StaysOpen
    <3>8. \A m \in DOMAIN pending' : m # n => pending'[m].do \in {"touch", "close"}
      BY <1>4, <3>1, <3>2
    <3> QED BY <3>6, <3>7, <3>8
  <2>6. MovesOne'
    <3> SUFFICES ASSUME NEW n \in DOMAIN pending', pending'[n].do = "move"
                 PROVE  /\ \A m \in DOMAIN pending' :
                             pending'[m].do = "move" => pending'[m].into = pending'[n].into
                        /\ \A f, g \in FactIds :
                             /\ StaysOpen(f)' /\ (Moves(f)' \/ said'[f].of = pending'[n].into)
                             /\ StaysOpen(g)' /\ (Moves(g)' \/ said'[g].of = pending'[n].into)
                             => f = g
      BY DEF MovesOne
    <3>1. n + 1 \in DOMAIN pending /\ pending'[n] = pending[n + 1]
      BY <1>4
    <3>2. /\ \A m \in DOMAIN pending :
               pending[m].do = "move" => pending[m].into = pending[n + 1].into
          /\ \A f, g \in FactIds :
               /\ StaysOpen(f) /\ (Moves(f) \/ said[f].of = pending[n + 1].into)
               /\ StaysOpen(g) /\ (Moves(g) \/ said[g].of = pending[n + 1].into)
               => f = g
      BY <1>9, <3>1 DEF MovesOne
    <3>3. \A f \in FactIds : StaysOpen(f)' /\ (Moves(f)' \/ said'[f].of = pending'[n].into)
            => StaysOpen(f) /\ (Moves(f) \/ said[f].of = pending[n + 1].into)
      BY <1>8, <2>1, <2>3, <3>1 DEF StaysOpen
    <3>4. \A m \in DOMAIN pending' :
            pending'[m].do = "move" => pending'[m].into = pending'[n].into
      BY <1>4, <3>1, <3>2
    <3> QED BY <3>2, <3>3, <3>4
  <2> QED BY <2>4, <2>5, <2>6
<1>12. CASE s.do \in {"move", "insert"}
  <2>1. \A n \in DOMAIN pending : pending[n].do # "close"
    <3> SUFFICES ASSUME NEW n \in DOMAIN pending, pending[n].do = "close" PROVE FALSE
      OBVIOUS
    <3>1. n < 1
      BY <1>2, <1>9, <1>12 DEF ClosesFirst
    <3>2. n # 1
      BY <1>2, <1>12
    <3>3. n \in Nat /\ n - 1 \in DOMAIN pending' /\ n - 1 \in Nat
      BY <1>4, <3>2
    <3> QED BY <3>1, <3>3
  <2>2. \A f \in FactIds : StaysOpen(f) = said[f].open
    BY <1>9, <2>1 DEF StaysOpen, Rows
  <2>3. CASE s.do = "move"
    <3>1. \A f \in FactIds : said'[f].open = said[f].open
            /\ said'[f].of = IF f = s.at THEN s.into ELSE said[f].of
      BY <1>2, <1>9, <2>3 DEF StatementDoes, Rows
    <3>2. /\ \A m \in DOMAIN pending : pending[m].do = "move" => pending[m].into = s.into
          /\ \A f, g \in FactIds :
               /\ said[f].open /\ (Moves(f) \/ said[f].of = s.into)
               /\ said[g].open /\ (Moves(g) \/ said[g].of = s.into)
               => f = g
      BY <1>2, <1>9, <2>2, <2>3 DEF MovesOne
    <3>3. Moves(s.at)
      BY <1>2, <2>3 DEF Moves
    <3>4. \A f \in FactIds : said'[f].of = s.into => Moves(f) \/ said[f].of = s.into
      BY <3>1, <3>3
    <3>5. OneOpen'
      BY <1>9, <3>1, <3>2, <3>4
    <3>6. \A n \in DOMAIN pending' : pending'[n].do # "insert"
      <4> SUFFICES ASSUME NEW n \in DOMAIN pending', pending'[n].do = "insert" PROVE FALSE
        OBVIOUS
      <4>1. n + 1 \in DOMAIN pending /\ n + 1 # 1 /\ pending[n + 1].do = "insert"
        BY <1>4
      <4>2. pending[1].do \in {"touch", "close"}
        BY <1>2, <1>9, <4>1 DEF InsertsNew
      <4> QED BY <1>2, <2>3, <4>2
    <3>7. MovesOne'
      <4>1. \A n \in DOMAIN pending' : pending'[n].do = "move" => pending'[n].into = s.into
        BY <1>4, <3>2
      <4>2. \A f \in FactIds : StaysOpen(f)' => said[f].open
        BY <3>1 DEF StaysOpen
      <4> QED BY <1>8, <3>2, <3>4, <4>1, <4>2 DEF MovesOne
    <3>8. InsertsNew'
      BY <3>6 DEF InsertsNew
    <3> QED BY <3>5, <3>7, <3>8
  <2>4. CASE s.do = "insert"
    <3>1. \A f \in FactIds : said[f].open => said[f].of # s.row.of
      BY <1>2, <1>9, <2>2, <2>4 DEF InsertsNew
    <3>2. OneOpen'
      BY <1>2, <1>9, <2>4, <3>1 DEF StatementDoes
    <3>3. \A n \in DOMAIN pending' : pending'[n].do \in {"touch", "close"}
      BY <1>2, <1>4, <1>9, <2>4 DEF InsertsNew
    <3>4. InsertsNew' /\ MovesOne'
      BY <3>3 DEF InsertsNew, MovesOne
    <3> QED BY <3>2, <3>4
  <2> QED BY <1>12, <2>3, <2>4
<1> QED BY <1>3, <1>11, <1>12

\* What a statement does to what a reading goes by.
LEMMA StatementSpares ==
  ASSUME WriteInv, Statement
  PROVE  /\ steady' \subseteq steady
         /\ \A f \in steady' \cap FactIds : said'[f] = said[f]
         /\ \A f \in FactIds : ~said[f].open /\ said[f] # NoFact =>
              ~said'[f].open /\ said'[f] # NoFact
<1>1. PICK s : s = Head(pending)
  OBVIOUS
<1>2. s \in Statements /\ s = pending[1] /\ 1 \in DOMAIN pending /\ StatementDoes(s)
  BY <1>1, StatementTyped
<1>3. /\ s.do \in {"touch", "close", "confirm", "move", "drop", "insert", "forget"}
      /\ s.do \in {"close", "confirm", "move", "insert"} => s.at \in FactIds
      /\ s.do = "move" => s.into \in Concepts
  BY <1>2, StatementFields
<1>4. said \in [FactIds -> Rows] /\ InsertsNew
  BY DEF WriteInv
<1>5. ASSUME NEW f \in FactIds, ~said[f].open, said[f] # NoFact
      PROVE  ~said'[f].open /\ said'[f] # NoFact
  <2>1. said[f] \in Rows
    BY <1>4
  <2>2. CASE s.do \in {"touch", "drop"}
    BY <1>2, <1>5, <2>2 DEF StatementDoes
  <2>3. CASE s.do = "close"
    <3>1. [said[f] EXCEPT !.open = FALSE] = said[f]
      BY <1>5, <2>1 DEF Rows
    <3> QED BY <1>2, <1>5, <2>3, <3>1 DEF StatementDoes
  <2>4. CASE s.do = "confirm"
    <3>1. ~[said[f] EXCEPT !.sure = TRUE].open /\ [said[f] EXCEPT !.sure = TRUE].sure
      BY <1>5, <2>1 DEF Rows
    <3>2. ~NoFact.sure
      BY DEF NoFact
    <3>3. said'[f] = IF f = s.at THEN [said[f] EXCEPT !.sure = TRUE] ELSE said[f]
      BY <1>2, <2>4 DEF StatementDoes
    <3>4. CASE f = s.at
      BY <3>1, <3>2, <3>3, <3>4
    <3> QED BY <1>5, <3>3, <3>4
  <2>5. CASE s.do = "move"
    <3>1. ~[said[f] EXCEPT !.of = s.into].open /\ [said[f] EXCEPT !.of = s.into].of = s.into
      BY <1>5, <2>1 DEF Rows
    <3>2. NoFact.of \notin Concepts
      BY RecallAssumption DEF NoFact
    <3>3. said'[f] = IF f = s.at THEN [said[f] EXCEPT !.of = s.into] ELSE said[f]
      BY <1>2, <2>5 DEF StatementDoes
    <3>4. CASE f = s.at
      BY <1>3, <2>5, <3>1, <3>2, <3>3, <3>4
    <3> QED BY <1>5, <3>3, <3>4
  <2>6. CASE s.do = "insert"
    <3>1. said[s.at] = NoFact
      BY <1>2, <1>4, <2>6 DEF InsertsNew
    <3> QED BY <1>2, <1>5, <2>6, <3>1 DEF StatementDoes
  <2>7. CASE s.do = "forget"
    BY <1>2, <1>5, <2>7 DEF StatementDoes, GoneFact, NoFact
  <2> QED BY <1>3, <2>2, <2>3, <2>4, <2>5, <2>6, <2>7
<1>6. steady' \subseteq steady /\ \A f \in steady' \cap FactIds : said'[f] = said[f]
  BY DEF Statement
<1> QED BY <1>5, <1>6

-----------------------------------------------------------------------------
\* The reading.

LEMMA WordsCounted ==
  \A c \in Concepts : \A terms : Cardinality(WordsOf[c] \cap terms) \in Nat
<1> SUFFICES ASSUME NEW c \in Concepts, NEW terms PROVE Cardinality(WordsOf[c] \cap terms) \in Nat
  OBVIOUS
<1>1. IsFiniteSet(WordsOf[c]) /\ WordsOf[c] \cap terms \subseteq WordsOf[c]
  BY RecallAssumption
<1> QED BY <1>1, FS_Subset, FS_CardinalityType

\* What the calls that write leave a reading with.
LEMMA ReadStill ==
  ASSUME ReadInv, recall' = recall, steady' \subseteq steady,
         \A f \in steady' \cap FactIds : said'[f] = said[f],
         \A f \in FactIds : ~said[f].open /\ said[f] # NoFact => ~said'[f].open /\ said'[f] # NoFact
  PROVE  ReadInv'
<1>1. recall \in Readings /\ recall.shut \subseteq FactIds
  BY DEF ReadInv, Readings
<1>2. /\ recall' \in Readings
      /\ recall'.step \in {"nodes", "edges", "named", "facts"} => recall'.what # "lint"
      /\ recall'.step \in {"count", "twins", "orphans"} => recall'.what = "lint"
      /\ recall'.step \notin {"orphans", "told"} => recall'.told = {} /\ recall'.lines = {}
      /\ FoundOnce' /\ (recall'.what = "lint" => {t.fact : t \in ToldTrue'} \cap recall'.shut = {})
  BY DEF ReadInv, FoundOnce, Recalling, Seen, ToldTrue
<1>3. NamedFound'
  BY DEF ReadInv, NamedFound, Recalling, WordsNamed
<1>4. ShutStays'
  BY <1>1 DEF ReadInv, ShutStays
<1>5. ASSUME recall.step = "told", recall.what # "lint"
      PROVE  NothingTwice' /\ StillFactsTold' /\ FullyNamedFirst'
  <2>1. NothingTwice /\ StillFactsTold /\ FullyNamedFirst
    BY <1>5 DEF ReadInv, Recalling
  <2>2. NothingTwice'
    BY <2>1 DEF NothingTwice, ToldTrue
  <2>3. StillFactsTold'
    <3> SUFFICES ASSUME NEW f \in steady' \cap FactIds, said'[f].of \in recall'.lines
                 PROVE  said'[f].open <=> \E t \in ToldTrue' : t.fact = f /\ t.concept = said'[f].of
      BY DEF StillFactsTold
    <3>1. f \in steady \cap FactIds /\ said'[f] = said[f] /\ ToldTrue' = ToldTrue
      BY DEF ToldTrue
    <3>2. said[f].open <=> \E t \in ToldTrue : t.fact = f /\ t.concept = said[f].of
      BY <2>1, <3>1 DEF StillFactsTold
    <3> QED BY <3>1, <3>2
  <2>4. FullyNamedFirst'
    BY <2>1 DEF FullyNamedFirst, WordsNamed
  <2> QED BY <2>2, <2>3, <2>4
<1>6. Recalling("told")' /\ recall'.what # "lint" => NothingTwice' /\ StillFactsTold' /\ FullyNamedFirst'
  BY <1>5 DEF Recalling
<1> QED BY <1>2, <1>3, <1>4, <1>6 DEF ReadInv

LEMMA AskMemoryKept == ASSUME WriteInv, ReadInv, AskMemory PROVE WriteInv' /\ ReadInv'
<1>1. PICK what \in {"seed", "query", "lint"}, text \in Questions, on \in BOOLEAN :
      \E limit \in LimitsOf(what) :
        LET terms == SearchTerms(text)
            first == CASE what = "seed" /\ (~on \/ SeedLimit = 0) -> "told"
                       [] what # "lint" /\ terms # {} -> "nodes"
                       [] what = "query" /\ text # <<>> -> "told"
                       [] OTHER -> "recent"
        IN  /\ what = "lint" => text = <<>>
            /\ what # "seed" => on
            /\ recall' = [NoReading EXCEPT !.step = first, !.what = what, !.limit = limit,
                                            !.terms = terms]
  BY DEF AskMemory
<1>2. PICK terms : terms = SearchTerms(text)
  OBVIOUS
<1>3. PICK first : first = CASE what = "seed" /\ (~on \/ SeedLimit = 0) -> "told"
                             [] what # "lint" /\ terms # {} -> "nodes"
                             [] what = "query" /\ text # <<>> -> "told"
                             [] OTHER -> "recent"
  OBVIOUS
<1>4. PICK limit \in LimitsOf(what) :
        recall' = [NoReading EXCEPT !.step = first, !.what = what, !.limit = limit, !.terms = terms]
  BY <1>1, <1>2, <1>3
<1>5. terms \in SUBSET SomeWords /\ (what = "lint" => terms = {}) /\ limit \in Nat
  <2>1. terms \subseteq {text[n] : n \in DOMAIN text}
    BY <1>2 DEF SearchTerms
  <2>2. text = <<>> => DOMAIN text = {}
    OBVIOUS
  <2>3. what = "lint" => terms = {}
    BY <1>1, <2>1, <2>2
  <2>4. limit \in Nat
    BY <1>4, RecallAssumption DEF LimitsOf
  <2> QED BY <2>1, <2>3, <2>4 DEF SomeWords
<1>6. /\ first \in {"told", "nodes", "recent"}
      /\ first = "nodes" => what # "lint"
      /\ first = "recent" => terms = {}
      /\ what = "lint" => first = "recent"
  BY <1>1, <1>3, <1>5
<1>7. recall' = [step |-> first, what |-> what, limit |-> limit, terms |-> terms,
                 found |-> {}, missed |-> {}, left |-> {}, shut |-> {}, bare |-> {}, lines |-> {}, told |-> {}]
  BY <1>4 DEF NoReading
<1>8. /\ recall'.step = first /\ recall'.what = what /\ recall'.terms = terms
      /\ recall'.found = {} /\ recall'.shut = {} /\ recall'.told = {} /\ recall'.lines = {}
  BY <1>7
<1>9. recall' \in Readings
  BY <1>5, <1>6, <1>7 DEF Readings
<1>10. steady' \cap Concepts \subseteq there'
  BY RecallAssumption DEF AskMemory, FactIds
<1>11. WriteInv'
  BY <1>10 DEF AskMemory, WriteInv, ClosesFirst, InsertsNew, MovesOne, StaysOpen, Moves
<1>12. NamedFound'
  <2> SUFFICES ASSUME first = "recent", what # "lint", NEW c \in Concepts,
                      WordsNamed(c)' >= FullyNamed
               PROVE  FALSE
    BY <1>6, <1>8 DEF NamedFound
  <2>1. WordsOf[c] \cap recall'.terms = {}
    BY <1>6, <1>8
  <2>2. WordsNamed(c)' = 0
    BY <2>1, FS_EmptySet DEF WordsNamed
  <2> QED BY <2>2 DEF FullyNamed
<1>13. FoundOnce'
  BY <1>6, <1>8 DEF FoundOnce, Recalling
<1>14. ShutStays' /\ ToldTrue' = {}
  BY <1>8 DEF ShutStays, ToldTrue
<1>15. NothingTwice' /\ StillFactsTold' /\ FullyNamedFirst'
  BY <1>8, <1>14 DEF NothingTwice, StillFactsTold, FullyNamedFirst
<1>16. ReadInv'
  BY <1>6, <1>8, <1>9, <1>12, <1>13, <1>14, <1>15 DEF ReadInv
<1> QED BY <1>11, <1>16

LEMMA WritesStill == ASSUME WriteInv, UNCHANGED Writes PROVE WriteInv'
BY DEF Writes, WriteInv, ClosesFirst, InsertsNew, MovesOne, StaysOpen, Moves

LEMMA CandidateTyped ==
  ASSUME WriteInv, NEW c \in Concepts, NEW n \in Nat
  PROVE  /\ Candidate(c, n) \in [concept : Concepts, named : Nat, changed : Nat]
         /\ Candidate(c, n).concept = c /\ Candidate(c, n).named = n
BY DEF WriteInv, Candidate

\* A step before anything is told has to keep this much.
LEMMA StillReading ==
  ASSUME ReadInv, UNCHANGED Writes, recall' \in Readings,
         recall'.step \in {"edges", "named", "recent", "facts"}, recall'.what = recall.what,
         recall'.terms = recall.terms, recall'.shut = recall.shut,
         recall'.told = recall.told, recall'.lines = recall.lines,
         recall.step \notin {"orphans", "told"},
         recall.what # "lint", FoundOnce', NamedFound'
  PROVE  ReadInv'
<1>1. recall.told = {} /\ recall.lines = {}
  BY DEF ReadInv
<1>2. ShutStays'
  BY DEF ReadInv, ShutStays, Writes
<1> QED BY <1>1, <1>2 DEF ReadInv, Recalling

LEMMA ReadNodesKept == ASSUME WriteInv, ReadInv, ReadNodes PROVE ReadInv'
<1>0. PICK T \in SUBSET {c \in there : WordsOf[c] \cap recall.terms # {}} :
        recall' = [recall EXCEPT !.step = "edges",
          !.missed = {c \in there : WordsOf[c] \cap recall.terms # {}} \ T,
          !.found = {Candidate(c, Cardinality(WordsOf[c] \cap recall.terms)) : c \in T}]
  BY DEF ReadNodes, TopOf
<1> DEFINE named == {Candidate(c, Cardinality(WordsOf[c] \cap recall.terms)) : c \in T}
<1> DEFINE others == {c \in there : WordsOf[c] \cap recall.terms # {}} \ T
<1>1. recall.step = "nodes" /\ UNCHANGED Writes
      /\ recall' = [recall EXCEPT !.step = "edges", !.missed = others, !.found = named]
  BY <1>0 DEF ReadNodes, Recalling
<1>2. recall \in Readings /\ recall.what # "lint" /\ there \subseteq Concepts
      /\ steady \cap Concepts \subseteq there /\ T \subseteq there
  BY <1>0, <1>1 DEF ReadInv, WriteInv
<1>3. /\ named \subseteq [concept : Concepts, named : Nat, changed : Nat]
      /\ \A c \in T :
           \E x \in named : x.concept = c /\ x.named = Cardinality(WordsOf[c] \cap recall.terms)
      /\ \A x, y \in named : x.concept = y.concept => x = y
  <2>1. \A c \in T : c \in Concepts /\ Cardinality(WordsOf[c] \cap recall.terms) \in Nat
    BY <1>2, WordsCounted
  <2>2. \A c \in T :
          LET x == Candidate(c, Cardinality(WordsOf[c] \cap recall.terms)) IN
          /\ x \in [concept : Concepts, named : Nat, changed : Nat]
          /\ x.concept = c /\ x.named = Cardinality(WordsOf[c] \cap recall.terms)
    BY <2>1, CandidateTyped
  <2>3. \A x \in named : \E c \in T :
          x = Candidate(c, Cardinality(WordsOf[c] \cap recall.terms))
    OBVIOUS
  <2>4. \A c \in T :
          Candidate(c, Cardinality(WordsOf[c] \cap recall.terms)) \in named
    OBVIOUS
  <2> HIDE DEF named
  <2>5. named \subseteq [concept : Concepts, named : Nat, changed : Nat]
    BY <2>2, <2>3
  <2>6. \A x, y \in named : x.concept = y.concept => x = y
    <3> SUFFICES ASSUME NEW x \in named, NEW y \in named, x.concept = y.concept PROVE x = y
      OBVIOUS
    <3>1. PICK c \in T : x = Candidate(c, Cardinality(WordsOf[c] \cap recall.terms))
      BY <2>3
    <3>2. PICK d \in T : y = Candidate(d, Cardinality(WordsOf[d] \cap recall.terms))
      BY <2>3
    <3>3. c = d
      BY <2>2, <3>1, <3>2
    <3> QED BY <3>1, <3>2, <3>3
  <2>7. \A c \in T :
          \E x \in named : x.concept = c /\ x.named = Cardinality(WordsOf[c] \cap recall.terms)
    BY <2>2, <2>4
  <2> QED BY <2>5, <2>6, <2>7
<1> HIDE DEF named
<1>9. others \in SUBSET Concepts
      /\ \A c \in there : WordsOf[c] \cap recall.terms # {} => c \in T \/ c \in others
  BY <1>2
<1> HIDE DEF others
<1>4. /\ recall'.step = "edges" /\ recall'.found = named /\ recall'.what = recall.what
      /\ recall'.missed = others
      /\ recall'.terms = recall.terms /\ recall'.shut = recall.shut
      /\ recall'.told = recall.told /\ recall'.lines = recall.lines
  BY <1>1, <1>2 DEF Readings
<1>5. recall' \in Readings
  BY <1>1, <1>2, <1>3, <1>9 DEF Readings
<1>6. FoundOnce'
  BY <1>3, <1>4 DEF FoundOnce, Recalling
<1>7. NamedFound'
  <2> SUFFICES ASSUME NEW c \in steady' \cap Concepts, WordsNamed(c)' >= FullyNamed
               PROVE  \/ \E x \in recall'.found : x.concept = c /\ x.named >= FullyNamed
                      \/ c \in recall'.missed
    BY DEF NamedFound
  <2>1. c \in there /\ c \in Concepts
    BY <1>1, <1>2 DEF Writes
  <2>2. WordsNamed(c)' = Cardinality(WordsOf[c] \cap recall.terms)
    BY <1>4 DEF WordsNamed
  <2>3. WordsOf[c] \cap recall.terms # {}
    <3>1. Cardinality({}) = 0
      BY FS_EmptySet
    <3> QED BY <2>2, <3>1 DEF FullyNamed
  <2> QED BY <1>3, <1>4, <1>9, <2>1, <2>2, <2>3
<1> QED BY <1>1, <1>2, <1>4, <1>5, <1>6, <1>7, StillReading

LEMMA ReadEdgesKept == ASSUME WriteInv, ReadInv, ReadEdges PROVE ReadInv'
<1> DEFINE others == {said[f].of : f \in {g \in FactIds : IsRow(g) /\ said[g].says \in recall.terms}}
                       \ Seen
<1>1. recall.step = "edges" /\ recall' = [recall EXCEPT !.step = "named", !.left = others]
      /\ UNCHANGED Writes
  BY DEF ReadEdges, Recalling
<1>2. recall \in Readings /\ recall.what # "lint"
  BY <1>1 DEF ReadInv
<1>3. others \subseteq Concepts /\ others \cap Seen = {}
  BY DEF IsRow
<1> HIDE DEF others
<1>4. /\ recall'.step = "named" /\ recall'.left = others /\ recall'.what = recall.what
      /\ recall'.terms = recall.terms /\ recall'.missed = recall.missed /\ recall'.found = recall.found /\ recall'.shut = recall.shut
      /\ recall'.told = recall.told /\ recall'.lines = recall.lines
  BY <1>1, <1>2 DEF Readings
<1>5. recall' \in Readings
  BY <1>1, <1>2, <1>3 DEF Readings
<1>6. FoundOnce'
  BY <1>3, <1>4 DEF ReadInv, FoundOnce, Seen
<1>7. NamedFound'
  BY <1>1, <1>2, <1>4 DEF ReadInv, NamedFound, WordsNamed, Writes, Recalling
<1> QED BY <1>1, <1>2, <1>4, <1>5, <1>6, <1>7, StillReading

LEMMA ReadNamedKept == ASSUME WriteInv, ReadInv, ReadNamed PROVE ReadInv'
<1>1. PICK c \in recall.left :
        recall' = [recall EXCEPT !.left = @ \ {c},
                     !.found = @ \cup (IF c \in there THEN {Candidate(c, 1)} ELSE {})]
  BY DEF ReadNamed
<1>2. recall.step = "named" /\ UNCHANGED Writes
  BY DEF ReadNamed, Recalling
<1>3. recall \in Readings /\ recall.what # "lint" /\ c \in Concepts /\ recall.left \cap Seen = {}
  BY <1>2 DEF ReadInv, FoundOnce, Recalling, Readings
<1>4. PICK more : more = IF c \in there THEN {Candidate(c, 1)} ELSE {}
  OBVIOUS
<1>5. more \subseteq [concept : Concepts, named : Nat, changed : Nat]
      /\ \A x, y \in more : x = y /\ x.concept = c
  BY <1>3, <1>4, CandidateTyped
<1>6. recall' = [recall EXCEPT !.left = recall.left \ {c}, !.found = recall.found \cup more]
  BY <1>1, <1>4
<1>7. /\ recall'.step = "named" /\ recall'.left = recall.left \ {c} /\ recall'.what = recall.what
      /\ recall'.terms = recall.terms /\ recall'.missed = recall.missed /\ recall'.found = recall.found \cup more
      /\ recall'.shut = recall.shut /\ recall'.told = recall.told /\ recall'.lines = recall.lines
  BY <1>2, <1>3, <1>6 DEF Readings
<1>8. recall' \in Readings
  <2>1. recall'.left \in SUBSET Concepts
        /\ recall'.found \in SUBSET [concept : Concepts, named : Nat, changed : Nat]
    BY <1>3, <1>5, <1>7 DEF Readings
  <2> QED BY <1>3, <1>6, <1>7, <2>1 DEF Readings
<1>9. FoundOnce'
  <2>1. \A x \in recall.found : x.concept # c
    BY <1>3 DEF Seen
  <2>2. \A x, y \in recall'.found : x.concept = y.concept => x = y
    BY <1>5, <1>7, <2>1 DEF ReadInv, FoundOnce
  <2>3. recall'.left \cap Seen' = {}
    BY <1>3, <1>5, <1>7 DEF Seen
  <2> QED BY <2>2, <2>3 DEF FoundOnce
<1>10. NamedFound'
  <2> SUFFICES ASSUME NEW d \in steady' \cap Concepts, WordsNamed(d)' >= FullyNamed
               PROVE  \/ \E x \in recall'.found : x.concept = d /\ x.named >= FullyNamed
                      \/ d \in recall'.missed
    BY DEF NamedFound
  <2>1. d \in steady \cap Concepts /\ WordsNamed(d) >= FullyNamed
    BY <1>2, <1>7 DEF WordsNamed, Writes
  <2>2. \/ \E x \in recall.found : x.concept = d /\ x.named >= FullyNamed
        \/ d \in recall.missed
    BY <1>2, <1>3, <2>1 DEF ReadInv, NamedFound, Recalling
  <2> QED BY <1>7, <2>2
<1> QED BY <1>2, <1>3, <1>7, <1>8, <1>9, <1>10, StillReading

LEMMA EndNamedKept == ASSUME WriteInv, ReadInv, EndNamed PROVE ReadInv'
<1>1. recall.step = "named" /\ UNCHANGED Writes
  BY DEF EndNamed, Recalling
<1>2. recall \in Readings /\ recall.what # "lint"
      /\ \A x, y \in recall.found : x.concept = y.concept => x = y
  BY <1>1 DEF ReadInv, FoundOnce
<1>3. \A c \in steady \cap Concepts : WordsNamed(c) >= FullyNamed =>
        \/ \E x \in recall.found : x.concept = c /\ x.named >= FullyNamed
        \/ c \in recall.missed
  BY <1>1, <1>2 DEF ReadInv, NamedFound, Recalling
<1>4. ASSUME recall.what = "seed", recall' = [recall EXCEPT !.step = "recent"] PROVE ReadInv'
  <2>1. /\ recall'.step = "recent" /\ recall'.what = recall.what /\ recall'.terms = recall.terms /\ recall'.missed = recall.missed
        /\ recall'.found = recall.found /\ recall'.shut = recall.shut
        /\ recall'.told = recall.told /\ recall'.lines = recall.lines
    BY <1>2, <1>4 DEF Readings
  <2>2. recall' \in Readings
    BY <1>2, <1>4 DEF Readings
  <2>3. FoundOnce'
    BY <1>2, <2>1 DEF FoundOnce, Recalling
  <2>4. NamedFound'
    BY <1>1, <1>3, <2>1 DEF NamedFound, WordsNamed, Writes
  <2> QED BY <1>1, <1>2, <2>1, <2>2, <2>3, <2>4, StillReading
<1>5. ASSUME recall.what = "query", NEW T \in TopOf(recall.found, recall.limit, BetterNamed),
             recall' = [recall EXCEPT !.step = "facts", !.found = T]
      PROVE  ReadInv'
  <2>1. T \subseteq recall.found /\ \A x \in recall.found \ T, y \in T : <<x, y>> \notin BetterNamed
    BY <1>5 DEF TopOf
  <2>2. /\ recall'.step = "facts" /\ recall'.what = recall.what /\ recall'.terms = recall.terms /\ recall'.missed = recall.missed
        /\ recall'.found = T /\ recall'.shut = recall.shut
        /\ recall'.told = recall.told /\ recall'.lines = recall.lines
    BY <1>2, <1>5 DEF Readings
  <2>3. T \in SUBSET [concept : Concepts, named : Nat, changed : Nat]
    BY <1>2, <2>1 DEF Readings
  <2>4. recall' \in Readings
    BY <1>2, <1>5, <2>3 DEF Readings
  <2>5. FoundOnce'
    BY <1>2, <2>1, <2>2 DEF FoundOnce, Recalling
  <2>6. NamedFound'
    <3> SUFFICES ASSUME NEW c \in steady' \cap Concepts, WordsNamed(c)' >= FullyNamed,
                        ~ \E x \in T : x.concept = c /\ x.named >= FullyNamed,
                        c \notin recall.missed
                 PROVE  \A y \in T : y.named > 0
      BY <1>5, <2>2 DEF NamedFound, Recalling
    <3>1. c \in steady \cap Concepts /\ WordsNamed(c) >= FullyNamed
      BY <1>1, <2>2 DEF WordsNamed, Writes
    <3>2. PICK x \in recall.found : x.concept = c /\ x.named >= FullyNamed
      BY <1>3, <3>1
    <3>3. x \in recall.found \ T
      BY <3>2
    <3> SUFFICES ASSUME NEW y \in T PROVE y.named > 0
      OBVIOUS
    <3>4. ~(x.named > y.named)
      BY <2>1, <3>3 DEF BetterNamed
    <3>5. x.named \in Nat /\ y.named \in Nat
      BY <1>2, <2>1 DEF Readings
    <3> QED BY <3>2, <3>4, <3>5 DEF FullyNamed
  <2> QED BY <1>1, <1>2, <2>2, <2>4, <2>5, <2>6, StillReading
<1> QED BY <1>4, <1>5 DEF EndNamed

LEMMA ReadRecentKept == ASSUME WriteInv, ReadInv, ReadRecent PROVE ReadInv'
<1>1. PICK T \in TopOf(there, recall.limit, Later) :
        recall' = [recall EXCEPT
          !.found = @ \cup {Candidate(c, 0) : c \in T \ Seen},
          !.step = IF recall.what = "lint" THEN "count" ELSE "facts",
          !.left = IF recall.what = "lint" THEN T ELSE {}]
  BY DEF ReadRecent
<1>2. recall.step = "recent" /\ UNCHANGED Writes
  BY DEF ReadRecent, Recalling
<1>3. recall \in Readings /\ there \subseteq Concepts /\ T \subseteq Concepts
      /\ \A x, y \in recall.found : x.concept = y.concept => x = y
  BY <1>2 DEF ReadInv, WriteInv, FoundOnce, TopOf
<1>4. PICK more : more = {Candidate(c, 0) : c \in T \ Seen}
  OBVIOUS
<1>5. \A x \in more : x \in [concept : Concepts, named : Nat, changed : Nat] /\ x.concept \notin Seen
  BY <1>3, <1>4, CandidateTyped
<1>6. \A x, y \in more : x.concept = y.concept => x = y
  BY <1>3, <1>4, CandidateTyped
<1>7. PICK next, rest : /\ next = IF recall.what = "lint" THEN "count" ELSE "facts"
                        /\ rest = IF recall.what = "lint" THEN T ELSE {}
  OBVIOUS
<1>8. recall' = [recall EXCEPT !.found = recall.found \cup more, !.step = next, !.left = rest]
  BY <1>1, <1>4, <1>7
<1>9. /\ recall'.step = next /\ recall'.what = recall.what /\ recall'.terms = recall.terms /\ recall'.missed = recall.missed
      /\ recall'.found = recall.found \cup more /\ recall'.shut = recall.shut
      /\ recall'.told = recall.told /\ recall'.lines = recall.lines
  BY <1>3, <1>8 DEF Readings
<1>10. recall'.found \in SUBSET [concept : Concepts, named : Nat, changed : Nat]
       /\ rest \in SUBSET Concepts /\ next \in {"count", "facts"}
  BY <1>3, <1>5, <1>7, <1>9 DEF Readings
<1>11. recall' \in Readings
  BY <1>3, <1>8, <1>9, <1>10 DEF Readings
<1>12. FoundOnce'
  <2>1. \A x \in recall.found : x.concept \in Seen
    BY DEF Seen
  <2>2. \A x, y \in recall'.found : x.concept = y.concept => x = y
    BY <1>3, <1>5, <1>6, <1>9, <2>1
  <2> QED BY <1>9, <1>10, <2>2 DEF FoundOnce, Recalling
<1>13. NamedFound'
  <2> SUFFICES ASSUME recall.what # "lint", NEW c \in steady' \cap Concepts,
                      WordsNamed(c)' >= FullyNamed
               PROVE  \/ \E x \in recall'.found : x.concept = c /\ x.named >= FullyNamed
                      \/ c \in recall'.missed
    BY <1>9 DEF NamedFound
  <2>1. c \in steady \cap Concepts /\ WordsNamed(c) >= FullyNamed
    BY <1>2, <1>9 DEF WordsNamed, Writes
  <2>2. \/ \E x \in recall.found : x.concept = c /\ x.named >= FullyNamed
        \/ c \in recall.missed
    BY <1>2, <2>1 DEF ReadInv, NamedFound, Recalling
  <2> QED BY <1>9, <2>2
<1>14. recall.told = {} /\ recall.lines = {}
  BY <1>2 DEF ReadInv
<1>15. ShutStays'
  BY <1>2, <1>9 DEF ReadInv, ShutStays, Writes
<1>16. recall'.step = "count" => recall'.what = "lint"
  BY <1>7, <1>9
<1>17. recall'.step = "facts" => recall'.what # "lint"
  BY <1>7, <1>9
<1>18. ToldTrue' = {}
  BY <1>9, <1>14 DEF ToldTrue
<1> QED BY <1>9, <1>10, <1>11, <1>12, <1>13, <1>14, <1>15, <1>16, <1>17, <1>18 DEF ReadInv, Recalling

LEMMA FactsTold ==
  ASSUME WriteInv, NEW C \in SUBSET Concepts
  PROVE  /\ Told(C) \subseteq [concept : Concepts, fact : FactIds, current : BOOLEAN]
         /\ \A t \in Told(C) : /\ t.fact \in FactIds /\ t.concept = said[t.fact].of
                               /\ t.current = said[t.fact].open
         /\ \A f \in FactIds : said[f].of \in C =>
              \E t \in Told(C) : t.fact = f /\ t.concept = said[f].of /\ t.current = said[f].open
         /\ \A t, u \in Told(C) : t.fact = u.fact => t = u
<1>1. said \in [FactIds -> Rows] /\ \A f \in FactIds : said[f].open \in BOOLEAN
  BY DEF WriteInv, Rows
<1>2. \A t \in Told(C) : \E f \in FactIds :
        said[f].of \in C /\ t = [concept |-> said[f].of, fact |-> f, current |-> said[f].open]
  BY DEF Told
<1>3. \A f \in FactIds : said[f].of \in C =>
        [concept |-> said[f].of, fact |-> f, current |-> said[f].open] \in Told(C)
  BY DEF Told
<1>4. \A t \in Told(C) : /\ t.fact \in FactIds /\ t.concept = said[t.fact].of
                         /\ t.current = said[t.fact].open /\ t.concept \in C
                         /\ t = [concept |-> said[t.fact].of, fact |-> t.fact, current |-> said[t.fact].open]
  BY <1>2
<1>5. Told(C) \subseteq [concept : Concepts, fact : FactIds, current : BOOLEAN]
  BY <1>1, <1>2
<1>6. \A t, u \in Told(C) : t.fact = u.fact => t = u
  BY <1>4
<1>7. \A f \in FactIds : said[f].of \in C =>
        \E t \in Told(C) : t.fact = f /\ t.concept = said[f].of /\ t.current = said[f].open
  BY <1>3
<1> QED BY <1>4, <1>5, <1>6, <1>7

\* A seed leaves a concept out for one the text does not name only when no word
\* of the text names it in full.
LEMMA NamedScoresMore ==
  ASSUME NEW x, NEW y, x.named \in Nat, y.named \in Nat, x.named >= FullyNamed,
         ~(SeedScore(x) > SeedScore(y))
  PROVE  y.named > 0
<1> SUFFICES ASSUME y.named = 0 PROVE FALSE
  OBVIOUS
<1>1. SeedScore(y) <= 24 /\ SeedScore(y) \in Nat
  BY DEF SeedScore, FullyNamed
<1>2. SeedScore(x) >= 30 /\ SeedScore(x) \in Nat
  BY DEF SeedScore, FullyNamed
<1> QED BY <1>1, <1>2

LEMMA ReadFactsKept == ASSUME WriteInv, ReadInv, ReadFacts PROVE ReadInv'
<1> DEFINE ranked == {p \in recall.found \X recall.found : SeedScore(p[1]) > SeedScore(p[2])}
<1>1. PICK T \in (IF recall.what = "seed" THEN TopOf(recall.found, recall.limit, ranked)
                  ELSE {recall.found}) :
        LET ofThis == {x.concept : x \in T} IN
        recall' = [recall EXCEPT !.step = "told", !.lines = ofThis, !.told = Concise(Told(ofThis))]
  BY DEF ReadFacts
<1>2. recall.step = "facts" /\ UNCHANGED Writes
  BY DEF ReadFacts, Recalling
<1>3. recall \in Readings /\ recall.what # "lint"
      /\ \A x, y \in recall.found : x.concept = y.concept => x = y
  BY <1>2 DEF ReadInv, FoundOnce
<1>4. /\ T \subseteq recall.found
      /\ recall.what # "seed" => T = recall.found
      /\ recall.what = "seed" => \A x \in recall.found \ T, y \in T : <<x, y>> \notin ranked
  BY <1>1 DEF TopOf
<1>5. \A x \in recall.found : x.concept \in Concepts /\ x.named \in Nat
  BY <1>3 DEF Readings
<1>6. PICK ofThis : ofThis = {x.concept : x \in T}
  OBVIOUS
<1>7. ofThis \in SUBSET Concepts
  BY <1>4, <1>5, <1>6
<1>8. PICK told : told = Concise(Told(ofThis))
  OBVIOUS
<1>9. recall' = [recall EXCEPT !.step = "told", !.lines = ofThis, !.told = told]
  BY <1>1, <1>6, <1>8
<1>10. /\ Told(ofThis) \subseteq [concept : Concepts, fact : FactIds, current : BOOLEAN]
       /\ \A t \in Told(ofThis) : /\ t.fact \in FactIds /\ t.concept = said[t.fact].of
                                 /\ t.current = said[t.fact].open
       /\ \A f \in FactIds : said[f].of \in ofThis =>
            \E t \in Told(ofThis) : t.fact = f /\ t.concept = said[f].of /\ t.current = said[f].open
       /\ \A t, u \in Told(ofThis) : t.fact = u.fact => t = u
  BY <1>7, FactsTold
<1>11. told \subseteq Told(ofThis) /\ \A t \in Told(ofThis) : t.current => t \in told
  BY <1>8 DEF Concise
<1>12. /\ recall'.step = "told" /\ recall'.what = recall.what /\ recall'.terms = recall.terms /\ recall'.missed = recall.missed
       /\ recall'.found = recall.found /\ recall'.shut = recall.shut
       /\ recall'.told = told /\ recall'.lines = ofThis
  BY <1>3, <1>9 DEF Readings
<1>13. recall' \in Readings
  <2>1. told \in SUBSET [concept : Concepts, fact : FactIds, current : BOOLEAN]
    BY <1>10, <1>11
  <2> QED BY <1>3, <1>7, <1>9, <2>1 DEF Readings
<1>14. FoundOnce' /\ NamedFound'
  BY <1>3, <1>12 DEF FoundOnce, NamedFound, Recalling
<1>15. ShutStays'
  BY <1>2, <1>12 DEF ReadInv, ShutStays, Writes
<1>16. said' = said /\ steady' = steady
  BY <1>2 DEF Writes
<1>17. NothingTwice'
  <2>1. \A t, u \in told : t.fact = u.fact => t = u
    BY <1>10, <1>11
  <2>2. ASSUME NEW t \in told, NEW u \in told, t.current, u.current, t.concept = u.concept
        PROVE  t = u
    <3>1. /\ t \in Told(ofThis) /\ u \in Told(ofThis)
          /\ said[t.fact].open /\ said[u.fact].open /\ said[t.fact].of = said[u.fact].of
      BY <1>10, <1>11, <2>2
    <3>2. t.fact = u.fact
      BY <1>10, <3>1 DEF WriteInv
    <3> QED BY <1>10, <3>1, <3>2
  <2> QED BY <1>12, <2>1, <2>2 DEF NothingTwice, ToldTrue
<1>18. StillFactsTold'
  <2> SUFFICES ASSUME NEW f \in steady' \cap FactIds, said'[f].of \in recall'.lines
               PROVE  said'[f].open <=> \E t \in ToldTrue' : t.fact = f /\ t.concept = said'[f].of
    BY DEF StillFactsTold
  <2>1. f \in FactIds /\ said[f].of \in ofThis
    BY <1>12, <1>16
  <2>2. ToldTrue' = {t \in told : t.current}
    BY <1>12 DEF ToldTrue
  <2>3. said[f].open \in BOOLEAN
    BY <2>1 DEF WriteInv, Rows
  <2>4. ASSUME said[f].open PROVE \E t \in ToldTrue' : t.fact = f /\ t.concept = said[f].of
    BY <1>10, <1>11, <2>1, <2>2, <2>4
  <2>5. ASSUME NEW t \in ToldTrue', t.fact = f PROVE said[f].open
    BY <1>10, <1>11, <2>2, <2>5
  <2> QED BY <1>16, <2>4, <2>5
<1>19. FullyNamedFirst'
  <2> SUFFICES ASSUME NEW c \in steady' \cap Concepts, WordsNamed(c)' >= FullyNamed,
                      c \notin ofThis, c \notin recall.missed, NEW y \in recall.found, y.concept \in ofThis
               PROVE  y.named > 0
    BY <1>12 DEF FullyNamedFirst
  <2>1. c \in steady \cap Concepts /\ WordsNamed(c) >= FullyNamed
    BY <1>12, <1>16 DEF WordsNamed
  <2>2. y \in T
    BY <1>3, <1>4, <1>6
  <2>3. \/ \E x \in recall.found : x.concept = c /\ x.named >= FullyNamed
        \/ \A x \in recall.found : x.named > 0
    BY <1>2, <1>3, <2>1 DEF ReadInv, NamedFound
  <2>4. CASE \A x \in recall.found : x.named > 0
    BY <2>4
  <2>5. ASSUME NEW x \in recall.found, x.concept = c, x.named >= FullyNamed PROVE y.named > 0
    <3>1. x \notin T
      BY <1>6, <2>5
    <3>2. <<x, y>> \notin ranked
      BY <1>4, <2>2, <3>1
    <3>3. ~(SeedScore(x) > SeedScore(y))
      BY <3>2
    <3> QED BY <1>5, <2>5, <3>3, NamedScoresMore
  <2> QED BY <2>3, <2>4, <2>5
<1> QED BY <1>3, <1>12, <1>13, <1>14, <1>15, <1>17, <1>18, <1>19 DEF ReadInv, Recalling

\* The linter never lists a fact as closed that it tells as true: a fact that is
\* closed stays closed.
LEMMA LintKept ==
  ASSUME WriteInv, ReadInv, CountFacts \/ ReadClosed \/ ReadTwins \/ ReadOrphans
  PROVE  ReadInv'
<1>1. UNCHANGED Writes /\ recall.step \in {"count", "twins", "orphans"}
  BY DEF CountFacts, ReadClosed, ReadTwins, ReadOrphans, Recalling
<1>2. recall \in Readings /\ recall.what = "lint"
      /\ \A x, y \in recall.found : x.concept = y.concept => x = y
  BY <1>1 DEF ReadInv, FoundOnce
<1>3. said' = said /\ said \in [FactIds -> Rows]
  BY <1>1 DEF Writes, WriteInv
<1>4. ASSUME recall' \in Readings, recall'.what = "lint", recall'.found = recall.found,
             recall'.step \in {"count", "twins", "orphans", "told"}, ShutStays',
             recall'.step \in {"count", "twins"} => recall'.told = {} /\ recall'.lines = {},
             \A t \in recall'.told : t.current => t.fact \notin recall'.shut
      PROVE  ReadInv'
  <2>2. FoundOnce' /\ NamedFound'
    BY <1>2, <1>4 DEF FoundOnce, NamedFound, Recalling
  <2>3. {t.fact : t \in ToldTrue'} \cap recall'.shut = {}
    BY <1>4 DEF ToldTrue
  <2> QED BY <1>4, <2>2, <2>3 DEF ReadInv
<1>5. ShutStays
  BY DEF ReadInv
<1>6. CASE CountFacts
  <2>1. PICK c \in recall.left :
          recall' = [recall EXCEPT !.left = @ \ {c},
                       !.bare = IF OwnFacts(c) = {} THEN @ \cup {c} ELSE @]
    BY <1>6 DEF CountFacts
  <2>2. PICK bare : bare = IF OwnFacts(c) = {} THEN recall.bare \cup {c} ELSE recall.bare
    OBVIOUS
  <2>3. recall' = [recall EXCEPT !.left = recall.left \ {c}, !.bare = bare]
    BY <2>1, <2>2
  <2>4. bare \in SUBSET Concepts /\ recall.left \ {c} \in SUBSET Concepts
    BY <1>2, <2>2 DEF Readings
  <2>5. recall' \in Readings
    BY <1>2, <2>3, <2>4 DEF Readings
  <2>6. /\ recall'.step = recall.step /\ recall'.what = recall.what /\ recall'.found = recall.found
        /\ recall'.shut = recall.shut /\ recall'.told = recall.told /\ recall'.lines = recall.lines
    BY <1>2, <2>3 DEF Readings
  <2>7. recall.step = "count" /\ recall.told = {} /\ recall.lines = {}
    BY <1>6 DEF CountFacts, Recalling, ReadInv
  <2>8. ShutStays'
    BY <1>3, <1>5, <2>6 DEF ShutStays
  <2> QED BY <1>2, <1>4, <2>5, <2>6, <2>7, <2>8
<1>7. CASE ReadClosed
  <2>1. PICK shut : shut = {f \in FactIds : IsRow(f) /\ ~said[f].open}
    OBVIOUS
  <2>2. recall' = [recall EXCEPT !.step = "twins", !.shut = shut]
    BY <1>7, <2>1 DEF ReadClosed
  <2>3. recall' \in Readings
    BY <1>2, <2>1, <2>2 DEF Readings
  <2>4. /\ recall'.step = "twins" /\ recall'.what = recall.what /\ recall'.found = recall.found
        /\ recall'.shut = shut /\ recall'.told = recall.told /\ recall'.lines = recall.lines
    BY <1>2, <2>2 DEF Readings
  <2>5. recall.told = {} /\ recall.lines = {}
    BY <1>7 DEF ReadClosed, Recalling, ReadInv
  <2>6. \A f \in shut : ~said[f].open /\ said[f] # NoFact
    BY <2>1, RecallAssumption DEF IsRow, NoFact
  <2>7. ShutStays'
    BY <1>3, <2>4, <2>6 DEF ShutStays
  <2> QED BY <1>2, <1>4, <2>3, <2>4, <2>5, <2>7
<1>8. ASSUME NEW C \in SUBSET Concepts, NEW next \in {"orphans", "told"},
             recall' = [recall EXCEPT !.step = next, !.told = recall.told \cup Told(C)]
      PROVE  ReadInv'
  <2>1. PICK told : told = recall.told \cup Told(C)
    OBVIOUS
  <2>2. recall' = [recall EXCEPT !.step = next, !.told = told]
    BY <1>8, <2>1
  <2>3. /\ Told(C) \subseteq [concept : Concepts, fact : FactIds, current : BOOLEAN]
        /\ \A t \in Told(C) : t.current = said[t.fact].open
    BY FactsTold
  <2>4. told \in SUBSET [concept : Concepts, fact : FactIds, current : BOOLEAN]
    BY <1>2, <2>1, <2>3 DEF Readings
  <2>5. recall' \in Readings
    BY <1>2, <2>2, <2>4 DEF Readings
  <2>6. /\ recall'.step = next /\ recall'.what = recall.what /\ recall'.found = recall.found
        /\ recall'.shut = recall.shut /\ recall'.told = told /\ recall'.lines = recall.lines
    BY <1>2, <2>2 DEF Readings
  <2>7. \A t \in recall.told : t.current => t.fact \notin recall.shut
    BY <1>2 DEF ReadInv, ToldTrue
  <2>8. \A t \in told : t.current => t.fact \notin recall.shut
    BY <1>5, <2>1, <2>3, <2>7 DEF ShutStays
  <2>9. ShutStays'
    BY <1>3, <1>5, <2>6 DEF ShutStays
  <2> QED BY <1>2, <1>4, <2>5, <2>6, <2>8, <2>9
<1>9. CASE ReadTwins
  <2>1. recall.told = {}
    BY <1>9 DEF ReadTwins, Recalling, ReadInv
  <2>2. PICK twins : twins = {c \in Seen : \E d \in Seen : {c, d} \in Twins}
    OBVIOUS
  <2>3. twins \in SUBSET Concepts
    BY <1>2, <2>2 DEF Seen, Readings
  <2>4. recall' = [recall EXCEPT !.step = "orphans", !.told = Told(twins)]
    BY <1>9, <2>2 DEF ReadTwins
  <2>5. recall' = [recall EXCEPT !.step = "orphans", !.told = recall.told \cup Told(twins)]
    BY <2>1, <2>4
  <2> QED BY <1>8, <2>3, <2>5
<1>10. CASE ReadOrphans
  <2>1. recall' = [recall EXCEPT !.step = "told", !.told = recall.told \cup Told(recall.bare)]
    BY <1>10 DEF ReadOrphans
  <2>2. recall.bare \in SUBSET Concepts
    BY <1>2 DEF Readings
  <2> QED BY <1>8, <2>1, <2>2
<1> QED BY <1>6, <1>7, <1>9, <1>10

LEMMA RecallInvInitially == MemoryInit => RecallInv
<1> SUFFICES ASSUME MemoryInit PROVE ReadInv
  BY WriteInvInitially DEF RecallInv
<1>1. /\ recall.step = "idle" /\ recall.what = "none" /\ recall.found = {} /\ recall.told = {}
      /\ recall.lines = {} /\ recall.shut = {}
  BY DEF MemoryInit, NoReading
<1>2. recall \in Readings
  BY DEF MemoryInit, NoReading, Readings
<1>3. FoundOnce /\ NamedFound /\ ShutStays
  BY <1>1 DEF FoundOnce, NamedFound, ShutStays, Recalling
<1> QED BY <1>1, <1>2, <1>3 DEF ReadInv, Recalling

LEMMA RecallInvKept == RecallInv /\ [RecallNext]_recallVars => RecallInv'
<1> SUFFICES ASSUME WriteInv, ReadInv, [RecallNext]_recallVars PROVE WriteInv' /\ ReadInv'
  BY DEF RecallInv
<1>1. CASE BeginWrite
  <2>1. recall' = recall /\ steady' = steady /\ said' = said
    BY <1>1 DEF BeginWrite
  <2> QED BY <1>1, <2>1, BeginWriteKept, ReadStill
<1>2. CASE Statement
  <2>1. recall' = recall
    BY <1>2 DEF Statement
  <2> QED BY <1>2, <2>1, StatementKept, StatementSpares, ReadStill
<1>3. CASE StopWriting
  <2>1. recall' = recall /\ steady' = steady /\ said' = said
    BY <1>3 DEF StopWriting
  <2>2. PICK S : S = Statements
    OBVIOUS
  <2>3. pending' \in Seq(S) /\ DOMAIN pending' = {}
    BY <1>3 DEF StopWriting
  <2>4. ClosesFirst' /\ InsertsNew' /\ MovesOne'
    BY <2>3 DEF ClosesFirst, InsertsNew, MovesOne
  <2>5. WriteInv'
    BY <1>3, <2>2, <2>3, <2>4 DEF StopWriting, WriteInv
  <2> QED BY <2>1, <2>5, ReadStill
<1>4. CASE AskMemory
  BY <1>4, AskMemoryKept
<1>5. CASE \/ ReadNodes \/ ReadEdges \/ ReadNamed \/ EndNamed \/ ReadRecent \/ ReadFacts
           \/ CountFacts \/ ReadClosed \/ ReadTwins \/ ReadOrphans
  <2>1. WriteInv'
    BY <1>5, WritesStill DEF ReadNodes, ReadEdges, ReadNamed, EndNamed, ReadRecent, ReadFacts,
                              CountFacts, ReadClosed, ReadTwins, ReadOrphans
  <2>2. ReadInv'
    BY <1>5, ReadNodesKept, ReadEdgesKept, ReadNamedKept, EndNamedKept, ReadRecentKept,
       ReadFactsKept, LintKept
  <2> QED BY <2>1, <2>2
<1>6. CASE UNCHANGED recallVars
  <2>1. recall' = recall /\ steady' = steady /\ said' = said /\ UNCHANGED Writes
    BY <1>6 DEF recallVars, Writes
  <2> QED BY <2>1, WritesStill, ReadStill
<1> QED BY <1>1, <1>2, <1>3, <1>4, <1>5, <1>6 DEF RecallNext

\* One reading of the memory agrees with itself and with all that stood still,
\* whatever is learned, retired, merged or deleted meanwhile (facts_of_many,
\* seed_score, lint).
THEOREM ReadingAgrees == RecallSpec => []RecallAgrees
<1>1. RecallInv => RecallAgrees
  BY DEF RecallInv, ReadInv, RecallAgrees
<1> QED BY <1>1, RecallInvInitially, RecallInvKept, PTL DEF RecallSpec


-----------------------------------------------------------------------------
\* What a filter leaves of a list (Picks).

Rising(places, m, g) ==
  /\ places \in SUBSET Nat /\ m \in Nat /\ g \in [1..m -> places]
  /\ \A i, j \in 1..m : i < j => g[i] < g[j]
  /\ \A p \in places : \E i \in 1..m : g[i] = p

\* The places in their order are the places that come first, second, and so on.
LEMMA PlacesAre ==
  ASSUME NEW places, NEW m, NEW g, Rising(places, m, g)
  PROVE  /\ IsFiniteSet(places) /\ Cardinality(places) = m
         /\ \A n \in 1..m : PlaceOf(places, n) = g[n]
<1>1. /\ places \in SUBSET Nat /\ m \in Nat /\ g \in [1..m -> places]
      /\ \A i, j \in 1..m : i < j => g[i] < g[j]
      /\ \A p \in places : \E i \in 1..m : g[i] = p
  BY DEF Rising
<1>2. \A i \in 1..m : g[i] \in places /\ g[i] \in Nat
  BY <1>1
<1>3. \A i, j \in 1..m : i # j => g[i] # g[j]
  BY <1>1, <1>2
<1>4. ASSUME NEW n \in 0..m
      PROVE  /\ IsFiniteSet({g[i] : i \in 1..n}) /\ Cardinality({g[i] : i \in 1..n}) = n
  <2>1. n \in Nat /\ 1..n \subseteq 1..m
    BY <1>1
  <2> DEFINE h == [i \in 1..n |-> g[i]]
  <2>2. h \in Bijection(1..n, {g[i] : i \in 1..n})
    <3>1. h \in [1..n -> {g[i] : i \in 1..n}]
      OBVIOUS
    <3>2. \A i, j \in 1..n : h[i] = h[j] => i = j
      BY <1>3, <2>1
    <3>3. \A e \in {g[i] : i \in 1..n} : \E i \in 1..n : h[i] = e
      OBVIOUS
    <3> QED BY <3>1, <3>2, <3>3 DEF Bijection, Injection, Surjection, IsInjective
  <2>3. IsFiniteSet(1..n) /\ Cardinality(1..n) = n
    BY <2>1, FS_Interval
  <2>4. ExistsBijection(1..n, {g[i] : i \in 1..n})
    BY <2>2 DEF ExistsBijection
  <2> HIDE DEF h
  <2> QED BY <2>3, <2>4, FS_Bijection
<1>5. places = {g[i] : i \in 1..m}
  BY <1>1, <1>2
<1>6. m \in 0..m
  BY <1>1
<1>7. IsFiniteSet(places) /\ Cardinality(places) = m
  BY <1>4, <1>5, <1>6
<1>8. ASSUME NEW n \in 1..m PROVE Cardinality({q \in places : q <= g[n]}) = n
  <2>1. {q \in places : q <= g[n]} = {g[i] : i \in 1..n}
    <3>1. ASSUME NEW q \in places, q <= g[n] PROVE q \in {g[i] : i \in 1..n}
      <4>1. PICK i \in 1..m : g[i] = q
        BY <1>1
      <4>2. ~(n < i)
        BY <1>1, <1>2, <3>1, <4>1
      <4>3. i \in 1..n
        BY <1>1, <4>2
      <4> QED BY <4>1, <4>3
    <3>2. ASSUME NEW i \in 1..n PROVE g[i] \in places /\ g[i] <= g[n]
      <4>1. i \in 1..m /\ (i < n \/ i = n)
        BY <1>1
      <4> QED BY <1>1, <1>2, <4>1
    <3> QED BY <3>1, <3>2
  <2>2. n \in 0..m
    BY <1>1
  <2> QED BY <1>4, <2>1, <2>2
<1>9. ASSUME NEW n \in 1..m PROVE PlaceOf(places, n) = g[n]
  <2>1. ASSUME NEW p \in places, Cardinality({q \in places : q <= p}) = n PROVE p = g[n]
    <3>1. PICK i \in 1..m : g[i] = p
      BY <1>1
    <3>2. i = n
      BY <1>8, <2>1, <3>1
    <3> QED BY <3>1, <3>2
  <2>2. g[n] \in places /\ Cardinality({q \in places : q <= g[n]}) = n
    BY <1>2, <1>8
  <2> QED BY <2>1, <2>2 DEF PlaceOf
<1> QED BY <1>7, <1>9

LEMMA PickedIs ==
  ASSUME NEW s, NEW places, NEW m, NEW g, Rising(places, m, g)
  PROVE  Picked(s, places) = [n \in 1..m |-> s[g[n]]]
BY PlacesAre DEF Picked

\* The places of a finite set come in an order.
LEMMA PlacesRise ==
  ASSUME NEW places \in SUBSET Nat, IsFiniteSet(places)
  PROVE  /\ Cardinality(places) \in Nat
         /\ Rising(places, Cardinality(places), [n \in 1..Cardinality(places) |-> PlaceOf(places, n)])
<1> DEFINE Upto(p) == {q \in places : q <= p}
           size == Cardinality(places)
           rank == [p \in places |-> Cardinality(Upto(p))]
<1>1. size \in Nat
  BY FS_CardinalityType
<1>2. ASSUME NEW p \in places PROVE Cardinality(Upto(p)) \in 1..size
  <2>1. Upto(p) \in SUBSET places /\ IsFiniteSet(Upto(p))
    BY FS_Subset
  <2>2. Cardinality(Upto(p)) \in Nat /\ Cardinality(Upto(p)) <= size
    BY <2>1, FS_Subset, FS_CardinalityType
  <2>3. p \in Upto(p)
    OBVIOUS
  <2>4. Cardinality(Upto(p)) # 0
    BY <2>1, <2>3, FS_EmptySet
  <2> QED BY <1>1, <2>2, <2>4
<1>3. ASSUME NEW p \in places, NEW q \in places, p < q
      PROVE  Cardinality(Upto(p)) < Cardinality(Upto(q))
  <2>0. p \in Nat /\ q \in Nat
    OBVIOUS
  <2>1. Upto(p) \in SUBSET Upto(q) /\ q \in Upto(q) /\ q \notin Upto(p)
    <3>1. \A e \in places : e \in Nat /\ (e <= p => e <= q)
      BY <1>3, <2>0
    <3>2. q <= q /\ ~(q <= p)
      BY <1>3, <2>0
    <3> QED BY <3>1, <3>2
  <2>2. IsFiniteSet(Upto(q))
    BY FS_Subset
  <2>3. /\ Cardinality(Upto(p)) <= Cardinality(Upto(q))
        /\ Cardinality(Upto(q)) = Cardinality(Upto(p)) => Upto(q) = Upto(p)
    BY <2>1, <2>2, FS_Subset
  <2>4. Cardinality(Upto(p)) \in Nat /\ Cardinality(Upto(q)) \in Nat
    BY <1>1, <1>2
  <2> QED BY <2>1, <2>3, <2>4
<1>4. \A n : PlaceOf(places, n) = CHOOSE p \in places : Cardinality(Upto(p)) = n
  BY DEF PlaceOf
<1> HIDE DEF Upto
<1>5. rank \in Injection(places, 1..size)
  <2>1. \A p, q \in places : p # q => p < q \/ q < p
    OBVIOUS
  <2>2. \A p, q \in places : p # q => Cardinality(Upto(p)) # Cardinality(Upto(q))
    BY <1>1, <1>2, <1>3, <2>1
  <2> QED BY <1>2, <2>2 DEF Injection, IsInjective
<1>6. IsFiniteSet(1..size) /\ Cardinality(1..size) = size
  BY <1>1, FS_Interval
<1>7. rank \in Surjection(places, 1..size)
  BY <1>5, <1>6, FS_Injection
<1>8. ASSUME NEW n \in 1..size
      PROVE  PlaceOf(places, n) \in places /\ Cardinality(Upto(PlaceOf(places, n))) = n
  <2>1. \E p \in places : Cardinality(Upto(p)) = n
    BY <1>7 DEF Surjection
  <2> QED BY <1>4, <2>1
<1> HIDE DEF size
<1>9. ASSUME NEW i \in 1..size, NEW j \in 1..size, i < j PROVE PlaceOf(places, i) < PlaceOf(places, j)
  <2>1. PICK p, q : p = PlaceOf(places, i) /\ q = PlaceOf(places, j)
    OBVIOUS
  <2>2. p \in places /\ q \in places /\ Cardinality(Upto(p)) = i /\ Cardinality(Upto(q)) = j
    BY <1>8, <2>1
  <2>3. p # q /\ ~(q < p)
    BY <1>1, <1>3, <1>9, <2>2
  <2> QED BY <2>1, <2>2, <2>3
<1>10. ASSUME NEW p \in places PROVE \E n \in 1..size : PlaceOf(places, n) = p
  <2>1. PICK n \in 1..size : n = Cardinality(Upto(p))
    BY <1>2 DEF size
  <2>2. PICK q : q = PlaceOf(places, n)
    OBVIOUS
  <2>3. q \in places /\ Cardinality(Upto(q)) = Cardinality(Upto(p))
    BY <1>8, <2>1, <2>2
  <2>4. q = p
    <3>1. ~(p < q) /\ ~(q < p)
      BY <1>2, <1>3, <2>3
    <3> QED BY <2>3, <3>1
  <2> QED BY <2>2, <2>4
<1>11. Rising(places, size, [n \in 1..size |-> PlaceOf(places, n)])
  BY <1>1, <1>8, <1>9, <1>10 DEF Rising
<1> QED BY <1>1, <1>11 DEF size

\* The elements picked are elements of the list.
LEMMA PickedTyped ==
  ASSUME NEW U, NEW s \in Seq(U), NEW places \in SUBSET (DOMAIN s)
  PROVE  /\ IsFiniteSet(places) /\ Cardinality(places) \in Nat
         /\ Picked(s, places) \in Seq(U) /\ Len(Picked(s, places)) = Cardinality(places)
<1>1. DOMAIN s = 1..Len(s) /\ Len(s) \in Nat
  OBVIOUS
<1>2. IsFiniteSet(1..Len(s))
  BY <1>1, FS_Interval
<1>3. places \in SUBSET Nat /\ IsFiniteSet(places)
  BY <1>1, <1>2, FS_Subset
<1>4. PICK m : m = Cardinality(places)
  OBVIOUS
<1>5. m \in Nat /\ \A n \in 1..m : PlaceOf(places, n) \in places
  BY <1>3, <1>4, PlacesRise DEF Rising
<1>6. Picked(s, places) = [n \in 1..m |-> s[PlaceOf(places, n)]]
  BY <1>4 DEF Picked
<1>7. \A n \in 1..m : s[PlaceOf(places, n)] \in U
  BY <1>1, <1>5
<1>8. Picked(s, places) \in [1..m -> U]
  BY <1>6, <1>7
<1> QED BY <1>3, <1>4, <1>5, <1>8

\* Places of a list, and those of a list that follows it.
Joins(P, n, Q, R) == \A r : r \in R <=> r \in P \/ \E q \in Q : r = n + q
PicksJoin(s, P, t, Q, R) == Picked(s \o t, R) = Picked(s, P) \o Picked(t, Q)

\* A filter reads two lists one after the other.
LEMMA PickedJoined ==
  ASSUME NEW U, NEW s \in Seq(U), NEW t \in Seq(U),
         NEW P \in SUBSET (1..Len(s)), NEW Q \in SUBSET (1..Len(t)), NEW R,
         Joins(P, Len(s), Q, R)
  PROVE  PicksJoin(s, P, t, Q, R)
<1>1. PICK n, a, b : n = Len(s) /\ a = Cardinality(P) /\ b = Cardinality(Q)
  OBVIOUS
<1>2. /\ n \in Nat /\ Len(t) \in Nat /\ DOMAIN s = 1..n /\ DOMAIN t = 1..Len(t)
      /\ IsFiniteSet(1..n) /\ IsFiniteSet(1..Len(t))
  <2>1. n \in Nat /\ DOMAIN s = 1..n
    BY <1>1
  <2>2. Len(t) \in Nat /\ DOMAIN t = 1..Len(t)
    OBVIOUS
  <2>3. IsFiniteSet(1..n) /\ IsFiniteSet(1..Len(t))
    BY <2>1, <2>2, FS_Interval
  <2> QED BY <2>1, <2>2, <2>3
<1>3. P \in SUBSET Nat /\ IsFiniteSet(P) /\ Q \in SUBSET Nat /\ IsFiniteSet(Q)
  <2>1. P \in SUBSET (1..n) /\ Q \in SUBSET (1..Len(t))
    BY <1>1
  <2>2. IsFiniteSet(P) /\ IsFiniteSet(Q)
    BY <1>2, <2>1, FS_Subset
  <2>3. P \in SUBSET Nat /\ Q \in SUBSET Nat
    BY <1>2, <2>1
  <2> QED BY <2>2, <2>3
<1>4. PICK f, g : f = [k \in 1..a |-> PlaceOf(P, k)] /\ g = [k \in 1..b |-> PlaceOf(Q, k)]
  OBVIOUS
<1>5. a \in Nat /\ b \in Nat /\ Rising(P, a, f) /\ Rising(Q, b, g)
  BY <1>1, <1>3, <1>4, PlacesRise
<1>6. PICK h : h = [k \in 1..(a + b) |-> IF k <= a THEN f[k] ELSE n + g[k - a]]
  OBVIOUS
<1>7. R = P \cup {n + q : q \in Q}
  BY <1>1 DEF Joins
<1>8. /\ f \in [1..a -> P] /\ g \in [1..b -> Q]
      /\ \A i, j \in 1..a : i < j => f[i] < f[j]
      /\ \A i, j \in 1..b : i < j => g[i] < g[j]
      /\ \A p \in P : \E i \in 1..a : f[i] = p
      /\ \A p \in Q : \E i \in 1..b : g[i] = p
  BY <1>5 DEF Rising
<1>9. /\ \A k \in 1..a : f[k] \in P /\ f[k] \in 1..n
      /\ \A k \in 1..b : g[k] \in Q /\ g[k] \in 1..Len(t)
  <2>1. P \in SUBSET (1..n) /\ Q \in SUBSET (1..Len(t))
    BY <1>1
  <2> QED BY <1>8, <2>1
<1>10. \A k \in 1..(a + b) : \/ k \in 1..a /\ h[k] = f[k]
                             \/ ~(k <= a) /\ k - a \in 1..b /\ h[k] = n + g[k - a]
  <2> SUFFICES ASSUME NEW k \in 1..(a + b)
               PROVE  \/ k \in 1..a /\ h[k] = f[k]
                      \/ ~(k <= a) /\ k - a \in 1..b /\ h[k] = n + g[k - a]
    OBVIOUS
  <2>1. k <= a => k \in 1..a
    BY <1>5
  <2>2. ~(k <= a) => k - a \in 1..b
    BY <1>5
  <2> QED BY <1>6, <2>1, <2>2
<1>11. Rising(R, a + b, h)
  <2>1. R \in SUBSET Nat /\ a + b \in Nat
    <3>1. \A p \in P : p \in Nat
      BY <1>3
    <3>2. \A q \in Q : q \in Nat /\ n + q \in Nat
      BY <1>2, <1>3
    <3> QED BY <1>5, <1>7, <3>1, <3>2
  <2>2. \A k \in 1..(a + b) : h[k] \in R
    BY <1>7, <1>9, <1>10
  <2>3. h \in [1..(a + b) -> R]
    BY <1>6, <2>2
  <2>4. ASSUME NEW i \in 1..(a + b), NEW j \in 1..(a + b), i < j PROVE h[i] < h[j]
    <3>1. CASE i \in 1..a /\ h[i] = f[i] /\ j \in 1..a /\ h[j] = f[j]
      BY <1>8, <2>4, <3>1
    <3>2. CASE i \in 1..a /\ h[i] = f[i] /\ ~(j <= a) /\ j - a \in 1..b /\ h[j] = n + g[j - a]
      <4>1. f[i] \in 1..n /\ g[j - a] \in 1..Len(t)
        BY <1>9, <3>2
      <4>2. f[i] < n + g[j - a]
        BY <1>2, <4>1
      <4> QED BY <3>2, <4>2
    <3>3. CASE ~(i <= a) /\ i - a \in 1..b /\ h[i] = n + g[i - a]
               /\ ~(j <= a) /\ j - a \in 1..b /\ h[j] = n + g[j - a]
      <4>1. i - a < j - a
        BY <1>5, <2>4
      <4>2. g[i - a] < g[j - a]
        BY <1>8, <3>3, <4>1
      <4>3. g[i - a] \in 1..Len(t) /\ g[j - a] \in 1..Len(t)
        BY <1>9, <3>3
      <4>4. n + g[i - a] < n + g[j - a]
        BY <1>2, <4>2, <4>3
      <4> QED BY <3>3, <4>4
    <3>4. ~(~(i <= a) /\ j \in 1..a)
      BY <1>5, <2>4
    <3> QED BY <1>10, <3>1, <3>2, <3>3, <3>4
  <2>5. ASSUME NEW p \in R PROVE \E i \in 1..(a + b) : h[i] = p
    <3>1. CASE p \in P
      <4>1. PICK i \in 1..a : f[i] = p
        BY <1>8, <3>1
      <4>2. i \in 1..(a + b) /\ i <= a
        BY <1>5
      <4> QED BY <1>6, <4>1, <4>2
    <3>2. CASE p \in {n + q : q \in Q}
      <4>1. PICK q \in Q : p = n + q
        BY <3>2
      <4>2. PICK i \in 1..b : g[i] = q
        BY <1>8
      <4>3. a + i \in 1..(a + b) /\ ~(a + i <= a) /\ (a + i) - a = i
        BY <1>5
      <4> QED BY <1>6, <4>1, <4>2, <4>3
    <3> QED BY <1>7, <3>1, <3>2
  <2> QED BY <2>1, <2>3, <2>4, <2>5 DEF Rising
<1>12. PICK all, x, y : all = s \o t /\ x = Picked(s, P) /\ y = Picked(t, Q)
  OBVIOUS
<1>13. Picked(all, R) = [k \in 1..(a + b) |-> all[h[k]]]
  BY <1>11, PickedIs
<1>14. /\ x \in Seq(U) /\ y \in Seq(U) /\ Len(x) = a /\ Len(y) = b
       /\ x = [k \in 1..a |-> s[f[k]]] /\ y = [k \in 1..b |-> t[g[k]]]
  <2>1. x \in Seq(U) /\ y \in Seq(U) /\ Len(x) = a /\ Len(y) = b
    <3>1. P \in SUBSET (DOMAIN s) /\ Q \in SUBSET (DOMAIN t)
      OBVIOUS
    <3> QED BY <1>1, <1>12, <3>1, PickedTyped
  <2>2. x = [k \in 1..a |-> s[f[k]]]
    BY <1>5, <1>12, PickedIs
  <2>3. y = [k \in 1..b |-> t[g[k]]]
    BY <1>5, <1>12, PickedIs
  <2> QED BY <2>1, <2>2, <2>3
<1>15. ASSUME NEW k \in 1..(a + b) PROVE all[h[k]] = (x \o y)[k]
  <2>1. CASE k \in 1..a /\ h[k] = f[k]
    <3>1. f[k] \in 1..n
      BY <1>9, <2>1
    <3>2. all[f[k]] = s[f[k]]
      BY <1>1, <1>2, <1>12, <3>1
    <3>3. (x \o y)[k] = x[k]
      BY <1>5, <1>14, <2>1
    <3> QED BY <1>14, <2>1, <3>2, <3>3
  <2>2. CASE ~(k <= a) /\ k - a \in 1..b /\ h[k] = n + g[k - a]
    <3>1. g[k - a] \in 1..Len(t)
      BY <1>9, <2>2
    <3>2. all[n + g[k - a]] = t[g[k - a]]
      BY <1>1, <1>2, <1>12, <3>1
    <3>3. (x \o y)[k] = y[k - a]
      BY <1>5, <1>14, <2>2
    <3> QED BY <1>14, <2>2, <3>2, <3>3
  <2> QED BY <1>10, <2>1, <2>2
<1>16. x \o y = [k \in 1..(a + b) |-> (x \o y)[k]]
  <2>1. x \o y \in Seq(U) /\ Len(x \o y) = a + b
    <3>1. x \in Seq(U) /\ y \in Seq(U)
      BY <1>14
    <3>2. x \o y \in Seq(U) /\ Len(x \o y) = Len(x) + Len(y)
      BY <3>1, ConcatProperties
    <3> QED BY <1>14, <3>2
  <2>2. PICK z : z = x \o y
    OBVIOUS
  <2>3. z \in Seq(U) /\ Len(z) = a + b
    BY <2>1, <2>2
  <2>4. z = [k \in 1..(a + b) |-> z[k]]
    BY <2>3
  <2> QED BY <2>2, <2>4
<1>17. Picked(all, R) = x \o y
  BY <1>13, <1>15, <1>16
<1> QED BY <1>12, <1>17 DEF PicksJoin

\* A finite set of numbers has a least one.
LEMMA LeastThere ==
  ASSUME NEW S \in SUBSET Nat, IsFiniteSet(S), S # {}
  PROVE  \E m \in S : \A n \in S : m <= n
<1>1. PICK k, f : k = Cardinality(S) /\ f = [n \in 1..k |-> PlaceOf(S, n)]
  OBVIOUS
<1>2. /\ k \in Nat /\ f \in [1..k -> S] /\ (\A i, j \in 1..k : i < j => f[i] < f[j])
      /\ \A p \in S : \E i \in 1..k : f[i] = p
  BY <1>1, PlacesRise DEF Rising
<1>3. 1 \in 1..k
  <2>1. PICK p \in S : TRUE
    OBVIOUS
  <2>2. PICK i \in 1..k : f[i] = p
    BY <1>2
  <2> QED BY <1>2, <2>2
<1>4. ASSUME NEW n \in S PROVE f[1] <= n
  <2>1. PICK i \in 1..k : f[i] = n
    BY <1>2
  <2>2. i = 1 \/ 1 < i
    BY <1>2
  <2>3. f[1] \in Nat /\ n \in Nat
    BY <1>2, <1>3
  <2> QED BY <1>2, <1>3, <2>1, <2>2, <2>3
<1> QED BY <1>2, <1>3, <1>4

-----------------------------------------------------------------------------
\* The streamed answer (AnswerStream).

\* Two lists of lines with the same lines in the same order.
Alike(s, t) == Len(s) = Len(t) /\ \A n \in 1..Len(s) : Same(s[n], t[n])

\* The half of a line that has no second half yet.
OpenHalf == {[line |-> (arrived + 1) \div 2, half |-> 1, torn |-> t] :
               t \in {b \in BOOLEAN : b => lines[(arrived + 1) \div 2] = "wide"}}

AnswerInv ==
  /\ lines \in Seq(LineKinds) /\ arrived \in Nat /\ arrived <= 2 * Len(lines)
  /\ call \in {"asks", "reads", "answer", "error"}
  /\ content \in Seq(AnswerLines) /\ shown \in Seq(ShownLines)
  /\ call = "asks" => arrived = 0 /\ buffer = <<>> /\ content = <<>> /\ shown = <<>>
  /\ call = "reads" =>
       /\ arrived % 2 = 0 => buffer = <<>>
       /\ arrived % 2 = 1 => \E h \in OpenHalf : buffer = <<h>>
       /\ \A n \in 1..(arrived \div 2) : lines[n] # "done"
  /\ call # "error" =>
       /\ Alike(content, Among(Written, AnswerLines))
       /\ Alike(shown, Among(Written, ShownLines))


LEMMA HalfOf ==
  /\ \A a \in Nat : /\ a \div 2 \in Nat /\ a % 2 \in {0, 1} /\ a = 2 * (a \div 2) + (a % 2)
                    /\ (a + 1) \div 2 = (a \div 2) + (a % 2)
  /\ \A a \in Nat : /\ (2 * a) \div 2 = a /\ (2 * a) % 2 = 0
                    /\ (2 * a + 1) \div 2 = a /\ (2 * a + 1) % 2 = 1
<1>1. ASSUME NEW a \in Nat
      PROVE  /\ a \div 2 \in Nat /\ a % 2 \in {0, 1} /\ a = 2 * (a \div 2) + (a % 2)
             /\ (a + 1) \div 2 = (a \div 2) + (a % 2)
  <2>1. a \div 2 \in Nat
    OBVIOUS
  <2>2. a % 2 \in 0..1
    OBVIOUS
  <2>3. a = 2 * (a \div 2) + (a % 2)
    OBVIOUS
  <2>4. (a + 1) \div 2 = (a \div 2) + (a % 2)
    OBVIOUS
  <2> QED BY <2>1, <2>2, <2>3, <2>4
<1>2. ASSUME NEW a \in Nat
      PROVE  /\ (2 * a) \div 2 = a /\ (2 * a) % 2 = 0
             /\ (2 * a + 1) \div 2 = a /\ (2 * a + 1) % 2 = 1
  OBVIOUS
<1> QED BY <1>1, <1>2

LEMMA AlikeJoined ==
  ASSUME NEW U, NEW V, NEW a \in Seq(U), NEW b \in Seq(U), NEW c \in Seq(V), NEW d \in Seq(V),
         Alike(a, c), Alike(b, d)
  PROVE  Alike(a \o b, c \o d)
<1>1. Len(a) = Len(c) /\ Len(b) = Len(d)
      /\ (\A n \in 1..Len(a) : Same(a[n], c[n])) /\ (\A n \in 1..Len(b) : Same(b[n], d[n]))
  BY DEF Alike
<1>2. PICK m, k : m = Len(a) /\ k = Len(b)
  OBVIOUS
<1>3. m \in Nat /\ k \in Nat /\ m = Len(c) /\ k = Len(d)
  BY <1>1, <1>2
<1>4. /\ Len(a \o b) = m + k
      /\ \A n \in 1..(m + k) : (a \o b)[n] = IF n <= m THEN a[n] ELSE b[n - m]
  BY <1>2, ConcatProperties
<1>5. /\ Len(c \o d) = m + k
      /\ \A n \in 1..(m + k) : (c \o d)[n] = IF n <= m THEN c[n] ELSE d[n - m]
  BY <1>3, ConcatProperties
<1>6. ASSUME NEW n \in 1..(m + k) PROVE Same((a \o b)[n], (c \o d)[n])
  <2>1. CASE n <= m
    <3>1. n \in 1..m
      BY <1>3, <2>1
    <3> QED BY <1>1, <1>2, <1>4, <1>5, <2>1, <3>1
  <2>2. CASE ~(n <= m)
    <3>1. n - m \in 1..k
      BY <1>3, <2>2
    <3> QED BY <1>1, <1>2, <1>4, <1>5, <2>2, <3>1
  <2> QED BY <2>1, <2>2
<1> QED BY <1>4, <1>5, <1>6 DEF Alike

\* A line that was read reads as it was written, or is torn.
LEMMA SameKinds ==
  ASSUME NEW r, NEW l \in LineKinds, Same(r, l)
  PROVE  /\ r \in AnswerLines <=> l \in AnswerLines
         /\ r \in ShownLines <=> l \in ShownLines
         /\ r = "done" <=> l = "done"
BY DEF Same, AnswerLines, ShownLines, LineKinds, TornText

LEMMA AmongAlike ==
  ASSUME NEW U, NEW s \in Seq(U), NEW t \in Seq(LineKinds), Alike(s, t),
         NEW what \in {AnswerLines, ShownLines}
  PROVE  Alike(Among(s, what), Among(t, what))
<1>1. PICK m : m = Len(s)
  OBVIOUS
<1>2. m \in Nat /\ m = Len(t) /\ DOMAIN s = 1..m /\ DOMAIN t = 1..m
      /\ \A n \in 1..m : Same(s[n], t[n]) /\ t[n] \in LineKinds
  BY <1>1 DEF Alike
<1>3. \A n \in 1..m : s[n] \in what <=> t[n] \in what
  BY <1>2, SameKinds
<1>4. PICK at : at = {n \in DOMAIN s : s[n] \in what}
  OBVIOUS
<1>5. at = {n \in DOMAIN t : t[n] \in what} /\ at \in SUBSET (DOMAIN s) /\ at \in SUBSET (DOMAIN t)
      /\ at \in SUBSET (1..m)
  BY <1>2, <1>3, <1>4
<1>6. Among(s, what) = Picked(s, at) /\ Among(t, what) = Picked(t, at)
  BY <1>4, <1>5 DEF Among
<1>7. PICK k : k = Cardinality(at)
  OBVIOUS
<1>8. k \in Nat /\ Len(Picked(s, at)) = k /\ Len(Picked(t, at)) = k /\ IsFiniteSet(at)
  BY <1>5, <1>7, PickedTyped
<1>9. \A n \in 1..k : PlaceOf(at, n) \in at
  <2>1. at \in SUBSET Nat
    BY <1>2, <1>5
  <2> QED BY <1>7, <1>8, <2>1, PlacesRise DEF Rising
<1>10. \A n \in 1..k : Picked(s, at)[n] = s[PlaceOf(at, n)] /\ Picked(t, at)[n] = t[PlaceOf(at, n)]
  BY <1>7 DEF Picked
<1>11. \A n \in 1..k : PlaceOf(at, n) \in 1..m
  BY <1>5, <1>9
<1> QED BY <1>2, <1>6, <1>8, <1>10, <1>11 DEF Alike

LEMMA AmongTyped ==
  ASSUME NEW U, NEW s \in Seq(U), NEW what
  PROVE  Among(s, what) \in Seq(U) /\ Among(s, what) \in Seq(what)
<1>1. PICK at : at = {n \in DOMAIN s : s[n] \in what}
  OBVIOUS
<1>2. at \in SUBSET (DOMAIN s) /\ Among(s, what) = Picked(s, at)
  BY <1>1 DEF Among
<1>3. PICK k : k = Cardinality(at)
  OBVIOUS
<1>4. k \in Nat /\ Picked(s, at) \in Seq(U) /\ Len(Picked(s, at)) = k /\ IsFiniteSet(at)
  BY <1>2, <1>3, PickedTyped
<1>5. \A n \in 1..k : PlaceOf(at, n) \in at
  <2>1. at \in SUBSET Nat
    BY <1>2
  <2> QED BY <1>3, <1>4, <2>1, PlacesRise DEF Rising
<1>6. \A n \in 1..k : s[PlaceOf(at, n)] \in what
  BY <1>1, <1>5
<1>7. Picked(s, at) \in [1..k -> what]
  BY <1>3, <1>6 DEF Picked
<1> QED BY <1>2, <1>4, <1>7

AmongJoin(s, t, what) == Among(s \o t, what) = Among(s, what) \o Among(t, what)

LEMMA AmongJoined ==
  ASSUME NEW U, NEW s \in Seq(U), NEW t \in Seq(U), NEW what PROVE AmongJoin(s, t, what)
<1>1. PICK all, m, k : all = s \o t /\ m = Len(s) /\ k = Len(t)
  OBVIOUS
<1>2. /\ m \in Nat /\ k \in Nat /\ all \in Seq(U) /\ Len(all) = m + k
      /\ \A n \in 1..(m + k) : all[n] = IF n <= m THEN s[n] ELSE t[n - m]
  BY <1>1, ConcatProperties
<1>3. PICK P, Q : P = {n \in DOMAIN s : s[n] \in what} /\ Q = {n \in DOMAIN t : t[n] \in what}
  OBVIOUS
<1>4. DOMAIN s = 1..m /\ DOMAIN t = 1..k /\ DOMAIN all = 1..(m + k)
  BY <1>1, <1>2
<1>5. {n \in DOMAIN all : all[n] \in what} = P \cup {m + q : q \in Q}
  <2>1. ASSUME NEW n \in 1..(m + k), all[n] \in what PROVE n \in P \cup {m + q : q \in Q}
    <3>1. CASE n <= m
      <4>1. n \in 1..m
        BY <1>2, <3>1
      <4> QED BY <1>2, <1>3, <1>4, <2>1, <3>1, <4>1
    <3>2. CASE ~(n <= m)
      <4>1. n - m \in 1..k /\ m + (n - m) = n
        BY <1>2, <3>2
      <4>2. n - m \in Q
        BY <1>2, <1>3, <1>4, <2>1, <3>2, <4>1
      <4> QED BY <4>1, <4>2
    <3> QED BY <3>1, <3>2
  <2>2. ASSUME NEW n \in P PROVE n \in 1..(m + k) /\ all[n] \in what
    <3>1. n \in 1..m /\ s[n] \in what
      BY <1>3, <1>4
    <3>2. n \in 1..(m + k) /\ n <= m
      BY <1>2, <3>1
    <3> QED BY <1>2, <3>1, <3>2
  <2>3. ASSUME NEW q \in Q PROVE m + q \in 1..(m + k) /\ all[m + q] \in what
    <3>1. q \in 1..k /\ t[q] \in what
      BY <1>3, <1>4
    <3>2. m + q \in 1..(m + k) /\ ~(m + q <= m) /\ (m + q) - m = q
      BY <1>2, <3>1
    <3> QED BY <1>2, <3>1, <3>2
  <2> QED BY <1>4, <2>1, <2>2, <2>3
<1>6. Picked(all, {n \in DOMAIN all : all[n] \in what}) = Picked(s, P) \o Picked(t, Q)
  <2>1. PICK R : R = {n \in DOMAIN all : all[n] \in what}
    OBVIOUS
  <2>2. Joins(P, Len(s), Q, R)
    BY <1>1, <1>5, <2>1 DEF Joins
  <2>3. P \in SUBSET (1..Len(s)) /\ Q \in SUBSET (1..Len(t)) /\ s \in Seq(U) /\ t \in Seq(U)
    BY <1>3
  <2>4. PicksJoin(s, P, t, Q, R)
    BY <2>2, <2>3, PickedJoined
  <2> QED BY <1>1, <2>1, <2>4 DEF PicksJoin
<1> QED BY <1>1, <1>3, <1>6 DEF Among, AmongJoin

\* What is read of a list ends before its first mark.
LEMMA FirstMark ==
  ASSUME NEW U, NEW s \in Seq(U)
  PROVE  \/ (\A n \in 1..Len(s) : s[n] # "done") /\ UpToEnd(s) = s
         \/ \E m \in 1..Len(s) : /\ s[m] = "done" /\ \A n \in 1..(m - 1) : s[n] # "done"
                                 /\ UpToEnd(s) = SubSeq(s, 1, m - 1)
<1>1. PICK marks : marks = {n \in DOMAIN s : s[n] = "done"}
  OBVIOUS
<1>2. DOMAIN s = 1..Len(s) /\ Len(s) \in Nat
  OBVIOUS
<1>3. CASE marks = {}
  BY <1>1, <1>2, <1>3 DEF UpToEnd
<1>4. CASE marks # {}
  <2>1. IsFiniteSet(1..Len(s)) /\ marks \in SUBSET (1..Len(s))
    BY <1>1, <1>2, FS_Interval
  <2>2. IsFiniteSet(marks) /\ marks \in SUBSET Nat
    <3>1. marks \in SUBSET Nat
      BY <1>2, <2>1
    <3>2. IsFiniteSet(marks)
      BY <2>1, FS_Subset
    <3> QED BY <3>1, <3>2
  <2>3. PICK m \in marks : \A n \in marks : m <= n
    BY <1>4, <2>2, LeastThere
  <2>4. (CHOOSE n \in marks : \A k \in marks : n <= k) = m
    <3>1. ASSUME NEW n \in marks, \A k \in marks : n <= k PROVE n = m
      <4>1. n <= m /\ m <= n /\ n \in Nat /\ m \in Nat
        BY <2>2, <2>3, <3>1
      <4> QED BY <4>1
    <3> QED BY <2>3, <3>1
  <2>5. m \in 1..Len(s) /\ s[m] = "done"
    BY <1>1, <1>2
  <2>6. \A n \in 1..(m - 1) : s[n] # "done"
    <3> SUFFICES ASSUME NEW n \in 1..(m - 1), s[n] = "done" PROVE FALSE
      OBVIOUS
    <3>1. n \in 1..Len(s) /\ ~(m <= n)
      BY <1>2, <2>5
    <3> QED BY <1>1, <1>2, <2>3, <3>1
  <2>7. UpToEnd(s) = SubSeq(s, 1, m - 1)
    BY <1>1, <1>4, <2>4 DEF UpToEnd
  <2> QED BY <2>5, <2>6, <2>7
<1> QED BY <1>3, <1>4

LEMMA UpToEndTyped ==
  ASSUME NEW U, NEW s \in Seq(U) PROVE UpToEnd(s) \in Seq(U)
<1>1. CASE UpToEnd(s) = s
  BY <1>1
<1>2. CASE \E m \in 1..Len(s) : UpToEnd(s) = SubSeq(s, 1, m - 1)
  <2>1. PICK m \in 1..Len(s) : UpToEnd(s) = SubSeq(s, 1, m - 1)
    BY <1>2
  <2>2. m - 1 \in Nat /\ m - 1 <= Len(s)
    OBVIOUS
  <2>3. SubSeq(s, 1, m - 1) \in Seq(U)
    BY <2>2
  <2> QED BY <2>1, <2>3
<1> QED BY <1>1, <1>2, FirstMark

LEMMA UpToEndAlike ==
  ASSUME NEW U, NEW s \in Seq(U), NEW t \in Seq(LineKinds), Alike(s, t)
  PROVE  Alike(UpToEnd(s), UpToEnd(t))
<1>1. PICK k : k = Len(s)
  OBVIOUS
<1>2. k \in Nat /\ k = Len(t) /\ \A n \in 1..k : Same(s[n], t[n]) /\ t[n] \in LineKinds
  BY <1>1 DEF Alike
<1>3. \A n \in 1..k : s[n] = "done" <=> t[n] = "done"
  BY <1>2, SameKinds
<1>4. CASE \A n \in 1..k : s[n] # "done"
  <2>1. UpToEnd(s) = s
    BY <1>1, <1>4, FirstMark
  <2>2. UpToEnd(t) = t
    BY <1>2, <1>3, <1>4, FirstMark
  <2> QED BY <2>1, <2>2
<1>5. CASE \E n \in 1..k : s[n] = "done"
  <2>1. PICK m \in 1..k : /\ s[m] = "done" /\ \A n \in 1..(m - 1) : s[n] # "done"
                          /\ UpToEnd(s) = SubSeq(s, 1, m - 1)
    BY <1>1, <1>5, FirstMark
  <2>2. PICK j \in 1..k : /\ t[j] = "done" /\ \A n \in 1..(j - 1) : t[n] # "done"
                          /\ UpToEnd(t) = SubSeq(t, 1, j - 1)
    BY <1>2, <1>3, <1>5, FirstMark
  <2>3. m = j
    <3>1. m < j => m \in 1..(j - 1)
      OBVIOUS
    <3>2. j < m => j \in 1..(m - 1)
      OBVIOUS
    <3>3. ~(m < j) /\ ~(j < m)
      BY <1>3, <2>1, <2>2, <3>1, <3>2
    <3> QED BY <3>3
  <2>4. PICK i : i = m - 1
    OBVIOUS
  <2>5. i \in Nat /\ i <= k
    BY <1>2, <2>4
  <2>6. PICK a, b : a = SubSeq(s, 1, i) /\ b = SubSeq(t, 1, i)
    OBVIOUS
  <2>7. Len(a) = i /\ \A n \in 1..i : a[n] = s[n]
    BY <1>1, <2>5, <2>6
  <2>8. Len(b) = i /\ \A n \in 1..i : b[n] = t[n]
    BY <1>2, <2>5, <2>6
  <2>9. 1..i \subseteq 1..k
    BY <1>2, <2>5
  <2>10. Alike(a, b)
    BY <1>2, <2>7, <2>8, <2>9 DEF Alike
  <2> QED BY <2>1, <2>2, <2>3, <2>4, <2>6, <2>10
<1> QED BY <1>4, <1>5

LEMMA UpToEndJoined ==
  ASSUME NEW U, NEW s \in Seq(U), NEW t \in Seq(U), \A n \in 1..Len(s) : s[n] # "done"
  PROVE  UpToEnd(s \o t) = s \o UpToEnd(t)
<1>1. PICK all, m, k : all = s \o t /\ m = Len(s) /\ k = Len(t)
  OBVIOUS
<1>2. /\ m \in Nat /\ k \in Nat /\ all \in Seq(U) /\ Len(all) = m + k
      /\ \A n \in 1..(m + k) : all[n] = IF n <= m THEN s[n] ELSE t[n - m]
  BY <1>1, ConcatProperties
<1>3. ASSUME NEW n \in 1..(m + k) PROVE n <= m => n \in 1..m /\ all[n] = s[n]
  BY <1>2
<1>4. ASSUME NEW n \in 1..k PROVE m + n \in 1..(m + k) /\ all[m + n] = t[n]
  <2>1. m + n \in 1..(m + k) /\ ~(m + n <= m) /\ (m + n) - m = n
    BY <1>2
  <2> QED BY <1>2, <2>1
<1>5. CASE \A n \in 1..k : t[n] # "done"
  <2>1. ASSUME NEW n \in 1..(m + k) PROVE all[n] # "done"
    <3>1. CASE n <= m
      BY <1>1, <1>3, <3>1
    <3>2. CASE ~(n <= m)
      <4>1. n - m \in 1..k
        BY <1>2, <3>2
      <4> QED BY <1>2, <1>5, <3>2, <4>1
    <3> QED BY <3>1, <3>2
  <2>2. UpToEnd(all) = all
    BY <1>2, <2>1, FirstMark
  <2>3. UpToEnd(t) = t
    BY <1>1, <1>5, FirstMark
  <2> QED BY <1>1, <2>2, <2>3
<1>6. CASE \E n \in 1..k : t[n] = "done"
  <2>1. PICK j \in 1..k : /\ t[j] = "done" /\ \A n \in 1..(j - 1) : t[n] # "done"
                          /\ UpToEnd(t) = SubSeq(t, 1, j - 1)
    BY <1>1, <1>6, FirstMark
  <2>2. m + j \in 1..(m + k) /\ all[m + j] = "done"
    BY <1>4, <2>1
  <2>3. PICK i \in 1..(m + k) : /\ all[i] = "done" /\ \A n \in 1..(i - 1) : all[n] # "done"
                                /\ UpToEnd(all) = SubSeq(all, 1, i - 1)
    BY <1>2, <2>2, FirstMark
  <2>4. ~(i <= m)
    BY <1>1, <1>3, <2>3
  <2>5. i - m \in 1..k /\ t[i - m] = "done"
    <3>1. i - m \in 1..k
      BY <1>2, <2>4
    <3> QED BY <1>2, <2>3, <2>4, <3>1
  <2>6. i = m + j
    <3>1. m + j < i => m + j \in 1..(i - 1)
      BY <1>2
    <3>2. ~(m + j < i)
      BY <2>2, <2>3, <3>1
    <3>3. i - m < j => i - m \in 1..(j - 1)
      BY <2>5
    <3>4. ~(i - m < j)
      BY <2>1, <2>5, <3>3
    <3> QED BY <1>2, <3>2, <3>4
  <2>7. PICK h : h = j - 1
    OBVIOUS
  <2>8. h \in Nat /\ h <= k /\ i - 1 = m + h
    BY <1>2, <2>6, <2>7
  <2>9. PICK x, y : x = SubSeq(all, 1, m + h) /\ y = SubSeq(t, 1, h)
    OBVIOUS
  <2>10. x \in Seq(U) /\ Len(x) = m + h /\ \A n \in 1..(m + h) : x[n] = all[n]
    <3>1. m + h \in Nat /\ m + h <= m + k
      BY <1>2, <2>8
    <3> QED BY <1>2, <2>9, <3>1
  <2>11. y \in Seq(U) /\ Len(y) = h /\ \A n \in 1..h : y[n] = t[n]
    <3>1. h \in Nat /\ h <= Len(t)
      BY <1>1, <2>8
    <3>2. y \in Seq(U)
      BY <2>9, <3>1
    <3>3. Len(y) = h
      BY <2>9, <3>1
    <3>4. \A n \in 1..h : y[n] = t[n]
      BY <2>9, <3>1
    <3> QED BY <3>2, <3>3, <3>4
  <2>12. /\ s \o y \in Seq(U) /\ Len(s \o y) = m + h
         /\ \A n \in 1..(m + h) : (s \o y)[n] = IF n <= m THEN s[n] ELSE y[n - m]
    BY <1>1, <2>11, ConcatProperties
  <2>13. ASSUME NEW n \in 1..(m + h) PROVE x[n] = (s \o y)[n]
    <3>0. n \in 1..(m + k)
      BY <1>2, <2>8
    <3>1. CASE n <= m
      BY <1>3, <2>10, <2>12, <3>0, <3>1
    <3>2. CASE ~(n <= m)
      <4>1. n - m \in 1..h
        BY <1>2, <2>8, <3>2
      <4> QED BY <1>2, <2>10, <2>11, <2>12, <3>0, <3>2, <4>1
    <3> QED BY <3>1, <3>2
  <2>14. PICK z : z = s \o y
    OBVIOUS
  <2>15. x = z
    BY <2>10, <2>12, <2>13, <2>14
  <2> QED BY <1>1, <2>1, <2>3, <2>7, <2>8, <2>9, <2>14, <2>15
<1> QED BY <1>5, <1>6

\* What is in the buffer when a chunk came, half by half, from the line after
\* the last one that was read.
Reaches(buf, m, size) ==
  /\ buf \in Seq([line : Nat, half : {1, 2}, torn : BOOLEAN]) /\ Len(buf) = size
  /\ \A p \in 1..size : /\ buf[p].line = m + ((p + 1) \div 2) /\ buf[p].half = 2 - (p % 2)
                        /\ buf[p].torn => lines[buf[p].line] = "wide"

LEMMA ChunkReaches ==
  ASSUME AnswerInv, NEW k \in Nat \ {0}, Arrive(k)
  PROVE  Reaches(buffer \o Decode(arrived, arrived + k), arrived \div 2, (arrived % 2) + k)
<1>1. PICK a, m, o : a = arrived /\ m = a \div 2 /\ o = a % 2
  OBVIOUS
<1>2. /\ call = "reads" /\ a \in Nat
      /\ o = 0 => buffer = <<>>
      /\ o = 1 => \E h \in OpenHalf : buffer = <<h>>
  BY <1>1 DEF Arrive, AnswerInv
<1>3. m \in Nat /\ o \in {0, 1} /\ a = 2 * m + o /\ (a + 1) \div 2 = m + o
  BY <1>1, <1>2, HalfOf
<1>4. PICK Halves : Halves = [line : Nat, half : {1, 2}, torn : BOOLEAN]
  OBVIOUS
<1>5. PICK d : d = Decode(arrived, arrived + k)
  OBVIOUS
<1>6. d \in Seq(Halves) /\ Len(d) = k
      /\ \A p \in 1..k : /\ d[p].line = (a + p + 1) \div 2 /\ d[p].half = 2 - ((a + p) % 2)
                         /\ d[p].torn => lines[d[p].line] = "wide"
  <2>1. (a + k) - a = k
    BY <1>2
  <2>2. PICK split : split = [p \in 1..k |->
          ((a + p = a + 1 /\ (a + p) % 2 = 0) \/ (a + p = a + k /\ (a + p) % 2 = 1))
             /\ lines[((a + p) + 1) \div 2] = "wide"]
    OBVIOUS
  <2>3. d = [p \in 1..k |-> [line |-> ((a + p) + 1) \div 2, half |-> 2 - ((a + p) % 2),
                             torn |-> split[p]]]
    BY <1>1, <1>5, <2>1, <2>2 DEF Decode
  <2>4. ASSUME NEW p \in 1..k
        PROVE  d[p] \in Halves
    <3>1. a + p \in Nat /\ (a + p) % 2 \in {0, 1} /\ (a + p) + 1 \in Nat
      BY <1>2, HalfOf
    <3>2. ((a + p) + 1) \div 2 \in Nat /\ 2 - ((a + p) % 2) \in {1, 2}
      <4>1. ((a + p) + 1) \div 2 \in Nat
        BY <3>1, HalfOf
      <4>2. PICK e : e = (a + p) % 2
        OBVIOUS
      <4>3. e = 0 \/ e = 1
        BY <3>1, <4>2
      <4>4. 2 - e \in {1, 2}
        BY <4>3
      <4> QED BY <4>1, <4>2, <4>4
    <3>3. split[p] \in BOOLEAN
      BY <2>2
    <3> QED BY <1>4, <2>3, <3>2, <3>3
  <2>5. d \in [1..k -> Halves]
    BY <2>3, <2>4
  <2>6. d \in Seq(Halves) /\ Len(d) = k
    BY <2>5
  <2>7. ASSUME NEW p \in 1..k
        PROVE  /\ d[p].line = (a + p + 1) \div 2 /\ d[p].half = 2 - ((a + p) % 2)
               /\ d[p].torn => lines[d[p].line] = "wide"
    BY <2>2, <2>3
  <2> QED BY <2>6, <2>7
<1>7. buffer \in Seq(Halves) /\ Len(buffer) = o
      /\ \A p \in 1..o : /\ buffer[p].line = m + 1 /\ buffer[p].half = 1
                         /\ buffer[p].torn => lines[m + 1] = "wide"
  <2>1. CASE o = 0
    BY <1>2, <2>1
  <2>2. CASE o = 1
    <3>1. PICK h \in OpenHalf : buffer = <<h>>
      BY <1>2, <2>2
    <3>2. PICK t \in BOOLEAN : (t => lines[m + 1] = "wide") /\ h = [line |-> m + 1, half |-> 1, torn |-> t]
      BY <1>1, <1>3, <2>2, <3>1 DEF OpenHalf
    <3>3. h \in Halves
      BY <1>3, <1>4, <3>2
    <3> QED BY <2>2, <3>1, <3>2, <3>3
  <2> QED BY <1>3, <2>1, <2>2
<1>8. PICK buf : buf = buffer \o d
  OBVIOUS
<1>9. /\ buf \in Seq(Halves) /\ Len(buf) = o + k
      /\ \A p \in 1..(o + k) : buf[p] = IF p <= o THEN buffer[p] ELSE d[p - o]
  BY <1>6, <1>7, <1>8, ConcatProperties
<1>10. ASSUME NEW p \in 1..(o + k)
       PROVE  /\ buf[p].line = m + ((p + 1) \div 2) /\ buf[p].half = 2 - (p % 2)
              /\ buf[p].torn => lines[buf[p].line] = "wide"
  <2>1. CASE p <= o
    <3>1. p = 1 /\ p \in 1..o
      BY <1>3, <2>1
    <3>2. (p + 1) \div 2 = 1 /\ p % 2 = 1 /\ 2 - 1 = 1
      BY <3>1
    <3>3. buf[p] = buffer[p]
      BY <1>9, <2>1
    <3> QED BY <1>7, <3>1, <3>2, <3>3
  <2>2. CASE ~(p <= o)
    <3>1. p - o \in 1..k /\ a + (p - o) = 2 * m + p /\ p \in Nat
      BY <1>3, <2>2
    <3>2. buf[p] = d[p - o]
      BY <1>9, <2>2
    <3>3. /\ d[p - o].line = (2 * m + p + 1) \div 2 /\ d[p - o].half = 2 - ((2 * m + p) % 2)
          /\ d[p - o].torn => lines[d[p - o].line] = "wide"
      BY <1>6, <3>1
    <3>4. (2 * m + p + 1) \div 2 = m + ((p + 1) \div 2) /\ (2 * m + p) % 2 = p % 2
      BY <1>3, <3>1
    <3> QED BY <3>2, <3>3, <3>4
  <2> QED BY <2>1, <2>2
<1> QED BY <1>1, <1>4, <1>5, <1>8, <1>9, <1>10 DEF Reaches

\* The complete lines of a buffer are the lines the server wrote, in their order.
LEMMA LinesReadWhole ==
  ASSUME lines \in Seq(LineKinds), NEW buf, NEW m \in Nat, NEW size \in Nat, Reaches(buf, m, size),
         m + (size \div 2) <= Len(lines)
  PROVE  /\ CompleteLines(buf) \in Seq(LineKinds \cup {TornText})
         /\ Len(CompleteLines(buf)) = size \div 2
         /\ \A n \in 1..(size \div 2) : Same(CompleteLines(buf)[n], lines[m + n])
<1>1. PICK c : c = size \div 2
  OBVIOUS
<1>2. c \in Nat /\ size = 2 * c + (size % 2) /\ size % 2 \in {0, 1}
  BY <1>1, HalfOf
<1>3. PICK Halves : Halves = [line : Nat, half : {1, 2}, torn : BOOLEAN]
  OBVIOUS
<1>4. /\ buf \in Seq(Halves) /\ Len(buf) = size /\ DOMAIN buf = 1..size
      /\ \A p \in 1..size : /\ buf[p].line = m + ((p + 1) \div 2) /\ buf[p].half = 2 - (p % 2)
                            /\ buf[p].torn => lines[buf[p].line] = "wide"
  BY <1>3 DEF Reaches
<1>5. PICK ends : ends = {p \in DOMAIN buf : buf[p].half = 2}
  OBVIOUS
<1>6. PICK g : g = [n \in 1..c |-> 2 * n]
  OBVIOUS
<1>7. \A p \in 1..size : p \in ends <=> p % 2 = 0
  <2> SUFFICES ASSUME NEW p \in 1..size PROVE p \in ends <=> p % 2 = 0
    OBVIOUS
  <2>1. p % 2 \in {0, 1}
    BY HalfOf
  <2> QED BY <1>4, <1>5, <2>1
<1>8. Rising(ends, c, g)
  <2>1. ends \in SUBSET (1..size) /\ ends \in SUBSET Nat
    BY <1>4, <1>5
  <2>2. \A n \in 1..c : 2 * n \in ends
    <3> SUFFICES ASSUME NEW n \in 1..c PROVE 2 * n \in ends
      OBVIOUS
    <3>1. 2 * n \in 1..size
      BY <1>2
    <3>2. (2 * n) % 2 = 0
      BY <1>2, HalfOf
    <3> QED BY <1>7, <3>1, <3>2
  <2>3. \A p \in ends : \E n \in 1..c : g[n] = p
    <3> SUFFICES ASSUME NEW p \in ends PROVE \E n \in 1..c : g[n] = p
      OBVIOUS
    <3>1. p \in 1..size /\ p % 2 = 0
      BY <1>7, <2>1
    <3>2. PICK n : n = p \div 2
      OBVIOUS
    <3>3. n \in Nat /\ p = 2 * n + (p % 2)
      BY <3>1, <3>2, HalfOf
    <3>4. n \in 1..c
      BY <1>2, <3>1, <3>3
    <3> QED BY <1>6, <3>1, <3>3, <3>4
  <2>4. g \in [1..c -> ends] /\ \A i, j \in 1..c : i < j => g[i] < g[j]
    BY <1>2, <1>6, <2>2
  <2> QED BY <1>2, <2>1, <2>3, <2>4 DEF Rising
<1>9. PICK last : last = Picked(buf, ends)
  OBVIOUS
<1>10. last = [n \in 1..c |-> buf[g[n]]]
  BY <1>8, <1>9, PickedIs
<1>11. \A n \in 1..c : last[n].line = m + n
  <2> SUFFICES ASSUME NEW n \in 1..c PROVE last[n].line = m + n
    OBVIOUS
  <2>1. 2 * n \in 1..size /\ n \in Nat
    BY <1>2
  <2>2. (2 * n + 1) \div 2 = n
    BY <2>1, HalfOf
  <2> QED BY <1>4, <1>6, <1>10, <2>1, <2>2
<1>12. PICK read : read = CompleteLines(buf)
  OBVIOUS
<1>13. read = [n \in 1..c |-> LineOf(buf, m + n)]
  <2>1. read = [n \in DOMAIN last |-> LineOf(buf, last[n].line)]
    BY <1>5, <1>9, <1>12 DEF CompleteLines
  <2>2. DOMAIN last = 1..c
    BY <1>10
  <2> QED BY <1>11, <2>1, <2>2
<1>14. ASSUME NEW n \in 1..c
       PROVE  Same(LineOf(buf, m + n), lines[m + n]) /\ LineOf(buf, m + n) \in LineKinds \cup {TornText}
  <2>1. m + n \in 1..Len(lines)
    BY <1>1, <1>2
  <2>2. lines[m + n] \in LineKinds
    BY <2>1
  <2>3. PICK p : p = 2 * (n - 1) + 1
    OBVIOUS
  <2>4. p \in 1..size /\ p + 1 = 2 * n /\ n - 1 \in Nat /\ n \in Nat
    BY <1>2, <2>3
  <2>5. (p + 1) \div 2 = n /\ p % 2 = 1
    BY <2>3, <2>4, HalfOf
  <2>6. buf[p].line = m + n /\ buf[p].half = 1
    <3>1. buf[p].line = m + ((p + 1) \div 2) /\ buf[p].half = 2 - (p % 2)
      BY <1>4, <2>4
    <3>2. 2 - 1 = 1
      OBVIOUS
    <3> QED BY <2>5, <3>1, <3>2
  <2>7. ~(\A q \in DOMAIN buf : ~(buf[q].line = m + n /\ buf[q].half = 1))
    BY <1>4, <2>4, <2>6
  <2>8. CASE \E q \in DOMAIN buf : buf[q].line = m + n /\ buf[q].torn
    <3>1. PICK q \in 1..size : buf[q].line = m + n /\ buf[q].torn
      BY <1>4, <2>8
    <3>2. lines[m + n] = "wide"
      BY <1>4, <3>1
    <3>3. LineOf(buf, m + n) = TornText
      BY <2>7, <2>8 DEF LineOf
    <3> QED BY <3>2, <3>3 DEF Same
  <2>9. CASE ~(\E q \in DOMAIN buf : buf[q].line = m + n /\ buf[q].torn)
    <3>1. LineOf(buf, m + n) = lines[m + n]
      BY <2>7, <2>9 DEF LineOf
    <3> QED BY <2>2, <3>1 DEF Same
  <2> QED BY <2>8, <2>9
<1>15. read \in [1..c -> LineKinds \cup {TornText}]
  BY <1>13, <1>14
<1>16. read \in Seq(LineKinds \cup {TornText}) /\ Len(read) = c
  BY <1>2, <1>15
<1>17. \A n \in 1..c : Same(read[n], lines[m + n])
  BY <1>13, <1>14
<1> QED BY <1>1, <1>12, <1>16, <1>17

LEMMA ArriveKept ==
  ASSUME AnswerInv, NEW k \in Nat \ {0}, Arrive(k) PROVE AnswerInv'
<1> DEFINE buf == buffer \o Decode(arrived, arrived + k)
           read == CompleteLines(buf)
<1>1. PICK a, m, o, b, size, c : /\ a = arrived /\ m = a \div 2 /\ o = a % 2 /\ b = (a + k) \div 2
                                 /\ size = o + k /\ c = size \div 2
  OBVIOUS
<1>2. PICK all : all = lines
  OBVIOUS
<1>3. /\ all \in Seq(LineKinds) /\ Len(all) \in Nat /\ a \in Nat /\ a + k <= 2 * Len(all)
      /\ call = "reads" /\ \A n \in 1..m : all[n] # "done"
  BY <1>1, <1>2 DEF AnswerInv, Arrive
<1>4. /\ m \in Nat /\ o \in {0, 1} /\ a = 2 * m + o /\ size \in Nat \ {0} /\ c \in Nat
      /\ size = 2 * c + (size % 2) /\ size % 2 \in {0, 1} /\ b \in Nat
  BY <1>1, <1>3, HalfOf
<1>5. a + k = 2 * m + size
  BY <1>1, <1>3, <1>4
<1>6. b = m + c /\ (a + k) % 2 = size % 2 /\ (a + k + 1) \div 2 = m + ((size + 1) \div 2)
  BY <1>1, <1>4, <1>5
<1>7. b <= Len(all)
  BY <1>3, <1>4, <1>5, <1>6
<1>8. Reaches(buf, m, size)
  BY <1>1, ChunkReaches
<1>9. PICK what, it : what = buf /\ it = read
  OBVIOUS
<1> HIDE DEF buf, read
<1>10. /\ it \in Seq(LineKinds \cup {TornText}) /\ Len(it) = c
       /\ \A n \in 1..c : Same(it[n], all[m + n])
  <2>1. m + (size \div 2) <= Len(lines) /\ lines \in Seq(LineKinds)
    BY <1>1, <1>2, <1>3, <1>6, <1>7
  <2>2. it = CompleteLines(buf)
    BY <1>9 DEF read
  <2> QED BY <1>1, <1>2, <1>4, <1>8, <2>1, <2>2, LinesReadWhole
<1>11. /\ arrived' = a + k /\ lines' = all
       /\ content' = content \o Among(UpToEnd(it), AnswerLines)
       /\ shown' = shown \o Among(UpToEnd(it), ShownLines)
       /\ buffer' = Rest(what)
       /\ call' = IF "done" \in ToSet(it) THEN "answer" ELSE "reads"
  BY <1>1, <1>2, <1>9 DEF Arrive, buf, read
<1>12. PICK old, fresh, new : /\ old = SubSeq(all, 1, m) /\ fresh = SubSeq(all, m + 1, m + c)
                              /\ new = SubSeq(all, 1, m + c)
  OBVIOUS
<1>13. m + c \in Nat /\ m + c <= Len(all) /\ m <= Len(all)
  BY <1>4, <1>6, <1>7
<1>14. old \in Seq(LineKinds) /\ Len(old) = m /\ \A n \in 1..m : old[n] = all[n]
  BY <1>3, <1>4, <1>12, <1>13
<1>15. new \in Seq(LineKinds) /\ Len(new) = m + c /\ \A n \in 1..(m + c) : new[n] = all[n]
  BY <1>3, <1>4, <1>12, <1>13
<1>16. fresh \in Seq(LineKinds) /\ Len(fresh) = c /\ \A n \in 1..c : fresh[n] = all[m + n]
  <2>1. fresh \in Seq(LineKinds)
    BY <1>3, <1>4, <1>12, <1>13
  <2>2. Len(fresh) = c
    BY <1>3, <1>4, <1>12, <1>13
  <2>3. ASSUME NEW n \in 1..c PROVE fresh[n] = all[m + n]
    <3>1. n \in 1..((m + c) - (m + 1) + 1) /\ (m + 1) + n - 1 = m + n
      BY <1>4
    <3> QED BY <1>3, <1>4, <1>12, <1>13, <3>1
  <2> QED BY <2>1, <2>2, <2>3
<1>17. new = old \o fresh
  <2>1. PICK z : z = old \o fresh
    OBVIOUS
  <2>2. /\ z \in Seq(LineKinds) /\ Len(z) = m + c
        /\ \A n \in 1..(m + c) : z[n] = IF n <= m THEN old[n] ELSE fresh[n - m]
    <3>1. old \in Seq(LineKinds) /\ fresh \in Seq(LineKinds)
      BY <1>14, <1>16
    <3>2. /\ old \o fresh \in Seq(LineKinds) /\ Len(old \o fresh) = Len(old) + Len(fresh)
          /\ \A n \in 1..(Len(old) + Len(fresh)) :
               (old \o fresh)[n] = IF n <= Len(old) THEN old[n] ELSE fresh[n - Len(old)]
      BY <3>1, ConcatProperties
    <3> QED BY <1>14, <1>16, <2>1, <3>2
  <2>3. ASSUME NEW n \in 1..(m + c) PROVE new[n] = z[n]
    <3>1. CASE n <= m
      <4>1. n \in 1..m
        BY <1>4, <3>1
      <4> QED BY <1>14, <1>15, <2>2, <3>1, <4>1
    <3>2. CASE ~(n <= m)
      <4>1. n - m \in 1..c /\ m + (n - m) = n
        BY <1>4, <3>2
      <4> QED BY <1>15, <1>16, <2>2, <3>2, <4>1
    <3> QED BY <3>1, <3>2
  <2>4. new = z
    BY <1>15, <2>2, <2>3
  <2> QED BY <2>1, <2>4
<1>18. Written = old
  <2>1. UpToEnd(old) = old
    BY <1>3, <1>14, FirstMark
  <2> QED BY <1>1, <1>2, <1>12, <2>1 DEF Written
<1>19. Written' = UpToEnd(new)
  <2>1. Written' = UpToEnd(SubSeq(all, 1, (a + k) \div 2))
    BY <1>11 DEF Written
  <2> QED BY <1>1, <1>6, <1>12, <2>1
<1>20. UpToEnd(new) = old \o UpToEnd(fresh)
  <2>1. \A n \in 1..Len(old) : old[n] # "done"
    BY <1>3, <1>14
  <2> QED BY <1>14, <1>16, <1>17, <2>1, UpToEndJoined
<1>21. Alike(it, fresh)
  BY <1>10, <1>16 DEF Alike
<1>22. PICK took, gave : took = UpToEnd(it) /\ gave = UpToEnd(fresh)
  OBVIOUS
<1>23. took \in Seq(LineKinds \cup {TornText}) /\ gave \in Seq(LineKinds)
  BY <1>10, <1>16, <1>22, UpToEndTyped
<1>24. Alike(took, gave)
  BY <1>10, <1>16, <1>21, <1>22, UpToEndAlike
<1>25. ASSUME NEW kinds \in {AnswerLines, ShownLines}, NEW text \in Seq(kinds), Alike(text, Among(old, kinds))
       PROVE  /\ text \o Among(took, kinds) \in Seq(kinds)
              /\ Alike(text \o Among(took, kinds), Among(UpToEnd(new), kinds))
  <2>1. Alike(Among(took, kinds), Among(gave, kinds))
    BY <1>23, <1>24, AmongAlike
  <2>2. Among(took, kinds) \in Seq(kinds)
    BY <1>23, AmongTyped
  <2>3. Among(old, kinds) \in Seq(LineKinds) /\ Among(gave, kinds) \in Seq(LineKinds)
    BY <1>14, <1>23, AmongTyped
  <2>4. Among(UpToEnd(new), kinds) = Among(old, kinds) \o Among(gave, kinds)
    <3>1. old \in Seq(LineKinds) /\ gave \in Seq(LineKinds)
      BY <1>14, <1>23
    <3>2. AmongJoin(old, gave, kinds)
      BY <3>1, AmongJoined
    <3> QED BY <1>20, <1>22, <3>2 DEF AmongJoin
  <2>5. PICK x, y, z : x = Among(took, kinds) /\ y = Among(old, kinds) /\ z = Among(gave, kinds)
    OBVIOUS
  <2>6. Alike(text \o x, y \o z)
    BY <1>25, <2>1, <2>2, <2>3, <2>5, AlikeJoined
  <2>7. text \o x \in Seq(kinds)
    BY <2>2, <2>5
  <2> QED BY <2>4, <2>5, <2>6, <2>7
<1>26. /\ content' \in Seq(AnswerLines) /\ Alike(content', Among(Written', AnswerLines))
       /\ shown' \in Seq(ShownLines) /\ Alike(shown', Among(Written', ShownLines))
  <2>1. /\ content \in Seq(AnswerLines) /\ Alike(content, Among(old, AnswerLines))
        /\ shown \in Seq(ShownLines) /\ Alike(shown, Among(old, ShownLines))
    BY <1>3, <1>18 DEF AnswerInv
  <2>2. PICK x, y, u, v, w : /\ x = content /\ y = shown /\ u = content' /\ v = shown' /\ w = Written'
    OBVIOUS
  <2>3. /\ u = x \o Among(took, AnswerLines) /\ v = y \o Among(took, ShownLines) /\ w = UpToEnd(new)
    BY <1>11, <1>19, <1>22, <2>2
  <2>4. u \in Seq(AnswerLines) /\ Alike(u, Among(w, AnswerLines))
    BY <1>25, <2>1, <2>2, <2>3
  <2>5. v \in Seq(ShownLines) /\ Alike(v, Among(w, ShownLines))
    BY <1>25, <2>1, <2>2, <2>3
  <2> QED BY <2>2, <2>4, <2>5
<1>27. ASSUME call' = "reads"
       PROVE  /\ (a + k) % 2 = 0 => buffer' = <<>>
              /\ (a + k) % 2 = 1 => \E h \in OpenHalf' : buffer' = <<h>>
              /\ \A n \in 1..(m + c) : all[n] # "done"
  <2>1. PICK Halves : Halves = [line : Nat, half : {1, 2}, torn : BOOLEAN]
    OBVIOUS
  <2>2. /\ what \in Seq(Halves) /\ Len(what) = size
        /\ what[size].line = m + ((size + 1) \div 2) /\ what[size].half = 2 - (size % 2)
        /\ what[size].torn => all[what[size].line] = "wide"
    <3>1. size \in 1..size
      BY <1>4
    <3> QED BY <1>2, <1>8, <1>9, <2>1, <3>1 DEF Reaches
  <2>3. Last(what) = what[size] /\ what # <<>> /\ what[size] \in Halves
    <3>1. Last(what) = what[size]
      BY <2>2 DEF Last
    <3>2. size \in 1..Len(what) /\ Len(what) # 0
      <4>1. size \in 1..size /\ size # 0
        BY <1>4
      <4> QED BY <2>2, <4>1
    <3>3. what # <<>>
      BY <3>2
    <3>4. what[size] \in Halves
      BY <2>2, <3>2
    <3> QED BY <3>1, <3>3, <3>4
  <2>4. (a + k) % 2 = 0 => buffer' = <<>>
    <3>1. ASSUME (a + k) % 2 = 0 PROVE what[size].half = 2
      BY <1>6, <2>2, <3>1
    <3> QED BY <1>11, <2>3, <3>1 DEF Rest
  <2>5. ASSUME (a + k) % 2 = 1 PROVE \E h \in OpenHalf' : buffer' = <<h>>
    <3>1. size % 2 = 1 /\ 2 - 1 = 1
      BY <1>6, <2>5
    <3>2. what[size].half = 1
      BY <2>2, <3>1
    <3>3. buffer' = <<what[size]>>
      BY <1>11, <2>3, <3>2 DEF Rest
    <3>4. PICK h : h = what[size]
      OBVIOUS
    <3>5. /\ h \in Halves /\ h.line = (a + k + 1) \div 2 /\ h.half = 1
          /\ h.torn => all[(a + k + 1) \div 2] = "wide"
      BY <1>6, <2>2, <2>3, <3>2, <3>4
    <3>6. h = [line |-> (a + k + 1) \div 2, half |-> 1, torn |-> h.torn] /\ h.torn \in BOOLEAN
      BY <2>1, <3>5
    <3>7. h \in OpenHalf'
      BY <1>11, <3>5, <3>6 DEF OpenHalf
    <3> QED BY <3>3, <3>4, <3>7
  <2>6. ASSUME NEW n \in 1..(m + c) PROVE all[n] # "done"
    <3>1. CASE n <= m
      <4>1. n \in 1..m
        BY <1>4, <3>1
      <4> QED BY <1>3, <4>1
    <3>2. CASE ~(n <= m)
      <4>1. n - m \in 1..c /\ m + (n - m) = n /\ n \in 1..Len(all)
        BY <1>4, <1>13, <3>2
      <4>2. it[n - m] # "done"
        BY <1>10, <1>11, <1>27, <4>1 DEF ToSet
      <4>3. Same(it[n - m], all[n]) /\ all[n] \in LineKinds
        BY <1>3, <1>10, <4>1
      <4> QED BY <4>2, <4>3, SameKinds
    <3> QED BY <3>1, <3>2
  <2> QED BY <2>4, <2>5, <2>6
<1>28. call' \in {"reads", "answer"}
  BY <1>11
<1>29. a + k \in Nat /\ (a + k) \div 2 = m + c
  BY <1>1, <1>3, <1>6
<1> QED BY <1>3, <1>11, <1>26, <1>27, <1>28, <1>29 DEF AnswerInv

LEMMA AnswerInvInitially == AnswerInit => AnswerInv
<1> SUFFICES ASSUME AnswerInit PROVE AnswerInv
  OBVIOUS
<1>1. PICK n \in 0..MaxAnswer : lines \in [1..n -> LineKinds]
  BY DEF AnswerInit
<1>2. n \in Nat
  BY AnswerAssumption
<1>3. lines \in Seq(LineKinds) /\ Len(lines) = n
  BY <1>1, <1>2
<1>4. arrived = 0 /\ buffer = <<>> /\ content = <<>> /\ shown = <<>> /\ call = "asks"
  BY DEF AnswerInit
<1>5. PICK none, all : none = SubSeq(lines, 1, 0) /\ all = lines
  OBVIOUS
<1>6. none \in Seq(LineKinds) /\ Len(none) = 0
  BY <1>3, <1>5
<1>7. UpToEnd(none) = none
  <2>1. 1..Len(none) = {}
    BY <1>6
  <2> QED BY <1>6, <2>1, FirstMark
<1>8. Written = none
  <2>1. 0 \div 2 = 0
    OBVIOUS
  <2> QED BY <1>4, <1>5, <1>7, <2>1 DEF Written
<1>9. \A kinds : Len(Among(none, kinds)) = 0
  <2> SUFFICES ASSUME NEW kinds PROVE Len(Among(none, kinds)) = 0
    OBVIOUS
  <2>1. {i \in DOMAIN none : none[i] \in kinds} = {}
    BY <1>6
  <2>2. {} \in SUBSET (DOMAIN none)
    OBVIOUS
  <2>3. Len(Picked(none, {})) = Cardinality({})
    BY <1>6, <2>2, PickedTyped
  <2> QED BY <2>1, <2>3, FS_EmptySet DEF Among
<1>10. \A kinds : Alike(<<>>, Among(none, kinds))
  BY <1>9 DEF Alike
<1>11. arrived \in Nat /\ arrived <= 2 * Len(lines)
  BY <1>2, <1>3, <1>4
<1>12. <<>> \in Seq(AnswerLines) /\ <<>> \in Seq(ShownLines)
  OBVIOUS
<1> QED BY <1>3, <1>4, <1>8, <1>10, <1>11, <1>12 DEF AnswerInv

LEMMA AnswerInvKept == AnswerInv /\ [AnswerNext]_answerVars => AnswerInv'
<1> SUFFICES ASSUME AnswerInv, [AnswerNext]_answerVars PROVE AnswerInv'
  OBVIOUS
<1>1. CASE Send
  <2>1. /\ call = "asks" /\ call' \in {"reads", "error"} /\ lines' = lines /\ arrived' = arrived
        /\ buffer' = buffer /\ content' = content /\ shown' = shown /\ arrived = 0 /\ buffer = <<>>
    BY <1>1 DEF Send, AnswerInv
  <2>2. 0 % 2 = 0 /\ 0 \div 2 = 0
    OBVIOUS
  <2>3. Written' = Written
    BY <2>1 DEF Written
  <2>4. ~(arrived % 2 = 1) /\ 1..(arrived \div 2) = {}
    BY <2>1, <2>2
  <2> QED BY <2>1, <2>3, <2>4 DEF AnswerInv
<1>2. CASE Close \/ Break
  <2>1. /\ call = "reads" /\ call' \in {"answer", "error"} /\ lines' = lines /\ arrived' = arrived
        /\ buffer' = buffer /\ content' = content /\ shown' = shown
    BY <1>2 DEF Close, Break
  <2>2. Written' = Written
    BY <2>1 DEF Written
  <2> QED BY <2>1, <2>2 DEF AnswerInv
<1>3. CASE \E k \in 1..2 * MaxAnswer : Arrive(k)
  <2>1. PICK k \in 1..2 * MaxAnswer : Arrive(k)
    BY <1>3
  <2>2. k \in Nat \ {0}
    BY AnswerAssumption
  <2> QED BY <2>1, <2>2, ArriveKept
<1>4. CASE UNCHANGED answerVars
  <2>1. /\ lines' = lines /\ arrived' = arrived
        /\ buffer' = buffer /\ content' = content /\ shown' = shown /\ call' = call
    BY <1>4 DEF answerVars
  <2>2. Written' = Written /\ OpenHalf' = OpenHalf
    BY <2>1 DEF Written, OpenHalf
  <2> QED BY <2>1, <2>2 DEF AnswerInv
<1> QED BY <1>1, <1>2, <1>3, <1>4 DEF AnswerNext

\* However the answer is cut into chunks, its lines are read one by one, in
\* their order, none twice and none lost (read_stream, apply_chunk).
THEOREM AnswerIsRead == AnswerSpec => []ChunksJoined
<1>1. AnswerInv => ChunksJoined
  <2> SUFFICES ASSUME AnswerInv, call \in {"reads", "answer"}
               PROVE  /\ Len(content) = Len(Among(Written, AnswerLines))
                      /\ Len(shown) = Len(Among(Written, ShownLines))
                      /\ \A n \in DOMAIN content : Same(content[n], Among(Written, AnswerLines)[n])
                      /\ \A n \in DOMAIN shown : Same(shown[n], Among(Written, ShownLines)[n])
    BY DEF ChunksJoined
  <2>1. Alike(content, Among(Written, AnswerLines)) /\ Alike(shown, Among(Written, ShownLines))
    BY DEF AnswerInv
  <2>2. DOMAIN content = 1..Len(content) /\ DOMAIN shown = 1..Len(shown)
    <3>1. content \in Seq(AnswerLines) /\ shown \in Seq(ShownLines)
      BY DEF AnswerInv
    <3> QED BY <3>1
  <2> QED BY <2>1, <2>2 DEF Alike
<1> QED BY <1>1, AnswerInvInitially, AnswerInvKept, PTL DEF AnswerSpec

-----------------------------------------------------------------------------
\* The readings by labels (LabelReading).

\* A finite set of numbers that is not empty has a highest one.
LEMMA HighestThere ==
  ASSUME NEW S \in SUBSET Nat, IsFiniteSet(S), S # {}
  PROVE  Highest(S) \in S /\ \A n \in S : n <= Highest(S)
<1>1. PICK k, f : k = Cardinality(S) /\ f = [n \in 1..k |-> PlaceOf(S, n)]
  OBVIOUS
<1>2. /\ k \in Nat /\ f \in [1..k -> S] /\ (\A i, j \in 1..k : i < j => f[i] < f[j])
      /\ \A p \in S : \E i \in 1..k : f[i] = p
  BY <1>1, PlacesRise DEF Rising
<1>3. k \in 1..k
  <2>1. PICK p \in S : TRUE
    OBVIOUS
  <2>2. PICK i \in 1..k : f[i] = p
    BY <1>2
  <2> QED BY <1>2, <2>2
<1>4. ASSUME NEW n \in S PROVE n <= f[k]
  <2>1. PICK i \in 1..k : f[i] = n
    BY <1>2
  <2>2. i = k \/ i < k
    BY <1>2
  <2>3. f[k] \in Nat /\ n \in Nat
    BY <1>2, <1>3
  <2> QED BY <1>2, <1>3, <2>1, <2>2, <2>3
<1>5. f[k] \in S
  BY <1>2, <1>3
<1> QED BY <1>4, <1>5 DEF Highest

\* Lists one after the other hold what each of them holds.
Holds(s, t) == \A k \in DOMAIN t : \E p \in DOMAIN s : s[p] = t[k]

LEMMA HoldsMore == ASSUME NEW s, NEW t, NEW u, Holds(u, s), Holds(s, t) PROVE Holds(u, t)
BY DEF Holds

LEMMA JoinedHolds ==
  ASSUME NEW U, NEW s \in Seq(U), NEW t \in Seq(U)
  PROVE  /\ s \o t \in Seq(U) /\ Holds(s \o t, s) /\ Holds(s \o t, t)
<1>1. /\ Len(s) \in Nat /\ Len(t) \in Nat /\ DOMAIN s = 1..Len(s) /\ DOMAIN t = 1..Len(t)
      /\ s \o t \in Seq(U)
  OBVIOUS
<1>2. /\ Len(s \o t) = Len(s) + Len(t)
      /\ \A i \in 1..(Len(s) + Len(t)) : (s \o t)[i] = IF i <= Len(s) THEN s[i] ELSE t[i - Len(s)]
  BY ConcatProperties
<1>3. PICK u, m, n : u = s \o t /\ m = Len(s) /\ n = Len(t)
  OBVIOUS
<1>4. DOMAIN u = 1..(m + n)
  BY <1>1, <1>2, <1>3
<1>5. Holds(u, s)
  <2>1. ASSUME NEW k \in 1..m PROVE k \in 1..(m + n) /\ u[k] = s[k]
    BY <1>1, <1>2, <1>3
  <2> QED BY <1>1, <1>3, <1>4, <2>1 DEF Holds
<1>6. Holds(u, t)
  <2>1. ASSUME NEW k \in 1..n PROVE m + k \in 1..(m + n) /\ u[m + k] = t[k]
    <3>1. m + k \in 1..(m + n) /\ ~(m + k <= m) /\ (m + k) - m = k
      BY <1>1, <1>3
    <3> QED BY <1>2, <1>3, <3>1
  <2> QED BY <1>1, <1>3, <1>4, <2>1 DEF Holds
<1> QED BY <1>1, <1>3, <1>5, <1>6

\* The lists up to each place, one after the other.
Flattens(f, seqs) ==
  f = [i \in 1..Len(seqs) |-> IF i = 1 THEN seqs[i] ELSE f[i - 1] \o seqs[i]]

LEMMA FlattenThere ==
  ASSUME NEW U, NEW seqs \in Seq(Seq(U))
  PROVE  \E f : Flattens(f, seqs)
<1> DEFINE n == Len(seqs)
           Upto(m, f) == f = [i \in 1..m |-> IF i = 1 THEN seqs[i] ELSE f[i - 1] \o seqs[i]]
           bad == {m \in 0..n : ~ \E f : Upto(m, f)}
<1>1. n \in Nat
  OBVIOUS
<1>2. ASSUME bad # {} PROVE FALSE
  <2>1. IsFiniteSet(0..n)
    BY <1>1, FS_Interval
  <2>2. bad \in SUBSET Nat /\ IsFiniteSet(bad)
    <3> HIDE DEF n, Upto
    <3>1. bad \in SUBSET (0..n)
      OBVIOUS
    <3>2. \A m \in 0..n : m \in Nat
      BY <1>1
    <3> HIDE DEF bad
    <3> QED BY <2>1, <3>1, <3>2, FS_Subset
  <2> HIDE DEF bad
  <2>3. PICK m \in bad : \A k \in bad : m <= k
    BY <1>2, <2>2, LeastThere
  <2>4. m \in 0..n /\ ~ \E f : Upto(m, f)
    BY <2>3 DEF bad
  <2>5. m # 0
    <3>1. Upto(0, [i \in 1..0 |-> 0])
      OBVIOUS
    <3> QED BY <2>4, <3>1
  <2>6. m - 1 \in 0..n /\ m - 1 \notin bad
    BY <1>1, <2>3, <2>4, <2>5
  <2>7. PICK f : Upto(m - 1, f)
    BY <2>6 DEF bad
  <2> DEFINE g == [i \in 1..m |-> IF i = 1 THEN seqs[i] ELSE f[i - 1] \o seqs[i]]
  <2>8. \A i \in 1..(m - 1) : g[i] = f[i]
    <3>1. \A i \in 1..(m - 1) : i \in 1..m
      BY <1>1, <2>4
    <3>2. \A i \in 1..(m - 1) : f[i] = IF i = 1 THEN seqs[i] ELSE f[i - 1] \o seqs[i]
      BY <2>7
    <3> QED BY <3>1, <3>2
  <2>9. ASSUME NEW i \in 1..m, i # 1 PROVE g[i - 1] = f[i - 1]
    <3>1. i - 1 \in 1..(m - 1)
      BY <1>1, <2>4, <2>9
    <3> HIDE DEF g
    <3> QED BY <2>8, <3>1
  <2>10. g = [i \in 1..m |-> IF i = 1 THEN seqs[i] ELSE g[i - 1] \o seqs[i]]
    BY <2>9
  <2> QED BY <2>4, <2>10
<1>3. PICK f : Upto(n, f)
  <2> HIDE DEF n, Upto
  <2>1. n \in 0..n
    BY <1>1
  <2> QED BY <1>2, <2>1
<1> QED BY <1>3 DEF Flattens

LEMMA FlattenHolds ==
  ASSUME NEW U, NEW seqs \in Seq(Seq(U))
  PROVE  /\ FlattenSeq(seqs) \in Seq(U)
         /\ \A i \in DOMAIN seqs : Holds(FlattenSeq(seqs), seqs[i])
<1>1. Len(seqs) \in Nat /\ DOMAIN seqs = 1..Len(seqs) /\ \A i \in DOMAIN seqs : seqs[i] \in Seq(U)
  OBVIOUS
<1>2. CASE Len(seqs) = 0
  <2>1. FlattenSeq(seqs) = seqs /\ seqs = <<>> /\ DOMAIN seqs = {}
    BY <1>1, <1>2 DEF FlattenSeq
  <2> QED BY <2>1
<1>3. CASE Len(seqs) # 0
  <2>1. FlattenSeq(seqs) = (CHOOSE f : Flattens(f, seqs))[Len(seqs)]
    BY <1>3 DEF FlattenSeq, Flattens
  <2>2. PICK f, n : f = (CHOOSE h : Flattens(h, seqs)) /\ n = Len(seqs)
    OBVIOUS
  <2>3. Flattens(f, seqs)
    BY <2>2, FlattenThere
  <2>4. \A i \in 1..n : f[i] = IF i = 1 THEN seqs[i] ELSE f[i - 1] \o seqs[i]
    BY <2>2, <2>3 DEF Flattens
  <2> DEFINE Good(m) == f[m] \in Seq(U) /\ \A i \in 1..m : Holds(f[m], seqs[i])
             bad == {m \in 1..n : ~Good(m)}
  <2>5. ASSUME bad # {} PROVE FALSE
    <3>1. IsFiniteSet(1..n)
      BY <1>1, <2>2, FS_Interval
    <3>2. bad \in SUBSET Nat /\ IsFiniteSet(bad)
      <4>1. bad \in SUBSET (1..n) /\ 1..n \in SUBSET Nat
        BY <1>1, <2>2
      <4> QED BY <3>1, <4>1, FS_Subset
    <3> HIDE DEF bad
    <3>3. PICK m \in bad : \A k \in bad : m <= k
      BY <2>5, <3>2, LeastThere
    <3>4. m \in 1..n /\ ~Good(m) /\ seqs[m] \in Seq(U)
      BY <1>1, <2>2, <3>3 DEF bad
    <3>5. CASE m = 1
      <4>1. f[m] = seqs[m]
        BY <2>4, <3>4, <3>5
      <4>2. Holds(f[m], seqs[m]) /\ 1..m = {m}
        BY <4>1, <3>5 DEF Holds
      <4> QED BY <3>4, <4>1, <4>2
    <3>6. CASE m # 1
      <4>1. m - 1 \in 1..n /\ m - 1 \notin bad
        BY <1>1, <2>2, <3>3, <3>4, <3>6
      <4>2. Good(m - 1)
        BY <4>1 DEF bad
      <4>3. PICK s, t : s = f[m - 1] /\ t = seqs[m]
        OBVIOUS
      <4>4. s \in Seq(U) /\ t \in Seq(U) /\ f[m] = s \o t
        BY <2>4, <3>4, <3>6, <4>2, <4>3
      <4>5. s \o t \in Seq(U) /\ Holds(s \o t, s) /\ Holds(s \o t, t)
        BY <4>4, JoinedHolds
      <4>6. ASSUME NEW i \in 1..m PROVE Holds(f[m], seqs[i])
        <5>1. CASE i = m
          BY <4>3, <4>4, <4>5, <5>1
        <5>2. CASE i # m
          <6>1. i \in 1..(m - 1)
            BY <3>4, <5>2
          <6>2. Holds(s, seqs[i])
            BY <4>2, <4>3, <6>1
          <6> QED BY <4>4, <4>5, <6>2, HoldsMore
        <5> QED BY <5>1, <5>2
      <4> QED BY <3>4, <4>4, <4>5, <4>6
    <3> QED BY <3>5, <3>6
  <2>6. Good(n)
    <3>1. n \in 1..n
      BY <1>1, <1>3, <2>2
    <3> QED BY <2>5, <3>1
  <2>7. FlattenSeq(seqs) = f[n]
    BY <2>1, <2>2
  <2> QED BY <1>1, <2>2, <2>6, <2>7
<1> QED BY <1>2, <1>3

\* A list without its repetitions names no label twice, and each it named.
LEMMA DedupHolds ==
  ASSUME NEW U, NEW labels \in Seq(U)
  PROVE  /\ Dedup(labels) \in Seq(U)
         /\ \A i, j \in DOMAIN Dedup(labels) :
              SameLabel(Dedup(labels)[i], Dedup(labels)[j]) => i = j
         /\ \A p \in DOMAIN labels : \E q \in DOMAIN Dedup(labels) :
              SameLabel(Dedup(labels)[q], labels[p])
<1> DEFINE firsts == {k \in DOMAIN labels : \A j \in 1..(k - 1) : ~SameLabel(labels[j], labels[k])}
<1>1. DOMAIN labels = 1..Len(labels) /\ Len(labels) \in Nat
  OBVIOUS
<1>2. PICK fs : fs = firsts
  OBVIOUS
<1>3. Dedup(labels) = Picked(labels, fs)
  BY <1>2 DEF Dedup
<1>4. fs \in SUBSET (DOMAIN labels)
  BY <1>2
<1>5. /\ IsFiniteSet(fs) /\ Cardinality(fs) \in Nat
      /\ Picked(labels, fs) \in Seq(U) /\ Len(Picked(labels, fs)) = Cardinality(fs)
  BY <1>4, PickedTyped
<1>6. PICK m, g : m = Cardinality(fs) /\ g = [n \in 1..m |-> PlaceOf(fs, n)]
  OBVIOUS
<1>7. fs \in SUBSET Nat
  BY <1>1, <1>4
<1>8. /\ m \in Nat /\ g \in [1..m -> fs] /\ (\A i, j \in 1..m : i < j => g[i] < g[j])
      /\ \A p \in fs : \E i \in 1..m : g[i] = p
  BY <1>5, <1>6, <1>7, PlacesRise DEF Rising
<1>9. PICK d : d = Dedup(labels)
  OBVIOUS
<1>10. d \in Seq(U) /\ DOMAIN d = 1..m /\ \A n \in 1..m : d[n] = labels[g[n]]
  <2>1. \A n \in 1..m : d[n] = labels[g[n]]
    BY <1>3, <1>6, <1>9 DEF Picked
  <2> QED BY <1>3, <1>5, <1>6, <1>9, <2>1
<1>11. ASSUME NEW i \in 1..m, NEW j \in 1..m, i < j PROVE ~SameLabel(d[i], d[j])
  <2>1. g[i] \in Nat /\ g[j] \in fs /\ g[j] \in Nat /\ g[i] < g[j] /\ g[i] \in 1..Len(labels)
    BY <1>1, <1>4, <1>7, <1>8, <1>11
  <2>2. g[i] \in 1..(g[j] - 1)
    BY <2>1
  <2>3. ~SameLabel(labels[g[i]], labels[g[j]])
    BY <1>2, <2>1, <2>2
  <2> QED BY <1>10, <2>3
<1>12. ASSUME NEW i \in 1..m, NEW j \in 1..m, SameLabel(d[i], d[j]) PROVE i = j
  <2>1. i < j \/ j < i \/ i = j
    BY <1>8
  <2>2. SameLabel(d[j], d[i])
    BY <1>12 DEF SameLabel
  <2> QED BY <1>11, <1>12, <2>1, <2>2
<1>13. ASSUME NEW p \in DOMAIN labels PROVE \E q \in 1..m : SameLabel(d[q], labels[p])
  <2> DEFINE same == {k \in DOMAIN labels : SameLabel(labels[k], labels[p])}
  <2>1. IsFiniteSet(1..Len(labels))
    BY <1>1, FS_Interval
  <2>2. same \in SUBSET Nat /\ IsFiniteSet(same) /\ p \in same
    <3>1. p \in same
      BY DEF SameLabel
    <3> QED BY <1>1, <2>1, <3>1, FS_Subset
  <2> HIDE DEF same
  <2>3. PICK k \in same : \A j \in same : k <= j
    BY <2>2, LeastThere
  <2>4. k \in DOMAIN labels /\ k \in Nat /\ SameLabel(labels[k], labels[p])
    BY <1>1, <2>3 DEF same
  <2>5. ASSUME NEW j \in 1..(k - 1) PROVE ~SameLabel(labels[j], labels[k])
    <3>1. j \in DOMAIN labels /\ ~(k <= j)
      BY <1>1, <2>4
    <3>2. j \notin same
      BY <2>3, <3>1
    <3>3. ~SameLabel(labels[j], labels[p])
      BY <3>1, <3>2 DEF same
    <3> QED BY <2>4, <3>3 DEF SameLabel
  <2>6. k \in fs
    BY <1>2, <2>4, <2>5
  <2>7. PICK q \in 1..m : g[q] = k
    BY <1>8, <2>6
  <2> QED BY <1>10, <2>4, <2>7
<1> QED BY <1>9, <1>10, <1>12, <1>13

\* The labels of an intent, and those it is sure of among all it has.
LEMMA EntityLabelsTyped ==
  ASSUME NEW intent \in IntentForms PROVE EntityLabels(intent) \in Seq(LabelTexts)
<1>1. PICK es : es = intent.entities
  OBVIOUS
<1>2. es \in Seq(EntityForms)
  BY <1>1 DEF IntentForms
<1>3. \A n \in DOMAIN es : es[n] \in EntityForms
  BY <1>2
<1> DEFINE Own(n) == <<es[n].called>> \o (IF es[n].kind = "closed" THEN es[n].configured ELSE <<>>)
           own == [n \in DOMAIN es |-> Own(n)]
<1>4. ASSUME NEW n \in DOMAIN es PROVE Own(n) \in Seq(LabelTexts)
  <2>1. es[n].called \in LabelTexts /\ es[n].configured \in Seq(LabelTexts)
    BY <1>3 DEF EntityForms
  <2> QED BY <2>1
<1> HIDE DEF Own
<1>5. own \in Seq(Seq(LabelTexts))
  <2>1. DOMAIN es = 1..Len(es) /\ Len(es) \in Nat
    BY <1>2
  <2>2. own \in [1..Len(es) -> Seq(LabelTexts)]
    BY <1>4, <2>1
  <2> QED BY <2>1, <2>2
<1>6. EntityLabels(intent) = FlattenSeq(own)
  BY <1>1 DEF EntityLabels, Own
<1> HIDE DEF own
<1> QED BY <1>5, <1>6, FlattenHolds

LEMMA LabelsTyped ==
  ASSUME NEW intent \in IntentForms
  PROVE  /\ SureLabels(intent) \in Seq(LabelTexts) /\ ScoreLabels(intent) \in Seq(LabelTexts)
         /\ Holds(ScoreLabels(intent), SureLabels(intent))
         /\ SureLabels(intent) # <<>> /\ ScoreLabels(intent) # <<>>
<1>1. PICK a, b, c : a = <<intent.name>> /\ b = intent.phrases /\ c = EntityLabels(intent)
  OBVIOUS
<1>2. a \in Seq(LabelTexts) /\ b \in Seq(LabelTexts) /\ c \in Seq(LabelTexts) /\ a # <<>>
  <2>1. intent.name \in LabelTexts /\ intent.phrases \in Seq(LabelTexts)
    BY DEF IntentForms
  <2> QED BY <1>1, <2>1, EntityLabelsTyped
<1>3. SureLabels(intent) = a \o c /\ ScoreLabels(intent) = (a \o b) \o c
  BY <1>1 DEF SureLabels, ScoreLabels
<1>4. PICK ab : ab = a \o b
  OBVIOUS
<1>5. ab \in Seq(LabelTexts) /\ Holds(ab, a)
  BY <1>2, <1>4, JoinedHolds
<1>6. PICK s, t : s = a \o c /\ t = ab \o c
  OBVIOUS
<1>7. s \in Seq(LabelTexts)
  BY <1>2, <1>6, JoinedHolds
<1>8. t \in Seq(LabelTexts) /\ Holds(t, ab) /\ Holds(t, c)
  BY <1>2, <1>5, <1>6, JoinedHolds
<1>9. Holds(t, a)
  BY <1>5, <1>8, HoldsMore
<1>10. Holds(t, s)
  <2>1. \A n \in DOMAIN s : (\E k \in DOMAIN a : s[n] = a[k]) \/ (\E k \in DOMAIN c : s[n] = c[k])
    <3>1. /\ DOMAIN s = 1..(Len(a) + Len(c)) /\ Len(a) \in Nat /\ Len(c) \in Nat
          /\ DOMAIN a = 1..Len(a) /\ DOMAIN c = 1..Len(c)
      BY <1>2, <1>6
    <3>2. \A i \in 1..(Len(a) + Len(c)) : s[i] = IF i <= Len(a) THEN a[i] ELSE c[i - Len(a)]
      BY <1>2, <1>6, ConcatProperties
    <3>3. ASSUME NEW n \in DOMAIN s
          PROVE  (\E k \in DOMAIN a : s[n] = a[k]) \/ (\E k \in DOMAIN c : s[n] = c[k])
      <4>1. CASE n <= Len(a)
        <5>1. n \in DOMAIN a
          BY <3>1, <4>1
        <5> QED BY <3>1, <3>2, <4>1, <5>1
      <4>2. CASE ~(n <= Len(a))
        <5>1. n - Len(a) \in DOMAIN c
          BY <3>1, <4>2
        <5> QED BY <3>1, <3>2, <4>2, <5>1
      <4> QED BY <4>1, <4>2
    <3> QED BY <3>3
  <2>2. \A k \in DOMAIN a : \E p \in DOMAIN t : t[p] = a[k]
    BY <1>9 DEF Holds
  <2>3. \A k \in DOMAIN c : \E p \in DOMAIN t : t[p] = c[k]
    BY <1>8 DEF Holds
  <2>4. ASSUME NEW n \in DOMAIN s PROVE \E p \in DOMAIN t : t[p] = s[n]
    <3>1. CASE \E k \in DOMAIN a : s[n] = a[k]
      BY <2>2, <3>1
    <3>2. CASE \E k \in DOMAIN c : s[n] = c[k]
      BY <2>3, <3>2
    <3> QED BY <2>1, <3>1, <3>2
  <2> QED BY <2>4 DEF Holds
<1>11. s # <<>> /\ t # <<>>
  <2>1. Len(a) \in Nat /\ Len(a) # 0 /\ Len(b) \in Nat /\ Len(c) \in Nat
    BY <1>2
  <2>2. Len(s) = Len(a) + Len(c) /\ Len(ab) = Len(a) + Len(b)
    BY <1>2, <1>4, <1>6, ConcatProperties
  <2>3. Len(t) = Len(ab) + Len(c)
    BY <1>2, <1>5, <1>6, ConcatProperties
  <2>4. Len(s) # 0 /\ Len(t) # 0
    BY <2>1, <2>2, <2>3
  <2> QED BY <1>7, <1>8, <2>4
<1> QED BY <1>3, <1>4, <1>6, <1>7, <1>8, <1>10, <1>11

\* The labels of several intents: none twice, and each that one of them has.
Covers(posed, labels) ==
  \A k \in DOMAIN labels : \E q \in DOMAIN posed : SameLabel(posed[q], labels[k])

LEMMA LabelsAskedOnce ==
  ASSUME NEW n \in Nat, NEW own \in [1..n -> Seq(LabelTexts)],
         NEW posed, posed = Dedup(FlattenSeq(own))
  PROVE  /\ posed \in Seq(LabelTexts)
         /\ \A i, j \in DOMAIN posed : SameLabel(posed[i], posed[j]) => i = j
         /\ \A m \in 1..n : Covers(posed, own[m])
<1>1. own \in Seq(Seq(LabelTexts)) /\ DOMAIN own = 1..n
  OBVIOUS
<1>2. PICK flat : flat = FlattenSeq(own)
  OBVIOUS
<1>3. flat \in Seq(LabelTexts) /\ \A m \in 1..n : Holds(flat, own[m])
  BY <1>1, <1>2, FlattenHolds
<1>4. posed = Dedup(flat)
  BY <1>2
<1>5. /\ Dedup(flat) \in Seq(LabelTexts)
      /\ \A i, j \in DOMAIN Dedup(flat) : SameLabel(Dedup(flat)[i], Dedup(flat)[j]) => i = j
      /\ \A p \in DOMAIN flat : \E q \in DOMAIN Dedup(flat) : SameLabel(Dedup(flat)[q], flat[p])
  BY ONLY <1>3, DedupHolds
<1>6. ASSUME NEW m \in 1..n, NEW k \in DOMAIN own[m]
      PROVE  \E q \in DOMAIN posed : SameLabel(posed[q], own[m][k])
  <2>1. PICK p \in DOMAIN flat : flat[p] = own[m][k]
    BY <1>3 DEF Holds
  <2> QED BY <1>4, <1>5, <2>1
<1> QED BY <1>4, <1>5, <1>6 DEF Covers

LEMMA LabelsForAll ==
  ASSUME NEW intents \in Seq(IntentForms)
  PROVE  /\ LabelsFor(intents) \in Seq(LabelTexts)
         /\ \A i, j \in DOMAIN LabelsFor(intents) :
              SameLabel(LabelsFor(intents)[i], LabelsFor(intents)[j]) => i = j
         /\ \A m \in DOMAIN intents : Covers(LabelsFor(intents), SureLabels(intents[m]))
<1>1. PICK n : n = Len(intents)
  OBVIOUS
<1>2. n \in Nat /\ DOMAIN intents = 1..n /\ \A m \in 1..n : intents[m] \in IntentForms
  BY <1>1
<1>3. PICK scored : scored = [m \in DOMAIN intents |-> ScoreLabels(intents[m])]
  OBVIOUS
<1>4. PICK sure : sure = [m \in DOMAIN intents |-> SureLabels(intents[m])]
  OBVIOUS
<1>5. scored \in [1..n -> Seq(LabelTexts)] /\ sure \in [1..n -> Seq(LabelTexts)]
  <2>1. \A m \in 1..n : ScoreLabels(intents[m]) \in Seq(LabelTexts)
                        /\ SureLabels(intents[m]) \in Seq(LabelTexts)
    BY <1>2, LabelsTyped
  <2> QED BY <1>2, <1>3, <1>4, <2>1
<1>6. PICK s, t, l : s = Dedup(FlattenSeq(scored)) /\ t = Dedup(FlattenSeq(sure)) /\ l = LabelsFor(intents)
  OBVIOUS
<1>7. l = s \/ l = t
  BY <1>3, <1>4, <1>6 DEF LabelsFor
<1>8. /\ s \in Seq(LabelTexts)
      /\ \A i, j \in DOMAIN s : SameLabel(s[i], s[j]) => i = j
      /\ \A m \in 1..n : Covers(s, scored[m])
  BY <1>2, <1>5, <1>6, LabelsAskedOnce
<1>9. /\ t \in Seq(LabelTexts)
      /\ \A i, j \in DOMAIN t : SameLabel(t[i], t[j]) => i = j
      /\ \A m \in 1..n : Covers(t, sure[m])
  BY <1>2, <1>5, <1>6, LabelsAskedOnce
<1>10. ASSUME NEW m \in 1..n PROVE Covers(s, SureLabels(intents[m]))
  <2>1. scored[m] = ScoreLabels(intents[m]) /\ Holds(ScoreLabels(intents[m]), SureLabels(intents[m]))
    BY <1>2, <1>3, LabelsTyped
  <2>2. Covers(s, ScoreLabels(intents[m]))
    BY <1>8, <2>1
  <2> QED BY <2>1, <2>2 DEF Covers, Holds
<1>11. ASSUME NEW m \in 1..n PROVE Covers(t, SureLabels(intents[m]))
  BY <1>2, <1>4, <1>9
<1>12. CASE l = s
  BY <1>2, <1>6, <1>8, <1>10, <1>12
<1>13. CASE l = t
  BY <1>2, <1>6, <1>9, <1>11, <1>13
<1> QED BY <1>7, <1>12, <1>13

LEMMA ImageFinite ==
  ASSUME NEW S, IsFiniteSet(S), NEW f PROVE IsFiniteSet({f[x] : x \in S})
<1> DEFINE T == {f[x] : x \in S}
           g == [x \in S |-> f[x]]
<1>1. g \in Surjection(S, T)
  BY DEF Surjection
<1> HIDE DEF g, T
<1>2. IsFiniteSet(T)
  BY <1>1, FS_Surjection
<1> QED BY <1>2 DEF T

\* A part of a number that is the whole of it.
LEMMA WholeShare == ASSUME NEW a \in Nat, NEW n \in Nat, n # 0 PROVE (a * n) \div n = a
OBVIOUS

LEMMA ShareTyped == ASSUME NEW a \in Nat, NEW n \in Nat, n # 0 PROVE a \div n \in Nat
OBVIOUS

LEMMA WordsInTyped ==
  ASSUME NEW words \in Seq(Words), NEW set PROVE WordsIn(words, set) \in Seq(Words)
<1>1. PICK at : at = {n \in DOMAIN words : words[n] \in set}
  OBVIOUS
<1>2. at \in SUBSET (DOMAIN words)
  BY <1>1
<1>3. Picked(words, at) \in Seq(Words)
  BY <1>2, PickedTyped
<1> QED BY <1>1, <1>3 DEF WordsIn

\* What the model found for a label is a score.
Scored(hits) == \A label : HitScore(hits, label) \in Nat

LEMMA HitsScored ==
  ASSUME NEW labels, NEW spans, NEW hits \in Hits(labels, spans) PROVE Scored(hits)
<1>1. PICK found : hits \in [found -> [score : Scores, span : spans]]
  BY DEF Hits
<1>2. ASSUME NEW label PROVE HitScore(hits, label) \in Nat
  <2>1. CASE label.words \in DOMAIN hits
    <3>1. hits[label.words] \in [score : Scores, span : spans]
      BY <1>1, <2>1
    <3>2. hits[label.words].score \in Scores
      BY <3>1
    <3>3. hits[label.words].score \in 1..FullScore /\ FullScore \in Nat
      BY <3>2, LabelsAssumption
    <3> QED BY <2>1, <3>3 DEF HitScore
  <2>2. CASE label.words \notin DOMAIN hits
    BY <2>2 DEF HitScore
  <2> QED BY <2>1, <2>2
<1> QED BY <1>2 DEF Scored

LEMMA ReadScoreTyped ==
  ASSUME NEW intent \in IntentForms, NEW hits, Scored(hits) PROVE ReadScore(intent, hits) \in Nat
<1>1. PICK s : s = ScoreLabels(intent)
  OBVIOUS
<1>2. s \in Seq(LabelTexts) /\ s # <<>>
  BY <1>1, LabelsTyped
<1>3. DOMAIN s = 1..Len(s) /\ Len(s) \in Nat /\ Len(s) # 0
  BY <1>2
<1>4. PICK f : f = [n \in DOMAIN s |-> HitScore(hits, s[n])]
  OBVIOUS
<1>5. PICK S : S = {HitScore(hits, label) : label \in ToSet(s)}
  OBVIOUS
<1>6. S = {f[n] : n \in DOMAIN s}
  BY <1>4, <1>5 DEF ToSet
<1>7. IsFiniteSet(DOMAIN s)
  BY <1>3, FS_Interval
<1>8. IsFiniteSet(S)
  BY <1>6, <1>7, ImageFinite
<1>9. S \in SUBSET Nat
  BY <1>5 DEF Scored
<1>10. S # {}
  <2>1. 1 \in DOMAIN s
    BY <1>3
  <2> QED BY <1>6, <2>1
<1>11. Highest(S) \in Nat
  BY <1>8, <1>9, <1>10, HighestThere
<1> QED BY <1>1, <1>5, <1>11 DEF ReadScore

LEMMA WordScoreWhole ==
  ASSUME NEW intent \in IntentForms
  PROVE  /\ WordScore(intent) \in Nat
         /\ \A label \in {intent.name} \cup ToSet(intent.phrases) :
              AllHeld(label) => FullScore <= WordScore(intent)
<1> DEFINE telling == {intent.name} \cup ToSet(intent.phrases)
           named == {l \in telling : NamingWords(l) # <<>>}
           Share(label) == (FullScore * Len(HeldWords(label))) \div Len(NamingWords(label))
           share == [label \in named |-> Share(label)]
           S == {0} \cup {Share(label) : label \in named}
<1>1. intent.name \in LabelTexts /\ intent.phrases \in Seq(LabelTexts)
  BY DEF IntentForms
<1>2. telling \in SUBSET LabelTexts /\ IsFiniteSet(telling)
  <2>1. PICK s : s = intent.phrases
    OBVIOUS
  <2>2. s \in Seq(LabelTexts) /\ DOMAIN s = 1..Len(s) /\ Len(s) \in Nat
    BY <1>1, <2>1
  <2>3. IsFiniteSet(DOMAIN s)
    BY <2>2, FS_Interval
  <2>4. IsFiniteSet(ToSet(s)) /\ ToSet(s) \in SUBSET LabelTexts
    BY <2>2, <2>3, ImageFinite DEF ToSet
  <2>5. IsFiniteSet({intent.name})
    BY FS_Singleton
  <2> QED BY <1>1, <2>1, <2>4, <2>5, FS_Union
<1>3. ASSUME NEW label \in telling
      PROVE  NamingWords(label) \in Seq(Words) /\ HeldWords(label) \in Seq(Words)
  <2>1. label.words \in Seq(Words)
    BY <1>2 DEF LabelTexts
  <2>2. NamingWords(label) \in Seq(Words)
    BY <2>1, WordsInTyped DEF NamingWords
  <2> QED BY <2>2, WordsInTyped DEF HeldWords
<1>4. FullScore \in Nat
  BY LabelsAssumption
<1> HIDE DEF telling
<1>5. ASSUME NEW label \in named PROVE Share(label) \in Nat
  <2>1. PICK h, n : h = Len(HeldWords(label)) /\ n = Len(NamingWords(label))
    OBVIOUS
  <2>2. h \in Nat /\ n \in Nat /\ n # 0
    <3>1. label \in telling /\ NamingWords(label) # <<>>
      OBVIOUS
    <3>2. NamingWords(label) \in Seq(Words) /\ HeldWords(label) \in Seq(Words)
      BY <1>3, <3>1
    <3> QED BY <2>1, <3>1, <3>2
  <2>3. FullScore * h \in Nat
    BY <1>4, <2>2
  <2>4. (FullScore * h) \div n \in Nat
    BY <2>2, <2>3, ShareTyped
  <2> QED BY <2>1, <2>4
<1> HIDE DEF Share
<1>6. S \in SUBSET Nat /\ IsFiniteSet(S) /\ S # {}
  <2>1. IsFiniteSet(named)
    BY <1>2, FS_Subset
  <2>2. PICK of, g : of = named /\ g = share
    OBVIOUS
  <2>3. IsFiniteSet({Share(label) : label \in named})
    <3>1. IsFiniteSet({g[l] : l \in of})
      BY <2>1, <2>2, ImageFinite
    <3>2. {g[l] : l \in of} = {Share(label) : label \in named}
      BY <2>2
    <3> QED BY <3>1, <3>2
  <2>4. IsFiniteSet({0})
    BY FS_Singleton
  <2>5. IsFiniteSet(S)
    BY <2>3, <2>4, FS_Union
  <2> QED BY <1>5, <2>5
<1>7. WordScore(intent) = Highest(S)
  BY DEF WordScore, Share, telling
<1> HIDE DEF S
<1>8. Highest(S) \in Nat /\ \A n \in S : n <= Highest(S)
  BY <1>6, HighestThere
<1>9. ASSUME NEW label \in telling, AllHeld(label) PROVE FullScore \in S
  <2>1. NamingWords(label) # <<>> /\ HeldWords(label) = NamingWords(label)
    BY <1>9 DEF AllHeld
  <2>2. PICK n : n = Len(NamingWords(label))
    OBVIOUS
  <2>3. n \in Nat /\ n # 0
    BY <1>3, <2>1, <2>2
  <2>4. (FullScore * n) \div n = FullScore
    BY <1>4, <2>3, WholeShare
  <2>5. Share(label) = FullScore
    BY <2>1, <2>2, <2>4 DEF Share
  <2>6. label \in named
    BY <2>1
  <2> QED BY <2>5, <2>6 DEF S
<1> QED BY <1>7, <1>8, <1>9 DEF telling

LEMMA IntentScoreTyped ==
  ASSUME NEW intent \in IntentForms, NEW hits, Scored(hits)
  PROVE  IntentScore(intent, hits) \in Nat /\ WordScore(intent) <= IntentScore(intent, hits)
<1>1. PICK r, w : r = ReadScore(intent, hits) /\ w = WordScore(intent)
  OBVIOUS
<1>2. r \in Nat /\ w \in Nat
  BY <1>1, ReadScoreTyped, WordScoreWhole
<1>3. IsFiniteSet({r, w})
  <2>1. IsFiniteSet({r}) /\ IsFiniteSet({w}) /\ {r, w} = {r} \cup {w}
    BY FS_Singleton
  <2> QED BY <2>1, FS_Union
<1>4. {r, w} \in SUBSET Nat /\ {r, w} # {}
  BY <1>2
<1>5. Highest({r, w}) \in {r, w} /\ \A n \in {r, w} : n <= Highest({r, w})
  BY <1>3, <1>4, HighestThere
<1>6. IntentScore(intent, hits) = Highest({r, w})
  BY <1>1 DEF IntentScore
<1> QED BY <1>1, <1>2, <1>5, <1>6

\* There is a first one among the intents with the best score.
LEMMA BestIntentBest ==
  ASSUME intentList \in Seq(IntentForms), intentList # <<>>, NEW hits, Scored(hits)
  PROVE  /\ BestIntent(hits) \in DOMAIN intentList
         /\ \A j \in DOMAIN intentList :
              IntentScore(intentList[j], hits) <= IntentScore(intentList[BestIntent(hits)], hits)
<1>1. PICK n : n = Len(intentList)
  OBVIOUS
<1>2. n \in Nat /\ n # 0 /\ DOMAIN intentList = 1..n /\ \A k \in 1..n : intentList[k] \in IntentForms
  BY <1>1
<1>3. PICK f : f = [k \in 1..n |-> IntentScore(intentList[k], hits)]
  OBVIOUS
<1>4. f \in [1..n -> Nat]
  BY <1>2, <1>3, IntentScoreTyped
<1>5. PICK S : S = {f[k] : k \in 1..n}
  OBVIOUS
<1>6. IsFiniteSet(1..n)
  BY <1>2, FS_Interval
<1>7. S \in SUBSET Nat /\ S # {} /\ IsFiniteSet(S)
  <2>1. 1 \in 1..n
    BY <1>2
  <2> QED BY <1>4, <1>5, <1>6, <2>1, ImageFinite
<1>8. PICK m \in S : \A x \in S : x <= m
  BY <1>7, HighestThere
<1>9. PICK T : T = {k \in 1..n : f[k] = m}
  OBVIOUS
<1>10. T \in SUBSET Nat /\ T # {} /\ IsFiniteSet(T)
  <2>1. \A k \in 1..n : k \in Nat
    BY <1>2
  <2> QED BY <1>5, <1>6, <1>8, <1>9, <2>1, FS_Subset
<1>11. PICK best \in T : \A k \in T : best <= k
  BY <1>10, LeastThere
<1>12. ASSUME NEW j \in 1..n PROVE f[j] < f[best] \/ (f[j] = f[best] /\ best <= j)
  <2>1. f[j] \in S /\ f[j] \in Nat /\ m \in Nat /\ f[best] = m
    BY <1>4, <1>5, <1>7, <1>8, <1>9, <1>11
  <2>2. f[j] <= m
    BY <1>8, <2>1
  <2>3. f[j] = m => best <= j
    BY <1>9, <1>11
  <2> QED BY <2>1, <2>2, <2>3
<1>13. best \in DOMAIN intentList
  BY <1>2, <1>9, <1>11
<1>14. BestIntent(hits) = CHOOSE k \in 1..n : \A j \in 1..n : f[j] < f[k] \/ (f[j] = f[k] /\ k <= j)
  BY <1>2, <1>3 DEF BestIntent
<1>15. PICK b : b = BestIntent(hits)
  OBVIOUS
<1>16. b \in 1..n /\ \A j \in 1..n : f[j] < f[b] \/ (f[j] = f[b] /\ b <= j)
  BY <1>2, <1>12, <1>13, <1>14, <1>15
<1>17. \A j \in 1..n : f[j] <= f[b]
  <2>1. \A j \in 1..n : f[j] \in Nat
    BY <1>4
  <2> QED BY <1>16, <2>1
<1> QED BY <1>2, <1>3, <1>15, <1>16, <1>17

\* Of finitely many there is one with the least first number, among those the
\* greatest second, and among those the least third.
IsBest(f, F, r, s, l) ==
  \A g \in F :
    \/ r[f] < r[g]
    \/ r[f] = r[g] /\ (s[f] > s[g] \/ (s[f] = s[g] /\ l[f] <= l[g]))

LEMMA BestThere ==
  ASSUME NEW F, IsFiniteSet(F), F # {},
         NEW r \in [F -> Nat], NEW s \in [F -> Nat], NEW l \in [F -> Nat]
  PROVE  \E f \in F : IsBest(f, F, r, s, l)
<1>1. PICK A : A = {r[f] : f \in F}
  OBVIOUS
<1>2. A \in SUBSET Nat /\ A # {} /\ IsFiniteSet(A)
  BY <1>1, ImageFinite
<1>3. PICK a \in A : \A x \in A : a <= x
  BY <1>2, LeastThere
<1>4. PICK G : G = {f \in F : r[f] = a}
  OBVIOUS
<1>5. G \in SUBSET F /\ G # {} /\ IsFiniteSet(G)
  BY <1>1, <1>3, <1>4, FS_Subset
<1>6. PICK B : B = {s[f] : f \in G}
  OBVIOUS
<1>7. B \in SUBSET Nat /\ B # {} /\ IsFiniteSet(B)
  BY <1>5, <1>6, ImageFinite
<1>8. PICK b \in B : \A x \in B : x <= b
  BY <1>7, HighestThere
<1>9. PICK H : H = {f \in G : s[f] = b}
  OBVIOUS
<1>10. H \in SUBSET F /\ H # {} /\ IsFiniteSet(H)
  BY <1>5, <1>6, <1>8, <1>9, FS_Subset
<1>11. PICK C : C = {l[f] : f \in H}
  OBVIOUS
<1>12. C \in SUBSET Nat /\ C # {} /\ IsFiniteSet(C)
  BY <1>10, <1>11, ImageFinite
<1>13. PICK c \in C : \A x \in C : c <= x
  BY <1>12, LeastThere
<1>14. PICK f \in H : l[f] = c
  BY <1>11
<1>15. f \in F /\ f \in G /\ r[f] = a /\ s[f] = b
  BY <1>4, <1>5, <1>9, <1>10, <1>14
<1>16. a \in Nat /\ b \in Nat /\ c \in Nat
  BY <1>2, <1>7, <1>12
<1>17. ASSUME NEW g \in F
       PROVE  \/ r[f] < r[g]
              \/ r[f] = r[g] /\ (s[f] > s[g] \/ (s[f] = s[g] /\ l[f] <= l[g]))
  <2>1. r[g] \in Nat /\ s[g] \in Nat /\ l[g] \in Nat
    OBVIOUS
  <2>2. a <= r[g]
    BY <1>1, <1>3
  <2>3. r[g] = a => s[g] <= b
    BY <1>4, <1>6, <1>8
  <2>4. r[g] = a /\ s[g] = b => c <= l[g]
    BY <1>4, <1>9, <1>11, <1>13
  <2> QED BY <1>14, <1>15, <1>16, <2>1, <2>2, <2>3, <2>4
<1> QED BY <1>15, <1>17 DEF IsBest

LEMMA SharedStartTyped ==
  ASSUME NEW mention, NEW entry \in LabelTexts PROVE SharedStart(mention, entry) \in Nat
<1>1. PICK w : w = entry.words
  OBVIOUS
<1>2. w \in Seq(Words)
  BY <1>1 DEF LabelTexts
<1>3. DOMAIN w = 1..Len(w) /\ Len(w) \in Nat
  BY <1>2
<1>4. IsFiniteSet(DOMAIN w)
  BY <1>3, FS_Interval
<1>5. PICK at : at = {n \in DOMAIN mention \cap DOMAIN w : SubSeq(mention, 1, n) = SubSeq(w, 1, n)}
  OBVIOUS
<1>6. at \in SUBSET (DOMAIN w)
  BY <1>5
<1>7. IsFiniteSet(at)
  BY <1>4, <1>6, FS_Subset
<1>8. Cardinality(at) \in Nat
  BY <1>7, FS_CardinalityType
<1> QED BY <1>1, <1>5, <1>8 DEF SharedStart

\* What the mentions name is an entry of the list, and an entry that is
\* mentioned word for word is not lost.
LEMMA BestOfHolds ==
  ASSUME NEW mentions, IsFiniteSet(mentions), NEW entries \in Seq(LabelTexts)
  PROVE  /\ BestOf(mentions, entries) \in ToSet(entries) \cup {NoText}
         /\ (\E entry \in ToSet(entries) : entry.words \in mentions) => BestOf(mentions, entries) # NoText
<1>1. DOMAIN entries = 1..Len(entries) /\ Len(entries) \in Nat /\ \A k \in DOMAIN entries : entries[k] \in LabelTexts
  OBVIOUS
<1>2. IsFiniteSet(DOMAIN entries)
  BY <1>1, FS_Interval
<1>3. IsFiniteSet(mentions \X (DOMAIN entries))
  BY <1>2, FS_Product
<1>4. PICK F : F = {f \in mentions \X (DOMAIN entries) : RuleOf(f[1], entries[f[2]]) < 4}
  OBVIOUS
<1>5. F \in SUBSET (mentions \X (DOMAIN entries))
  BY <1>4
<1>6. IsFiniteSet(F)
  BY <1>3, <1>5, FS_Subset
<1>7. \A f \in F : f[2] \in DOMAIN entries
  BY <1>5
<1>8. BestOf(mentions, entries) =
        IF F = {} THEN NoText
        ELSE entries[(CHOOSE f \in F : \A g \in F : NoWorse(f[1], entries[f[2]], g[1], entries[g[2]]))[2]]
  BY <1>4 DEF BestOf
<1>9. ASSUME F # {} PROVE \E f \in F : \A g \in F : NoWorse(f[1], entries[f[2]], g[1], entries[g[2]])
  <2>1. PICK r, s, l : /\ r = [f \in F |-> RuleOf(f[1], entries[f[2]])]
                       /\ s = [f \in F |-> SharedStart(f[1], entries[f[2]])]
                       /\ l = [f \in F |-> Len(entries[f[2]].words)]
    OBVIOUS
  <2>2. ASSUME NEW f \in F
        PROVE  /\ RuleOf(f[1], entries[f[2]]) \in Nat /\ SharedStart(f[1], entries[f[2]]) \in Nat
               /\ Len(entries[f[2]].words) \in Nat
    <3>1. entries[f[2]] \in LabelTexts
      BY <1>1, <1>7
    <3>2. entries[f[2]].words \in Seq(Words)
      BY <3>1 DEF LabelTexts
    <3>3. Len(entries[f[2]].words) \in Nat
      BY <3>2
    <3>4. SharedStart(f[1], entries[f[2]]) \in Nat
      BY <3>1, SharedStartTyped
    <3>5. RuleOf(f[1], entries[f[2]]) \in Nat
      BY DEF RuleOf
    <3> QED BY <3>3, <3>4, <3>5
  <2>3. r \in [F -> Nat] /\ s \in [F -> Nat] /\ l \in [F -> Nat]
    BY <2>1, <2>2
  <2>4. PICK f \in F : IsBest(f, F, r, s, l)
    BY <1>6, <1>9, <2>3, BestThere
  <2>5. ASSUME NEW g \in F PROVE NoWorse(f[1], entries[f[2]], g[1], entries[g[2]])
    BY <2>1, <2>4 DEF NoWorse, IsBest
  <2> QED BY <2>5
<1>10. ASSUME F # {}
       PROVE  BestOf(mentions, entries) \in ToSet(entries) /\ BestOf(mentions, entries) \in LabelTexts
  <2>1. PICK f : f = CHOOSE h \in F : \A g \in F : NoWorse(h[1], entries[h[2]], g[1], entries[g[2]])
    OBVIOUS
  <2>2. f \in F
    BY <1>9, <1>10, <2>1
  <2>3. f[2] \in DOMAIN entries
    BY <1>7, <2>2
  <2>4. BestOf(mentions, entries) = entries[f[2]]
    BY <1>8, <1>10, <2>1
  <2> QED BY <1>1, <2>3, <2>4 DEF ToSet
<1>11. ASSUME NEW entry \in ToSet(entries), entry.words \in mentions PROVE F # {}
  <2>1. PICK k \in DOMAIN entries : entries[k] = entry
    BY DEF ToSet
  <2>2. RuleOf(entry.words, entries[k]) = 1
    BY <2>1 DEF RuleOf
  <2>3. <<entry.words, k>> \in F
    BY <1>4, <1>11, <2>1, <2>2
  <2> QED BY <2>3
<1>12. NoText \notin LabelTexts
  BY LabelsAssumption
<1>13. BestOf(mentions, entries) \in ToSet(entries) \cup {NoText}
  BY <1>8, <1>10
<1> QED BY <1>10, <1>11, <1>12, <1>13

LEMMA MentionsFinite == ASSUME message \in Seq(Words) PROVE IsFiniteSet(Mentions)
<1>1. PICK D : D = DOMAIN message
  OBVIOUS
<1>2. IsFiniteSet(D)
  <2>1. D = 1..Len(message) /\ Len(message) \in Nat
    BY <1>1
  <2> QED BY <2>1, FS_Interval
<1>3. IsFiniteSet(D \X D)
  BY <1>2, FS_Product
<1>4. PICK f : f = [p \in D \X D |-> SubSeq(message, p[1], p[2])]
  OBVIOUS
<1>5. IsFiniteSet({f[p] : p \in D \X D})
  BY <1>3, ImageFinite
<1>6. Windows(message) \subseteq {f[p] : p \in D \X D}
  <2>1. ASSUME NEW w \in Windows(message) PROVE \E p \in D \X D : w = f[p]
    <3>1. PICK i \in D, j \in D : w = SubSeq(message, i, j)
      BY <1>1 DEF Windows
    <3>2. <<i, j>> \in D \X D /\ f[<<i, j>>] = w
      BY <1>4, <3>1
    <3> QED BY <3>2
  <2> QED BY <2>1
<1>7. Mentions \subseteq {f[p] : p \in D \X D}
  BY <1>6 DEF Mentions
<1> QED BY <1>5, <1>7, FS_Subset

\* What is read at a place of the choices is a choice.
LEMMA ChoiceAt ==
  ASSUME NEW U, NEW s \in Seq(U), NEW at \in SUBSET (DOMAIN s)
  PROVE  FirstAt(s, at) \in ToSet(s) \cup {NoText} /\ LastAt(s, at) \in ToSet(s) \cup {NoText}
<1>1. DOMAIN s = 1..Len(s) /\ Len(s) \in Nat
  OBVIOUS
<1>2. IsFiniteSet(1..Len(s))
  BY <1>1, FS_Interval
<1>3. at \in SUBSET Nat /\ IsFiniteSet(at)
  BY <1>1, <1>2, FS_Subset
<1>4. ASSUME at # {} PROVE FirstAt(s, at) \in ToSet(s) /\ LastAt(s, at) \in ToSet(s)
  <2>1. \E k \in at : \A j \in at : k <= j
    BY <1>3, <1>4, LeastThere
  <2>2. \E k \in at : \A j \in at : j <= k
    BY <1>3, <1>4, HighestThere
  <2>3. PICK k, n : /\ k = CHOOSE p \in at : \A j \in at : p <= j
                    /\ n = CHOOSE p \in at : \A j \in at : j <= p
    OBVIOUS
  <2>4. k \in at /\ n \in at
    BY <2>1, <2>2, <2>3
  <2>5. FirstAt(s, at) = s[k] /\ LastAt(s, at) = s[n]
    BY <1>4, <2>3 DEF FirstAt, LastAt
  <2> QED BY <2>4, <2>5 DEF ToSet
<1> QED BY <1>4 DEF FirstAt, LastAt

\* A value stands for its entity: a choice is one of the list, and what is said
\* in free words does not repeat the message.
Stands(entity, value) ==
  /\ entity.kind = "closed" /\ entity.configured # <<>> =>
       value \in ToSet(entity.configured) \cup {NoText}
  /\ entity.kind = "open" => value = NoText \/ value.words # message

LEMMA SpanValueStands ==
  ASSUME NEW entity \in EntityForms, NEW hits PROVE Stands(entity, SpanValue(entity, hits))
<1>1. CASE entity.kind = "closed" /\ entity.configured # <<>>
  <2>1. PICK s : s = entity.configured
    OBVIOUS
  <2>2. s \in Seq(LabelTexts) /\ s # <<>> /\ OptionsOf(entity) = s
    BY <1>1, <2>1 DEF EntityForms, OptionsOf
  <2>3. PICK best : best = Highest({0} \cup {HitScore(hits, value) : value \in ToSet(s)})
    OBVIOUS
  <2>4. PICK found, told :
          /\ found = LastAt(s, {k \in DOMAIN s : best > 0 /\ HitScore(hits, s[k]) = best})
          /\ told = FirstAt(s, Saying(s, Windows(message)))
    OBVIOUS
  <2>5. SpanValue(entity, hits) = IF found # NoText THEN found ELSE told
    BY <2>2, <2>3, <2>4 DEF SpanValue
  <2>6. {k \in DOMAIN s : best > 0 /\ HitScore(hits, s[k]) = best} \in SUBSET (DOMAIN s)
    OBVIOUS
  <2>7. Saying(s, Windows(message)) \in SUBSET (DOMAIN s)
    BY DEF Saying
  <2>8. found \in ToSet(s) \cup {NoText} /\ told \in ToSet(s) \cup {NoText}
    BY <2>2, <2>4, <2>6, <2>7, ChoiceAt
  <2> QED BY <1>1, <2>1, <2>5, <2>8 DEF Stands
<1>2. CASE entity.kind = "open"
  <2>1. OptionsOf(entity) = <<>>
    BY <1>2 DEF OptionsOf
  <2>2. \/ SpanValue(entity, hits) = NoText
        \/ ReadsAsValue(SpanValue(entity, hits))
    BY <2>1 DEF SpanValue
  <2> QED BY <1>2, <2>2 DEF Stands, ReadsAsValue
<1>3. CASE ~(entity.kind = "closed" /\ entity.configured # <<>>) /\ entity.kind # "open"
  BY <1>3 DEF Stands
<1> QED BY <1>1, <1>2, <1>3

LEMMA ParsedValueStands ==
  ASSUME NEW entity \in EntityForms, NEW text PROVE Stands(entity, ParsedValue(entity, text))
<1>1. CASE entity.kind = "closed" /\ entity.configured # <<>>
  <2>1. PICK s : s = entity.configured
    OBVIOUS
  <2>2. s \in Seq(LabelTexts) /\ s # <<>> /\ OptionsOf(entity) = s
    BY <1>1, <2>1 DEF EntityForms, OptionsOf
  <2>3. \/ ParsedValue(entity, text) = NoText
        \/ ParsedValue(entity, text) = FirstAt(s, Saying(s, {text.words}))
    BY <2>2 DEF ParsedValue
  <2>4. Saying(s, {text.words}) \in SUBSET (DOMAIN s)
    BY DEF Saying
  <2>5. FirstAt(s, Saying(s, {text.words})) \in ToSet(s) \cup {NoText}
    BY <2>2, <2>4, ChoiceAt
  <2> QED BY <1>1, <2>1, <2>3, <2>5 DEF Stands
<1>2. CASE entity.kind = "open"
  <2>1. OptionsOf(entity) = <<>>
    BY <1>2 DEF OptionsOf
  <2>2. ParsedValue(entity, text) = NoText \/ ReadsAsValue(ParsedValue(entity, text))
    BY <2>1 DEF ParsedValue
  <2> QED BY <1>2, <2>2 DEF Stands, ReadsAsValue
<1>3. CASE ~(entity.kind = "closed" /\ entity.configured # <<>>) /\ entity.kind # "open"
  BY <1>3 DEF Stands
<1> QED BY <1>1, <1>2, <1>3

ValuesRead ==
  /\ DOMAIN values = DOMAIN ChosenIntent.entities
  /\ \A e \in DOMAIN values : Stands(ChosenIntent.entities[e], values[e])

LabelsInv ==
  /\ intentList \in IntentLists /\ message \in Heard /\ prints \in Listings
  /\ listed \in Listings \cup {<<>>}
  /\ labelStep = "labels" => readBy = "gliner" /\ labelsRead = LabelsFor(intentList)
  /\ labelStep \in {"named", "spans", "words", "read", "done"} => chosen \in DOMAIN intentList
  /\ labelStep = "read" => ValuesRead
  /\ WordsNameIntent /\ ValuesHold

LEMMA TurnTyped ==
  ASSUME LabelsInv
  PROVE  /\ intentList \in Seq(IntentForms) /\ intentList # <<>> /\ message \in Seq(Words)
         /\ listed \in Seq(LabelTexts) /\ prints \in Seq(LabelTexts)
         /\ chosen \in DOMAIN intentList =>
              /\ ChosenIntent \in IntentForms /\ ChosenIntent.entities \in Seq(EntityForms)
              /\ \A e \in DOMAIN ChosenIntent.entities : ChosenIntent.entities[e] \in EntityForms
<1>1. intentList \in Seq(IntentForms) /\ intentList # <<>> /\ message \in Seq(Words)
  BY LabelsAssumption DEF LabelsInv
<1>2. listed \in Seq(LabelTexts) /\ prints \in Seq(LabelTexts)
  <2>1. <<>> \in Seq(LabelTexts)
    OBVIOUS
  <2> QED BY <2>1, LabelsAssumption DEF LabelsInv
<1>3. ASSUME chosen \in DOMAIN intentList
      PROVE  /\ ChosenIntent \in IntentForms /\ ChosenIntent.entities \in Seq(EntityForms)
             /\ \A e \in DOMAIN ChosenIntent.entities : ChosenIntent.entities[e] \in EntityForms
  <2>1. PICK x : x = ChosenIntent
    OBVIOUS
  <2>2. x \in IntentForms
    BY <1>1, <1>3, <2>1 DEF ChosenIntent
  <2>3. PICK es : es = x.entities
    OBVIOUS
  <2>4. es \in Seq(EntityForms)
    BY <2>2, <2>3 DEF IntentForms
  <2>5. \A e \in DOMAIN es : es[e] \in EntityForms
    BY <2>4
  <2> QED BY <2>1, <2>2, <2>3, <2>4, <2>5
<1> QED BY <1>1, <1>2, <1>3

LEMMA LabelsInvInitially == LabelsInit => LabelsInv
BY DEF LabelsInit, LabelsInv, WordsNameIntent, ValuesHold

LEMMA ScoreIntentsKept == ASSUME LabelsInv, ScoreIntents PROVE LabelsInv'
<1>1. labelStep = "labels" /\ intentList \in Seq(IntentForms) /\ intentList # <<>>
  BY TurnTyped DEF ScoreIntents
<1>2. PICK hits \in Hits(labelsRead, {TextOf(message)}) :
        IF IntentScore(intentList[BestIntent(hits)], hits) < Threshold
        THEN labelStep' = "refused" /\ UNCHANGED chosen
        ELSE labelStep' = "named" /\ chosen' = BestIntent(hits)
  BY DEF ScoreIntents
<1>3. Scored(hits)
  BY HitsScored
<1>4. /\ BestIntent(hits) \in DOMAIN intentList
      /\ \A j \in DOMAIN intentList :
           IntentScore(intentList[j], hits) <= IntentScore(intentList[BestIntent(hits)], hits)
  BY <1>1, <1>3, BestIntentBest
<1>5. UNCHANGED <<readBy, intentList, message, prints, listed, values>>
  BY DEF ScoreIntents
<1>6. CASE labelStep' = "named"
  <2>1. chosen' \in DOMAIN intentList'
    BY <1>2, <1>4, <1>5, <1>6
  <2> QED BY <1>5, <1>6, <2>1 DEF LabelsInv, WordsNameIntent, ValuesHold
<1>7. CASE labelStep' = "refused"
  <2>1. PICK b : b = IntentScore(intentList[BestIntent(hits)], hits)
    OBVIOUS
  <2>2. b < Threshold
    BY <1>2, <1>7, <2>1
  <2>3. ASSUME NEW k \in DOMAIN intentList,
               NEW label \in {intentList[k].name} \cup ToSet(intentList[k].phrases), AllHeld(label)
        PROVE  FALSE
    <3>1. PICK w, c : w = WordScore(intentList[k]) /\ c = IntentScore(intentList[k], hits)
      OBVIOUS
    <3>2. intentList[k] \in IntentForms
      BY <1>1
    <3>3. w \in Nat /\ FullScore <= w
      BY <2>3, <3>1, <3>2, WordScoreWhole
    <3>4. c \in Nat /\ w <= c
      BY <1>3, <3>1, <3>2, IntentScoreTyped
    <3>5. b \in Nat /\ c <= b
      <4>1. intentList[BestIntent(hits)] \in IntentForms
        BY <1>1, <1>4
      <4> QED BY <1>3, <1>4, <2>1, <3>1, <4>1, IntentScoreTyped
    <3>6. FullScore \in Nat /\ Threshold \in Nat /\ Threshold <= FullScore
      BY LabelsAssumption
    <3> QED BY <2>2, <3>3, <3>4, <3>5, <3>6
  <2>4. \A label : AllHeld(label)' <=> AllHeld(label)
    BY <1>5 DEF AllHeld, HeldWords
  <2>5. WordsNameIntent'
    BY <1>5, <2>3, <2>4 DEF WordsNameIntent
  <2> QED BY <1>5, <1>7, <2>5 DEF LabelsInv, ValuesHold
<1> QED BY <1>2, <1>6, <1>7

LEMMA ReadSpansKept == ASSUME LabelsInv, ReadSpans PROVE LabelsInv'
<1>1. labelStep = "spans" /\ chosen \in DOMAIN intentList
  BY DEF ReadSpans, LabelsInv
<1>2. UNCHANGED <<readBy, intentList, message, labelsRead, chosen, prints, listed>>
  BY DEF ReadSpans
<1>3. PICK hits : values' = [e \in DOMAIN ChosenIntent.entities |->
                               SpanValue(ChosenIntent.entities[e], hits)]
  BY DEF ReadSpans
<1>4. ChosenIntent' = ChosenIntent
  BY <1>2 DEF ChosenIntent
<1>5. ValuesRead'
  <2>1. \A e \in DOMAIN ChosenIntent.entities : Stands(ChosenIntent.entities[e], values'[e])
    BY <1>1, <1>3, TurnTyped, SpanValueStands
  <2> QED BY <1>2, <1>3, <1>4, <2>1 DEF ValuesRead, Stands
<1>6. labelStep' \in {"words", "read"}
  BY DEF ReadSpans
<1> QED BY <1>1, <1>2, <1>5, <1>6 DEF LabelsInv, WordsNameIntent, ValuesHold

LEMMA ReadWordsKept == ASSUME LabelsInv, ReadWords PROVE LabelsInv'
<1>1. labelStep = "words" /\ chosen \in DOMAIN intentList /\ labelStep' = "read"
  BY DEF ReadWords, LabelsInv
<1>2. UNCHANGED <<readBy, intentList, message, labelsRead, chosen, prints, listed>>
  BY DEF ReadWords
<1>3. PICK answered : values' = [e \in DOMAIN ChosenIntent.entities |->
                                   ParsedValue(ChosenIntent.entities[e], answered[e])]
  BY DEF ReadWords
<1>4. ChosenIntent' = ChosenIntent
  BY <1>2 DEF ChosenIntent
<1>5. ValuesRead'
  <2>1. \A e \in DOMAIN ChosenIntent.entities : Stands(ChosenIntent.entities[e], values'[e])
    BY <1>1, <1>3, TurnTyped, ParsedValueStands
  <2> QED BY <1>2, <1>3, <1>4, <2>1 DEF ValuesRead, Stands
<1> QED BY <1>1, <1>2, <1>5 DEF LabelsInv, WordsNameIntent, ValuesHold

\* An entry of the list is matched among finitely many words.
LEMMA ListedHolds ==
  ASSUME message \in Seq(Words), NEW value, NEW entries \in Seq(LabelTexts)
  PROVE  /\ Listed(value, entries) \in ToSet(entries) \cup {NoText}
         /\ (\E entry \in ToSet(entries) : entry.words \in Mentions) => Listed(value, entries) # NoText
<1>1. IsFiniteSet({value.words}) /\ IsFiniteSet(Mentions)
  BY FS_Singleton, MentionsFinite
<1>2. BestOf({value.words}, entries) \in ToSet(entries) \cup {NoText}
  BY <1>1, BestOfHolds
<1>3. /\ BestOf(Mentions, entries) \in ToSet(entries) \cup {NoText}
      /\ (\E entry \in ToSet(entries) : entry.words \in Mentions) => BestOf(Mentions, entries) # NoText
  BY <1>1, BestOfHolds
<1> QED BY <1>2, <1>3 DEF Listed

LEMMA MatchEntriesKept == ASSUME LabelsInv, MatchEntries PROVE LabelsInv'
<1>1. /\ labelStep = "read" /\ labelStep' = "done" /\ chosen \in DOMAIN intentList /\ ValuesRead
      /\ listed' \in {prints, listed}
  BY DEF MatchEntries, LabelsInv
<1>2. UNCHANGED <<readBy, intentList, message, labelsRead, chosen, prints>>
  BY DEF MatchEntries
<1>3. values' = [e \in DOMAIN values |->
                   IF e \in OfKind("script") THEN Listed(values[e], listed') ELSE values[e]]
  BY DEF MatchEntries
<1>4. PICK x : x = ChosenIntent
  OBVIOUS
<1>5. ChosenIntent' = x /\ Mentions' = Mentions
  BY <1>2, <1>4 DEF ChosenIntent, Mentions
<1>6. listed' \in Listings \cup {<<>>} /\ listed' \in Seq(LabelTexts)
  BY <1>1, TurnTyped DEF LabelsInv
<1>7. ASSUME NEW e \in DOMAIN values
      PROVE  /\ x.entities[e].kind = "closed" /\ x.entities[e].configured # <<>> =>
                  values'[e] \in ToSet(x.entities[e].configured) \cup {NoText}
             /\ x.entities[e].kind = "open" => values'[e] = NoText \/ values'[e].words # message
             /\ x.entities[e].kind = "script" =>
                  /\ values'[e] \in ToSet(listed') \cup {NoText}
                  /\ (\E entry \in ToSet(listed') : entry.words \in Mentions) => values'[e] # NoText
  <2>1. e \in DOMAIN x.entities /\ Stands(x.entities[e], values[e])
    BY <1>1, <1>4 DEF ValuesRead
  <2>2. CASE x.entities[e].kind = "script"
    <3>1. values'[e] = Listed(values[e], listed')
      BY <1>3, <1>4, <2>1, <2>2 DEF OfKind
    <3>2. /\ Listed(values[e], listed') \in ToSet(listed') \cup {NoText}
          /\ (\E entry \in ToSet(listed') : entry.words \in Mentions) =>
               Listed(values[e], listed') # NoText
      BY <1>6, TurnTyped, ListedHolds
    <3> QED BY <2>2, <3>1, <3>2
  <2>3. CASE x.entities[e].kind # "script"
    <3>1. values'[e] = values[e]
      BY <1>3, <1>4, <2>3 DEF OfKind
    <3> QED BY <2>1, <2>3, <3>1 DEF Stands
  <2> QED BY <2>2, <2>3
<1>8. ValuesHold'
  BY <1>2, <1>3, <1>5, <1>7 DEF ValuesHold
<1> QED BY <1>1, <1>2, <1>6, <1>8 DEF LabelsInv, WordsNameIntent

LEMMA LabelsInvKept == LabelsInv /\ [LabelsNext]_labelVars => LabelsInv'
<1> SUFFICES ASSUME LabelsInv, [LabelsNext]_labelVars PROVE LabelsInv'
  OBVIOUS
<1>1. CASE AskLabels
  BY <1>1 DEF AskLabels, LabelsInv, WordsNameIntent, ValuesHold
<1>2. CASE ScoreIntents
  BY <1>2, ScoreIntentsKept
<1>3. CASE NameIntent
  BY <1>3 DEF NameIntent, LabelsInv, WordsNameIntent, ValuesHold
<1>4. CASE TakeList
  BY <1>4 DEF TakeList, LabelsInv, WordsNameIntent, ValuesHold
<1>5. CASE ReadSpans
  BY <1>5, ReadSpansKept
<1>6. CASE FailToRead
  BY <1>6 DEF FailToRead, LabelsInv, WordsNameIntent, ValuesHold
<1>7. CASE ReadWords
  BY <1>7, ReadWordsKept
<1>8. CASE MatchEntries
  BY <1>8, MatchEntriesKept
<1>9. CASE PrintOther
  <2>1. UNCHANGED <<labelStep, readBy, intentList, message, labelsRead, chosen, listed, values>>
        /\ labelStep \in {"named", "read"} /\ prints' \in Listings
    BY <1>9 DEF PrintOther
  <2>2. ValuesRead' <=> ValuesRead
    BY <2>1 DEF ValuesRead, ChosenIntent, Stands
  <2> QED BY <2>1, <2>2 DEF LabelsInv, WordsNameIntent, ValuesHold
<1>10. CASE UNCHANGED labelVars
  <2>1. UNCHANGED <<labelStep, readBy, intentList, message, labelsRead, chosen, prints, listed, values>>
    BY <1>10 DEF labelVars
  <2>2. (ValuesRead' <=> ValuesRead) /\ (WordsNameIntent' <=> WordsNameIntent)
        /\ (ValuesHold' <=> ValuesHold)
    BY <2>1 DEF ValuesRead, ChosenIntent, Stands, WordsNameIntent, AllHeld, HeldWords, ValuesHold,
                Mentions
  <2> QED BY <2>1, <2>2 DEF LabelsInv
<1> QED BY <1>1, <1>2, <1>3, <1>4, <1>5, <1>6, <1>7, <1>8, <1>9, <1>10 DEF LabelsNext

\* Whoever reads the intent and its values, whatever fails or changes between two
\* reads: every name and value is asked once, a message that holds all words of a
\* name or a phrase is not refused, a choice is one of the configured values, an
\* entry one of the list as it was last read, and an entry the message names is not
\* lost, for any intents, lists, scores and messages (labels_for, score_intents,
\* match_script_values).
THEOREM LabelsAreOfTurn == LabelsSpec => []LabelsReadTurn
<1>1. LabelsInv => LabelsReadTurn
  <2> SUFFICES ASSUME LabelsInv PROVE LabelsReadTurn
    OBVIOUS
  <2>1. ASSUME labelStep = "labels" PROVE LabelsAsked
    <3>1. PICK d : d = LabelsFor(intentList)
      OBVIOUS
    <3>2. intentList \in Seq(IntentForms) /\ labelsRead = d
      BY <2>1, <3>1, TurnTyped DEF LabelsInv
    <3>3. /\ \A i, j \in DOMAIN d : SameLabel(d[i], d[j]) => i = j
          /\ \A m \in DOMAIN intentList : Covers(d, SureLabels(intentList[m]))
      BY <3>1, <3>2, LabelsForAll
    <3>4. ASSUME NEW k \in DOMAIN intentList, NEW label \in ToSet(SureLabels(intentList[k]))
          PROVE  \E i \in DOMAIN d : SameLabel(d[i], label)
      BY <3>3 DEF Covers, ToSet
    <3> QED BY <3>2, <3>3, <3>4 DEF LabelsAsked
  <2>2. LabelsAsked
    BY <2>1 DEF LabelsAsked
  <2> QED BY <2>2 DEF LabelsInv, LabelsReadTurn
<1> QED BY <1>1, LabelsInvInitially, LabelsInvKept, PTL DEF LabelsSpec

-----------------------------------------------------------------------------
\* The passes of the built in models (ModelBatch).

TokenKinds == {"cls", "head", "sep", "marker", "word", "state"}
TokenForms == Nat \X TokenKinds \X Nat

\* The row of a question: each marker that is left stands before its own option,
\* within the row, and all are left when the options fit the head.
QuestionRow(r, row, options) ==
  /\ row.ids \in Seq(TokenForms) /\ row.markers \in Seq(Nat)
  /\ Len(row.markers) <= Len(options)
  /\ FitsHead(options) => Len(row.markers) = Len(options)
  /\ \A k \in 1..Len(row.markers) :
       row.markers[k] < Len(row.ids) /\ row.ids[row.markers[k] + 1] = <<r, "marker", k>>

BatchRows == [ids : Seq(TokenForms), markers : Seq(Nat)]

TextRow(r, row) ==
  row.ids \in Seq(TokenForms) /\ Len(row.ids) >= 1 /\ row.ids[1] = <<r, "cls", 1>>

OffersMade == offers \in Seq(Offers) /\ offers # <<>>

BatchInv ==
  /\ pass \in {"idle", "texts", "ran texts"} => offers = <<>>
  /\ pass \in {"asked", "choices", "ran choices"} => OffersMade
  /\ pass \in {"idle", "asked", "choices", "ran choices"} => answer = <<>>
  /\ pass \in {"choices", "ran choices"} =>
       /\ batch \in Seq(BatchRows) /\ DOMAIN batch = DOMAIN Asked
       /\ \A r \in DOMAIN batch :
            QuestionRow(r, batch[r], offers[Asked[r]]) /\ batch[r].markers # <<>>
  /\ pass = "ran choices" =>
       \A r \in DOMAIN batch : \A k \in 1..Len(batch[r].markers) :
         out[RowStart(r) + k - 1] = score[r][k]
  /\ pass \in {"texts", "ran texts"} =>
       batch \in Seq(BatchRows) /\ \A r \in DOMAIN batch : TextRow(r, batch[r])
  /\ pass = "ran texts" =>
       \A r \in DOMAIN batch :
         out[(r - 1) * Length] = [token |-> <<r, "cls", 1>>, within |-> ToSet(batch[r].ids)]
  /\ OwnAnswers

\* The sums of the first ones of a list.
Adds(sum, lens) == sum = [k \in 0..Len(lens) |-> IF k = 0 THEN 0 ELSE sum[k - 1] + lens[k]]

LEMMA SumsThere == ASSUME NEW lens \in Seq(Nat) PROVE \E sum : Adds(sum, lens)
<1> DEFINE n == Len(lens)
           Upto(m, f) == f = [k \in 0..m |-> IF k = 0 THEN 0 ELSE f[k - 1] + lens[k]]
           bad == {m \in 0..n : ~ \E f : Upto(m, f)}
<1>1. n \in Nat
  OBVIOUS
<1>2. ASSUME bad # {} PROVE FALSE
  <2>1. IsFiniteSet(0..n)
    BY <1>1, FS_Interval
  <2>2. bad \in SUBSET Nat /\ IsFiniteSet(bad)
    <3> HIDE DEF n, Upto
    <3>1. bad \in SUBSET (0..n)
      OBVIOUS
    <3>2. \A m \in 0..n : m \in Nat
      BY <1>1
    <3> HIDE DEF bad
    <3> QED BY <2>1, <3>1, <3>2, FS_Subset
  <2> HIDE DEF bad
  <2>3. PICK m \in bad : \A k \in bad : m <= k
    BY <1>2, <2>2, LeastThere
  <2>4. m \in 0..n /\ ~ \E f : Upto(m, f)
    BY <2>3 DEF bad
  <2>5. m # 0
    <3>1. Upto(0, [k \in 0..0 |-> 0])
      OBVIOUS
    <3> QED BY <2>4, <3>1
  <2>6. m - 1 \in 0..n /\ m - 1 \notin bad
    BY <1>1, <2>3, <2>4, <2>5
  <2>7. PICK f : Upto(m - 1, f)
    BY <2>6 DEF bad
  <2> DEFINE g == [k \in 0..m |-> IF k = 0 THEN 0 ELSE f[k - 1] + lens[k]]
  <2>8. \A k \in 0..(m - 1) : g[k] = f[k]
    <3>1. \A k \in 0..(m - 1) : k \in 0..m
      BY <1>1, <2>4
    <3>2. \A k \in 0..(m - 1) : f[k] = IF k = 0 THEN 0 ELSE f[k - 1] + lens[k]
      BY <2>7
    <3> QED BY <3>1, <3>2
  <2>9. ASSUME NEW k \in 0..m, k # 0 PROVE g[k - 1] = f[k - 1]
    <3>1. k - 1 \in 0..(m - 1)
      BY <1>1, <2>4, <2>9
    <3> HIDE DEF g
    <3> QED BY <2>8, <3>1
  <2>10. g = [k \in 0..m |-> IF k = 0 THEN 0 ELSE g[k - 1] + lens[k]]
    BY <2>9
  <2> QED BY <2>4, <2>10
<1>3. PICK f : Upto(n, f)
  <2> HIDE DEF n, Upto
  <2>1. n \in 0..n
    BY <1>1
  <2> QED BY <1>2, <2>1
<1> QED BY <1>3 DEF Adds

LEMMA SumsAre ==
  ASSUME NEW lens \in Seq(Nat)
  PROVE  /\ Sums(lens) \in [0..Len(lens) -> Nat] /\ Sums(lens)[0] = 0
         /\ \A k \in 1..Len(lens) : Sums(lens)[k] = Sums(lens)[k - 1] + lens[k]
         /\ Total(lens) = Sums(lens)[Len(lens)]
<1>1. Sums(lens) = CHOOSE sum : Adds(sum, lens)
  BY DEF Sums, Adds
<1>2. PICK f, n : f = Sums(lens) /\ n = Len(lens)
  OBVIOUS
<1>3. Adds(f, lens)
  BY <1>1, <1>2, SumsThere
<1>4. n \in Nat /\ \A k \in 1..n : lens[k] \in Nat
  BY <1>2
<1>5. f = [k \in 0..n |-> IF k = 0 THEN 0 ELSE f[k - 1] + lens[k]]
  BY <1>2, <1>3 DEF Adds
<1>6. DOMAIN f = 0..n /\ (\A k \in 0..n : f[k] = IF k = 0 THEN 0 ELSE f[k - 1] + lens[k])
  BY <1>5
<1>7. f[0] = 0 /\ \A k \in 1..n : f[k] = f[k - 1] + lens[k]
  <2>1. 0 \in 0..n /\ \A k \in 1..n : k \in 0..n /\ k # 0
    BY <1>4
  <2> QED BY <1>6, <2>1
<1> DEFINE bad == {k \in 0..n : f[k] \notin Nat}
<1>8. ASSUME bad # {} PROVE FALSE
  <2>1. IsFiniteSet(0..n)
    BY <1>4, FS_Interval
  <2>2. bad \in SUBSET Nat /\ IsFiniteSet(bad)
    <3>1. \A k \in 0..n : k \in Nat
      BY <1>4
    <3> QED BY <2>1, <3>1, FS_Subset
  <2> HIDE DEF bad
  <2>3. PICK k \in bad : \A j \in bad : k <= j
    BY <1>8, <2>2, LeastThere
  <2>4. k \in 0..n /\ f[k] \notin Nat
    BY <2>3 DEF bad
  <2>5. k # 0 /\ k \in 1..n
    BY <1>4, <1>7, <2>4
  <2>6. k - 1 \in 0..n /\ k - 1 \notin bad
    BY <1>4, <2>3, <2>5
  <2>7. f[k - 1] \in Nat
    BY <2>6 DEF bad
  <2>8. f[k] = f[k - 1] + lens[k] /\ lens[k] \in Nat
    BY <1>4, <1>7, <2>5
  <2>9. \A a, b \in Nat : a + b \in Nat
    OBVIOUS
  <2> QED BY <2>4, <2>7, <2>8, <2>9
<1>9. \A k \in 0..n : f[k] \in Nat
  BY <1>8
<1>10. f \in [0..n -> Nat]
  BY <1>5, <1>6, <1>9
<1> QED BY <1>2, <1>7, <1>10 DEF Total

\* A property of 0 that each number up to n hands to the next holds up to n; the
\* numbers without it are given as a set.
LEMMA UpTo ==
  ASSUME NEW n \in Nat, NEW bad \in SUBSET (0..n), 0 \notin bad,
         \A k \in 1..n : k - 1 \notin bad => k \notin bad
  PROVE  bad = {}
<1> SUFFICES ASSUME bad # {} PROVE FALSE
  OBVIOUS
<1>1. IsFiniteSet(0..n)
  BY FS_Interval
<1>2. bad \in SUBSET Nat /\ IsFiniteSet(bad)
  <2>1. \A k \in 0..n : k \in Nat
    OBVIOUS
  <2> QED BY <1>1, <2>1, FS_Subset
<1>3. PICK k \in bad : \A j \in bad : k <= j
  BY <1>2, LeastThere
<1>4. k \in 0..n /\ k # 0
  BY <1>3
<1>5. k \in 1..n
  BY <1>4
<1>6. ~(k <= k - 1)
  BY <1>4
<1> QED BY <1>3, <1>5, <1>6

LEMMA SumsBounded ==
  ASSUME NEW lens \in Seq(Nat), NEW per \in Nat, \A k \in 1..Len(lens) : lens[k] <= per
  PROVE  Total(lens) <= Len(lens) * per
<1>1. PICK f, n : f = Sums(lens) /\ n = Len(lens)
  OBVIOUS
<1>2. /\ n \in Nat /\ f \in [0..n -> Nat] /\ f[0] = 0 /\ Total(lens) = f[n]
      /\ \A k \in 1..n : f[k] = f[k - 1] + lens[k]
      /\ \A k \in 1..n : lens[k] \in Nat /\ lens[k] <= per
  <2>1. \A k \in 1..n : lens[k] \in Nat /\ lens[k] <= per
    BY <1>1
  <2> QED BY <1>1, <2>1, SumsAre
<1> DEFINE bad == {k \in 0..n : ~(f[k] <= k * per)}
<1>3. 0 \notin bad
  BY <1>2
<1>4. ASSUME NEW k \in 1..n, k - 1 \notin bad PROVE k \notin bad
  <2>1. k - 1 \in 0..n /\ k \in 0..n
    BY <1>2
  <2>2. f[k - 1] <= (k - 1) * per
    BY <1>4, <2>1
  <2>3. f[k] = f[k - 1] + lens[k] /\ lens[k] <= per /\ lens[k] \in Nat
    BY <1>2
  <2>4. k * per = (k - 1) * per + per
    BY <2>1
  <2>5. (k - 1) * per \in Nat /\ f[k - 1] \in Nat
    BY <1>2, <2>1
  <2>6. PICK a, b, c : a = (k - 1) * per /\ b = f[k - 1] /\ c = lens[k]
    OBVIOUS
  <2>7. b + c <= a + per
    BY <2>2, <2>3, <2>5, <2>6
  <2> QED BY <2>3, <2>4, <2>6, <2>7
<1>5. bad = {}
  <2>1. bad \in SUBSET (0..n)
    OBVIOUS
  <2> HIDE DEF bad
  <2> QED BY <1>2, <1>3, <1>4, <2>1, UpTo
<1>6. n \in 0..n
  BY <1>2
<1> QED BY <1>1, <1>2, <1>5, <1>6

LEMMA SumsRise ==
  ASSUME NEW lens \in Seq(Nat \ {0}), NEW j \in 0..Len(lens), NEW k \in 0..Len(lens), j < k
  PROVE  Sums(lens)[j] < Sums(lens)[k]
<1>1. PICK f, n : f = Sums(lens) /\ n = Len(lens)
  OBVIOUS
<1>2. /\ n \in Nat /\ f \in [0..n -> Nat] /\ \A i \in 1..n : f[i] = f[i - 1] + lens[i]
      /\ \A i \in 1..n : lens[i] \in Nat /\ lens[i] # 0
  <2>1. lens \in Seq(Nat) /\ \A i \in 1..Len(lens) : lens[i] \in Nat /\ lens[i] # 0
    OBVIOUS
  <2> QED BY <1>1, <2>1, SumsAre
<1> DEFINE bad == {i \in 0..n : j < i /\ ~(f[j] < f[i])}
<1>3. 0 \notin bad
  BY <1>1, <1>2
<1>4. ASSUME NEW i \in 1..n, i - 1 \notin bad PROVE i \notin bad
  <2>1. i - 1 \in 0..n /\ i \in 0..n /\ j \in 0..n
    BY <1>1, <1>2
  <2>2. f[i - 1] \in Nat /\ f[j] \in Nat /\ lens[i] \in Nat /\ lens[i] # 0
    BY <1>2, <2>1
  <2>3. f[i] = f[i - 1] + lens[i]
    BY <1>2
  <2>4. j < i => j = i - 1 \/ j < i - 1
    BY <2>1
  <2>5. CASE j = i - 1
    BY <2>2, <2>3, <2>5
  <2>6. CASE j < i - 1
    <3>1. f[j] < f[i - 1]
      BY <1>4, <2>1, <2>6
    <3> QED BY <2>2, <2>3, <3>1
  <2> QED BY <2>4, <2>5, <2>6
<1>5. bad = {}
  <2>1. bad \in SUBSET (0..n)
    OBVIOUS
  <2> HIDE DEF bad
  <2> QED BY <1>2, <1>3, <1>4, <2>1, UpTo
<1> QED BY <1>1, <1>5

\* What a list of lists flattens to, from its first lists.
LEMMA FlattenSteps ==
  ASSUME NEW U, NEW seqs \in Seq(Seq(U)), Len(seqs) # 0
  PROVE  \E f : Flattens(f, seqs) /\ FlattenSeq(seqs) = f[Len(seqs)]
<1>1. PICK f : f = CHOOSE h : Flattens(h, seqs)
  OBVIOUS
<1>2. Flattens(f, seqs)
  BY <1>1, FlattenThere
<1>3. FlattenSeq(seqs) = f[Len(seqs)]
  BY <1>1 DEF FlattenSeq, Flattens
<1> QED BY <1>2, <1>3

\* Lists one after the other: how long both are, and what is where.
LEMMA JoinedAt ==
  ASSUME NEW U, NEW s \in Seq(U), NEW t \in Seq(U), NEW u, u = s \o t
  PROVE  /\ u \in Seq(U) /\ Len(u) = Len(s) + Len(t)
         /\ \A k \in 1..Len(s) : u[k] = s[k]
         /\ \A k \in 1..Len(t) : u[Len(s) + k] = t[k]
<1>1. Len(s) \in Nat /\ Len(t) \in Nat /\ s \o t \in Seq(U)
  OBVIOUS
<1>2. /\ Len(u) = Len(s) + Len(t)
      /\ \A i \in 1..(Len(s) + Len(t)) : u[i] = IF i <= Len(s) THEN s[i] ELSE t[i - Len(s)]
  BY ConcatProperties
<1>3. PICK m, n : m = Len(s) /\ n = Len(t)
  OBVIOUS
<1>4. ASSUME NEW k \in 1..m PROVE u[k] = s[k]
  <2>1. k \in 1..(m + n) /\ k <= m
    BY <1>1, <1>3
  <2> QED BY <1>2, <1>3, <2>1
<1>5. ASSUME NEW k \in 1..n PROVE u[m + k] = t[k]
  <2>1. m + k \in 1..(m + n) /\ ~(m + k <= m) /\ (m + k) - m = k
    BY <1>1, <1>3
  <2> QED BY <1>2, <1>3, <2>1
<1> QED BY <1>1, <1>2, <1>3, <1>4, <1>5

LEMMA TokensTyped ==
  ASSUME NEW r \in Nat, NEW kind \in TokenKinds, NEW n \in Nat
  PROVE  /\ Tokens(r, kind, n) \in Seq(TokenForms) /\ Len(Tokens(r, kind, n)) = n
         /\ \A p \in 1..n : Tokens(r, kind, n)[p] = <<r, kind, p>>
<1>1. \A p \in 1..n : <<r, kind, p>> \in TokenForms
  BY DEF TokenForms, TokenKinds
<1>2. Tokens(r, kind, n) \in [1..n -> TokenForms]
  BY <1>1 DEF Tokens
<1>3. \A p \in 1..n : Tokens(r, kind, n)[p] = <<r, kind, p>>
  BY DEF Tokens
<1> QED BY <1>2, <1>3

\* The tokens of one option.
OptionOf(r, k, n) == <<<<r, "marker", k>>>> \o Tokens(r, "word", n - 1)

LEMMA OptionTyped ==
  ASSUME NEW r \in Nat, NEW k \in Nat, NEW n \in Nat \ {0}
  PROVE  /\ OptionOf(r, k, n) \in Seq(TokenForms) /\ Len(OptionOf(r, k, n)) = n
         /\ OptionOf(r, k, n)[1] = <<r, "marker", k>>
<1>1. PICK s, t, u : s = <<<<r, "marker", k>>>> /\ t = Tokens(r, "word", n - 1) /\ u = s \o t
  OBVIOUS
<1>2. s \in Seq(TokenForms) /\ Len(s) = 1 /\ s[1] = <<r, "marker", k>>
  <2>1. <<r, "marker", k>> \in TokenForms
    BY DEF TokenForms, TokenKinds
  <2> QED BY <1>1, <2>1
<1>3. t \in Seq(TokenForms) /\ Len(t) = n - 1
  <2>1. n - 1 \in Nat /\ "word" \in TokenKinds
    BY DEF TokenKinds
  <2> QED BY <1>1, <2>1, TokensTyped
<1>4. u \in Seq(TokenForms) /\ Len(u) = Len(s) + Len(t) /\ \A i \in 1..Len(s) : u[i] = s[i]
  BY <1>1, <1>2, <1>3, JoinedAt
<1>5. Len(u) = n /\ u[1] = s[1]
  BY <1>2, <1>3, <1>4
<1> QED BY <1>1, <1>2, <1>4, <1>5 DEF OptionOf

\* The same, said in one word.
JoinedTo(U, u, s, t) ==
  /\ u \in Seq(U) /\ Len(u) = Len(s) + Len(t)
  /\ \A k \in 1..Len(s) : u[k] = s[k]
  /\ \A k \in 1..Len(t) : u[Len(s) + k] = t[k]

LEMMA JoinedAs ==
  ASSUME NEW U, NEW s \in Seq(U), NEW t \in Seq(U)
  PROVE  JoinedTo(U, s \o t, s, t)
<1>1. PICK u : u = s \o t
  OBVIOUS
<1>2. JoinedTo(U, u, s, t)
  BY <1>1, JoinedAt DEF JoinedTo
<1> QED BY <1>1, <1>2

\* The marker of an option stands behind the options before it.
LEMMA OptionSeqHolds ==
  ASSUME NEW r \in Nat, NEW lens \in Seq(Nat \ {0}), lens # <<>>
  PROVE  /\ OptionSeq(r, lens) \in Seq(TokenForms) /\ Len(OptionSeq(r, lens)) = Total(lens)
         /\ \A k \in 1..Len(lens) :
              OptionSeq(r, lens)[Sums(lens)[k - 1] + 1] = <<r, "marker", k>>
<1>1. PICK n, sums : n = Len(lens) /\ sums = Sums(lens)
  OBVIOUS
<1>2. /\ n \in Nat /\ n # 0 /\ DOMAIN lens = 1..n
      /\ \A k \in 1..n : k \in Nat /\ lens[k] \in Nat \ {0}
  BY <1>1
<1>3. /\ sums \in [0..n -> Nat] /\ sums[0] = 0 /\ Total(lens) = sums[n]
      /\ \A k \in 1..n : sums[k] = sums[k - 1] + lens[k]
  <2>1. lens \in Seq(Nat)
    OBVIOUS
  <2> QED BY <1>1, <2>1, SumsAre
<1>4. PICK seqs : seqs = [k \in DOMAIN lens |-> OptionOf(r, k, lens[k])]
  OBVIOUS
<1>5. /\ OptionSeq(r, lens) = FlattenSeq(seqs)
  BY <1>4 DEF OptionSeq, OptionOf
<1>6. \A k \in 1..n : /\ seqs[k] \in Seq(TokenForms) /\ Len(seqs[k]) = lens[k]
                      /\ seqs[k][1] = <<r, "marker", k>>
  <2>1. \A k \in 1..n : seqs[k] = OptionOf(r, k, lens[k])
    BY <1>2, <1>4
  <2>2. ASSUME NEW k \in 1..n
        PROVE  /\ seqs[k] \in Seq(TokenForms) /\ Len(seqs[k]) = lens[k]
               /\ seqs[k][1] = <<r, "marker", k>>
    <3>1. k \in Nat /\ lens[k] \in Nat \ {0}
      BY <1>2
    <3>2. PICK n0 : n0 = lens[k]
      OBVIOUS
    <3>3. /\ OptionOf(r, k, n0) \in Seq(TokenForms) /\ Len(OptionOf(r, k, n0)) = n0
          /\ OptionOf(r, k, n0)[1] = <<r, "marker", k>>
      BY <3>1, <3>2, OptionTyped, Zenon
    <3> QED BY <2>1, <3>2, <3>3, Zenon
  <2> QED BY <2>2
<1>7. seqs \in Seq(Seq(TokenForms)) /\ Len(seqs) = n
  <2>1. seqs \in [1..n -> Seq(TokenForms)]
    BY <1>2, <1>4, <1>6
  <2> QED BY <1>2, <2>1
<1>8. PICK f : Flattens(f, seqs) /\ FlattenSeq(seqs) = f[n]
  BY <1>2, <1>7, FlattenSteps
<1>9. \A i \in 1..n : f[i] = IF i = 1 THEN seqs[i] ELSE f[i - 1] \o seqs[i]
  BY <1>7, <1>8 DEF Flattens
<1> DEFINE Good(m) == /\ f[m] \in Seq(TokenForms) /\ Len(f[m]) = sums[m]
                      /\ \A k \in 1..m : f[m][sums[k - 1] + 1] = <<r, "marker", k>>
           bad == {m \in 0..n : m # 0 /\ ~Good(m)}
<1>10. ASSUME NEW m \in 1..n, m - 1 \notin bad PROVE Good(m)
  <2>1. m \in Nat /\ m - 1 \in 0..n /\ m - 1 \in Nat
    BY <1>2
  <2>2. CASE m = 1
    <3>1. f[1] = seqs[1] /\ sums[1] = sums[0] + lens[1] /\ sums[0] + 1 = 1
      BY <1>3, <1>9, <2>2
    <3>2. Len(f[1]) = sums[1]
      BY <1>2, <1>3, <1>6, <2>2, <3>1
    <3>3. \A k \in 1..1 : k = 1 /\ k - 1 = 0
      OBVIOUS
    <3>4. f[1][1] = <<r, "marker", 1>>
      BY <1>6, <2>2, <3>1
    <3>5. \A k \in 1..1 : f[1][sums[k - 1] + 1] = <<r, "marker", k>>
      BY <3>1, <3>3, <3>4
    <3> QED BY <1>6, <2>2, <3>1, <3>2, <3>5
  <2>3. CASE m # 1
    <3>1. Good(m - 1)
      <4>1. m - 1 # 0
        BY <2>1, <2>3
      <4> HIDE DEF Good
      <4> QED BY <1>10, <2>1, <4>1
    <3>2. PICK s, t, u : s = f[m - 1] /\ t = seqs[m] /\ u = f[m]
      OBVIOUS
    <3>3. s \in Seq(TokenForms) /\ Len(s) = sums[m - 1]
      BY <3>1, <3>2
    <3>4. t \in Seq(TokenForms) /\ Len(t) = lens[m] /\ t[1] = <<r, "marker", m>>
      BY <1>6, <3>2
    <3>5. u = s \o t
      BY <1>9, <2>3, <3>2
    <3>6. /\ u \in Seq(TokenForms) /\ Len(u) = Len(s) + Len(t)
          /\ \A k \in 1..Len(s) : u[k] = s[k]
          /\ \A k \in 1..Len(t) : u[Len(s) + k] = t[k]
      <4>1. JoinedTo(TokenForms, s \o t, s, t)
        BY <3>3, <3>4, JoinedAs
      <4>2. JoinedTo(TokenForms, u, s, t)
        BY <3>5, <4>1
      <4> QED BY ONLY <4>2 DEF JoinedTo
    <3>7. Len(u) = sums[m]
      BY <1>3, <3>3, <3>4, <3>6
    <3>8. ASSUME NEW k \in 1..m PROVE u[sums[k - 1] + 1] = <<r, "marker", k>>
      <4>1. CASE k = m
        <5>1. 1 \in 1..Len(t)
          BY <1>2, <3>4
        <5> QED BY <3>3, <3>4, <3>6, <4>1, <5>1
      <4>2. CASE k # m
        <5>1. k \in 1..(m - 1) /\ k - 1 \in 0..n /\ k - 1 < m - 1
          BY <1>2, <2>1, <4>2
        <5>2. sums[k - 1] < sums[m - 1]
          BY <1>1, <2>1, <5>1, SumsRise
        <5>3. sums[k - 1] \in Nat /\ sums[m - 1] \in Nat
          BY <1>3, <2>1, <5>1
        <5>4. sums[k - 1] + 1 \in 1..Len(s)
          BY <3>3, <5>2, <5>3
        <5>5. s[sums[k - 1] + 1] = <<r, "marker", k>>
          BY <3>1, <3>2, <5>1
        <5> QED BY <3>6, <5>4, <5>5
      <4> QED BY <4>1, <4>2
    <3> QED BY <3>2, <3>6, <3>7, <3>8
  <2> QED BY <2>2, <2>3
<1>11. bad = {}
  <2>1. bad \in SUBSET (0..n) /\ 0 \notin bad
    OBVIOUS
  <2>2. ASSUME NEW m \in 1..n, m - 1 \notin bad PROVE m \notin bad
    BY <1>10, <2>2
  <2> HIDE DEF bad
  <2> QED BY <1>2, <2>1, <2>2, UpTo
<1>12. Good(n)
  <2>1. n \in 0..n /\ n # 0
    BY <1>2
  <2> QED BY <1>11, <2>1
<1> QED BY <1>1, <1>3, <1>5, <1>8, <1>12

\* The options of a question, cut when the head is too short for them.
LEMMA OptionLensTyped ==
  ASSUME NEW q, q.options \in Seq(Nat), q.options # <<>>, q.instruction \in Nat
  PROVE  /\ OptionLens(q) \in Seq(Nat \ {0}) /\ Len(OptionLens(q)) = Len(q.options)
         /\ Total(OptionLens(q)) \in Nat /\ HeadLen(q) \in Nat /\ HeadLen(q) <= HeadMax
         /\ FitsHead(q.options) => HeadLen(q) + Total(OptionLens(q)) <= HeadMax
<1>1. PICK os, n : os = q.options /\ n = Len(os)
  OBVIOUS
<1>2. n \in Nat /\ n # 0 /\ DOMAIN os = 1..n /\ \A k \in 1..n : os[k] \in Nat
  BY <1>1
<1>3. /\ OptionTokens \in Nat /\ OptionFloor \in Nat \ {0} /\ HeadKeep \in Nat /\ HeadMin \in Nat
      /\ HeadKeep <= HeadMin /\ HeadMax \in Nat /\ HeadMin <= HeadMax
  BY BatchAssumption
<1>4. PICK part : part = (HeadMax - HeadMin) \div n
  OBVIOUS
<1>5. part \in Nat /\ n * part <= HeadMax - HeadMin
  <2>1. PICK d : d = HeadMax - HeadMin
    OBVIOUS
  <2>2. d \in Nat
    BY <1>3, <2>1
  <2>3. d \div n \in Nat /\ n * (d \div n) <= d
    BY <1>2, <2>2
  <2> QED BY <1>4, <2>1, <2>3
<1>6. PICK per : per = Most(OptionFloor, part)
  OBVIOUS
<1>7. per \in Nat \ {0} /\ (per = OptionFloor \/ per = part)
  BY <1>3, <1>5, <1>6 DEF Most
<1>8. PICK whole : whole = [k \in 1..n |-> 1 + Least(os[k], OptionTokens)]
  OBVIOUS
<1>9. whole \in [1..n -> Nat \ {0}]
  <2>1. \A k \in 1..n : 1 + Least(os[k], OptionTokens) \in Nat \ {0}
    BY <1>2, <1>3 DEF Least
  <2> QED BY <1>8, <2>1
<1>10. PICK cut : cut = [k \in 1..n |-> Least(whole[k], per)]
  OBVIOUS
<1>11. cut \in [1..n -> Nat \ {0}] /\ \A k \in 1..n : cut[k] <= per
  <2>1. \A k \in 1..n : Least(whole[k], per) \in Nat \ {0} /\ Least(whole[k], per) <= per
    BY <1>7, <1>9 DEF Least
  <2>2. \A k \in 1..n : cut[k] = Least(whole[k], per)
    BY <1>10
  <2> QED BY <1>10, <2>1, <2>2
<1>12. PICK lens, used : lens = OptionLens(q) /\ used = Total(lens)
  OBVIOUS
<1>13. lens = IF HeadMax < Total(whole) + HeadMin THEN cut ELSE whole
  <2>1. DOMAIN whole = 1..n
    BY <1>9
  <2> QED BY <1>1, <1>2, <1>4, <1>6, <1>8, <1>10, <1>12, <2>1 DEF OptionLens
<1>14. lens \in Seq(Nat \ {0}) /\ Len(lens) = n /\ lens \in Seq(Nat)
  <2>1. lens \in [1..n -> Nat \ {0}]
    BY <1>9, <1>11, <1>13
  <2> QED BY <1>2, <2>1
<1>15. used \in Nat
  <2>1. Sums(lens) \in [0..Len(lens) -> Nat] /\ Total(lens) = Sums(lens)[Len(lens)]
    BY <1>14, SumsAre
  <2>2. Len(lens) \in 0..Len(lens)
    BY <1>2, <1>14
  <2> QED BY <1>12, <2>1, <2>2
<1>16. FitsHead(os) => used + HeadKeep <= HeadMax
  <2>1. CASE HeadMax < Total(whole) + HeadMin
    <3>1. used <= n * per
      <4>1. \A k \in 1..Len(lens) : lens[k] <= per
        BY <1>11, <1>13, <1>14, <2>1
      <4> QED BY <1>7, <1>12, <1>14, <4>1, SumsBounded
    <3>2. PICK x : x = n * per
      OBVIOUS
    <3>3. ASSUME FitsHead(os) PROVE x + HeadKeep <= HeadMax
      <4>1. HeadKeep + n * OptionFloor <= HeadMax
        BY <1>1, <3>3 DEF FitsHead
      <4>2. CASE per = OptionFloor
        <5>1. x = n * OptionFloor /\ x \in Nat
          BY <1>2, <1>3, <3>2, <4>2
        <5> QED BY <1>3, <4>1, <5>1
      <4>3. CASE per = part
        <5>1. x = n * part /\ x \in Nat
          BY <1>2, <1>5, <3>2, <4>3
        <5> QED BY <1>3, <1>5, <5>1
      <4> QED BY <1>7, <4>2, <4>3
    <3>4. x \in Nat
      BY <1>2, <1>7, <3>2
    <3> QED BY <1>3, <1>15, <3>1, <3>2, <3>3, <3>4
  <2>2. CASE ~(HeadMax < Total(whole) + HeadMin)
    <3>1. lens = whole
      BY <1>13, <2>2
    <3> QED BY <1>3, <1>12, <1>15, <2>2, <3>1
  <2> QED BY <2>1, <2>2
<1>17. PICK left : left = IF used < HeadMax THEN HeadMax - used ELSE 0
  OBVIOUS
<1>18. HeadLen(q) = Least(q.instruction, Most(HeadKeep, left))
  BY <1>12, <1>17 DEF HeadLen
<1>19. left \in Nat /\ left <= HeadMax
  BY <1>3, <1>15, <1>17
<1>20. HeadLen(q) \in Nat /\ HeadLen(q) <= HeadMax
  BY <1>3, <1>18, <1>19 DEF Least, Most
<1>21. FitsHead(os) => HeadLen(q) + used <= HeadMax
  BY <1>3, <1>15, <1>16, <1>17, <1>18, <1>19 DEF Least, Most
<1> QED BY <1>1, <1>12, <1>14, <1>15, <1>20, <1>21

\* The places below a bound of a list that rises are its first ones.
FirstOnes(S, n) == \E c \in 0..n : S = 1..c

LEMMA FirstPlaces ==
  ASSUME NEW n \in Nat, NEW f \in [1..n -> Nat], \A i, j \in 1..n : i < j => f[i] < f[j], NEW max \in Nat,
         NEW S \in SUBSET (1..n), \A k \in 1..n : k \in S <=> f[k] < max
  PROVE  FirstOnes(S, n)
<1> DEFINE bad == {m \in 0..n : ~ \E c \in 0..m : {k \in 1..m : f[k] < max} = 1..c}
<1>1. 0 \notin bad
  <2>1. {k \in 1..0 : f[k] < max} = 1..0
    OBVIOUS
  <2> QED BY <2>1
<1>2. ASSUME NEW m \in 1..n, m - 1 \notin bad PROVE m \notin bad
  <2>1. m - 1 \in 0..n /\ m \in Nat
    OBVIOUS
  <2>2. PICK c \in 0..(m - 1) : {k \in 1..(m - 1) : f[k] < max} = 1..c
    BY <1>2, <2>1
  <2>3. c \in Nat /\ c <= m - 1
    BY <2>1
  <2>4. \A k \in 1..m : k \in 1..(m - 1) \/ k = m
    BY <2>1
  <2>5. \A k \in 1..(m - 1) : k \in 1..m /\ k \in 1..n /\ k < m
    BY <2>1
  <2>6. CASE f[m] < max
    <3>1. \A k \in 1..(m - 1) : f[k] < max
      <4>1. ASSUME NEW k \in 1..(m - 1) PROVE f[k] < max
        <5>1. f[k] < f[m] /\ f[k] \in Nat /\ f[m] \in Nat
          BY <2>5
        <5> QED BY <2>6, <5>1
      <4> QED BY <4>1
    <3>2. {k \in 1..m : f[k] < max} = 1..m
      BY <2>4, <2>6, <3>1
    <3> QED BY <2>1, <3>2
  <2>7. CASE ~(f[m] < max)
    <3>1. {k \in 1..m : f[k] < max} = {k \in 1..(m - 1) : f[k] < max}
      BY <2>4, <2>5, <2>7
    <3>2. c \in 0..m
      BY <2>1, <2>3
    <3> QED BY <2>2, <3>1, <3>2
  <2> QED BY <2>6, <2>7
<1>3. bad = {}
  <2>1. bad \in SUBSET (0..n)
    OBVIOUS
  <2> HIDE DEF bad
  <2> QED BY <1>1, <1>2, <2>1, UpTo
<1>4. n \in 0..n
  OBVIOUS
<1>5. S = {k \in 1..n : f[k] < max}
  OBVIOUS
<1>6. n \notin bad
  BY <1>3
<1> QED BY <1>4, <1>5, <1>6 DEF FirstOnes

\* The elements at the first places, in their order.
LEMMA PickedFirst ==
  ASSUME NEW s, NEW c \in Nat
  PROVE  Picked(s, 1..c) = [n \in 1..c |-> s[n]]
<1>1. PICK g : g = [n \in 1..c |-> n]
  OBVIOUS
<1>2. Rising(1..c, c, g)
  <2>1. 1..c \in SUBSET Nat /\ g \in [1..c -> 1..c]
    BY <1>1
  <2>2. \A i \in 1..c : g[i] = i
    BY <1>1
  <2> QED BY <2>1, <2>2 DEF Rising
<1>3. Picked(s, 1..c) = [n \in 1..c |-> s[g[n]]]
  BY <1>2, PickedIs
<1>4. \A n \in 1..c : g[n] = n
  BY <1>1
<1> QED BY <1>3, <1>4

LEMMA PrefixTyped ==
  ASSUME NEW U, NEW s \in Seq(U), NEW n \in Nat
  PROVE  /\ Prefix(s, n) \in Seq(U) /\ Len(Prefix(s, n)) = Least(n, Len(s))
         /\ \A p \in 1..Least(n, Len(s)) : Prefix(s, n)[p] = s[p]
<1>1. PICK m : m = Least(n, Len(s))
  OBVIOUS
<1>2. m \in Nat /\ m <= Len(s) /\ Len(s) \in Nat
  BY <1>1 DEF Least
<1>3. PICK u : u = SubSeq(s, 1, m)
  OBVIOUS
<1>4. u \in Seq(U) /\ Len(u) = m /\ \A p \in 1..m : u[p] = s[p]
  BY <1>2, <1>3
<1> QED BY <1>1, <1>3, <1>4 DEF Prefix

\* What a pass makes of one question: the markers that are left point at the
\* marker tokens of their own options.
LEMMA BuildSequenceRow ==
  ASSUME NEW r \in Nat, NEW q, q.options \in Seq(Nat), q.options # <<>>, q.instruction \in Nat
  PROVE  QuestionRow(r, BuildSequence(r, q), q.options) /\ BuildSequence(r, q) \in BatchRows
<1>1. PICK n, lens, h, sums, tot : n = Len(q.options) /\ lens = OptionLens(q) /\ h = HeadLen(q)
                             /\ sums = Sums(lens) /\ tot = Total(lens)
  OBVIOUS
<1>2. /\ n \in Nat /\ n # 0 /\ DOMAIN q.options = 1..n
      /\ lens \in Seq(Nat \ {0}) /\ Len(lens) = n /\ tot \in Nat /\ h \in Nat /\ h <= HeadMax
      /\ FitsHead(q.options) => h + tot <= HeadMax
  BY <1>1, OptionLensTyped
<1>34. n \in Nat /\ h \in Nat /\ tot \in Nat
  BY <1>2
<1>3. HeadMax \in Nat /\ MaxLen \in Nat /\ HeadMax + 3 <= MaxLen /\ MessageLen \in Nat
  BY BatchAssumption
<1>4. sums \in [0..n -> Nat] /\ tot = sums[n] /\ \A k \in 1..n : sums[k - 1] \in Nat
  <2>1. lens \in Seq(Nat)
    BY <1>2
  <2>2. sums \in [0..n -> Nat] /\ tot = sums[n]
    BY <1>1, <1>2, <2>1, SumsAre
  <2>3. \A k \in 1..n : k - 1 \in 0..n
    BY <1>2
  <2> QED BY <2>2, <2>3
<1>5. \A i, j \in 1..n : i < j => sums[i - 1] < sums[j - 1]
  <2>1. ASSUME NEW i \in 1..n, NEW j \in 1..n, i < j PROVE sums[i - 1] < sums[j - 1]
    <3>1. i - 1 \in 0..n /\ j - 1 \in 0..n /\ i - 1 < j - 1
      BY <1>34, <2>1
    <3> QED BY <1>1, <1>2, <3>1, SumsRise
  <2> QED BY <2>1
<1>6. \A k \in 1..n : sums[k - 1] < tot
  <2>1. ASSUME NEW k \in 1..n PROVE sums[k - 1] < tot
    <3>1. k - 1 \in 0..n /\ n \in 0..n /\ k - 1 < n
      BY <1>2
    <3> QED BY <1>1, <1>2, <1>4, <3>1, SumsRise
  <2> QED BY <2>1
<1>7. PICK a, b, c, o, u1, u2, u3, front :
        /\ a = Tokens(r, "cls", 1) /\ b = Tokens(r, "head", h) /\ c = Tokens(r, "sep", 1)
        /\ o = OptionSeq(r, lens) /\ u1 = a \o b /\ u2 = u1 \o c /\ u3 = u2 \o o /\ front = u3 \o c
  OBVIOUS
<1>8. PICK room, d, w, whole :
        /\ room = IF Len(front) + 1 < MaxLen THEN MaxLen - (Len(front) + 1) ELSE 0
        /\ d = Tokens(r, "state", Least(MessageLen, room)) /\ w = front \o d /\ whole = w \o c
  OBVIOUS
<1>9. PICK places : places = [k \in 1..n |-> h + 2 + sums[k - 1]]
  OBVIOUS
<1>10. \A k \in 1..n : MarkerAt(q, k) = h + 2 + sums[k - 1]
  <2>1. \A k \in 1..n : MarkerAt(q, k) = 1 + h + 1 + sums[k - 1]
    BY <1>1 DEF MarkerAt
  <2> QED BY <1>2, <1>4, <2>1
<1>11. BuildSequence(r, q)
         = Row(Prefix(whole, MaxLen), Picked(places, {k \in DOMAIN places : places[k] < MaxLen}))
  <2>1. places = [k \in DOMAIN q.options |-> MarkerAt(q, k)]
    BY <1>2, <1>9, <1>10
  <2> QED BY <1>1, <1>7, <1>8, <2>1 DEF BuildSequence
<1>12. /\ a \in Seq(TokenForms) /\ Len(a) = 1 /\ b \in Seq(TokenForms) /\ Len(b) = h
       /\ c \in Seq(TokenForms) /\ Len(c) = 1
  <2>1. "cls" \in TokenKinds /\ "head" \in TokenKinds /\ "sep" \in TokenKinds /\ 1 \in Nat
    BY DEF TokenKinds
  <2>2. a \in Seq(TokenForms) /\ Len(a) = 1
    BY <1>7, <2>1, TokensTyped
  <2>3. b \in Seq(TokenForms) /\ Len(b) = h
    BY <1>7, <1>34, <2>1, TokensTyped
  <2>4. c \in Seq(TokenForms) /\ Len(c) = 1
    BY <1>7, <2>1, TokensTyped
  <2> QED BY <2>2, <2>3, <2>4
<1>13. /\ o \in Seq(TokenForms) /\ Len(o) = tot
       /\ \A k \in 1..n : o[sums[k - 1] + 1] = <<r, "marker", k>>
  <2>1. lens # <<>>
    BY <1>2
  <2>2. /\ OptionSeq(r, lens) \in Seq(TokenForms) /\ Len(OptionSeq(r, lens)) = Total(lens)
        /\ \A k \in 1..Len(lens) :
             OptionSeq(r, lens)[Sums(lens)[k - 1] + 1] = <<r, "marker", k>>
    <3>1. lens \in Seq(Nat \ {0})
      BY <1>2
    <3> QED BY <2>1, <3>1, OptionSeqHolds
  <2>3. Len(lens) = n
    BY <1>2
  <2> QED BY <1>1, <1>7, <2>2, <2>3
<1>14. u1 \in Seq(TokenForms) /\ Len(u1) = 1 + h
  <2>1. JoinedTo(TokenForms, u1, a, b)
    BY <1>7, <1>12, JoinedAs
  <2> QED BY <1>12, <2>1 DEF JoinedTo
<1>15. u2 \in Seq(TokenForms) /\ Len(u2) = h + 2
  <2>1. JoinedTo(TokenForms, u2, u1, c)
    BY <1>7, <1>12, <1>14, JoinedAs
  <2>2. u2 \in Seq(TokenForms) /\ Len(u2) = Len(u1) + Len(c)
    BY <2>1 DEF JoinedTo
  <2> QED BY <1>2, <1>12, <1>14, <2>2
<1>16. /\ u3 \in Seq(TokenForms) /\ Len(u3) = h + 2 + tot
       /\ \A i \in 1..tot : u3[h + 2 + i] = o[i]
  <2>1. JoinedTo(TokenForms, u3, u2, o)
    BY <1>7, <1>13, <1>15, JoinedAs
  <2>2. /\ u3 \in Seq(TokenForms) /\ Len(u3) = Len(u2) + Len(o)
        /\ \A i \in 1..Len(o) : u3[Len(u2) + i] = o[i]
    BY <2>1 DEF JoinedTo
  <2> QED BY <1>13, <1>15, <2>2
<1>17. /\ front \in Seq(TokenForms) /\ Len(front) = h + 3 + tot
       /\ \A i \in 1..(h + 2 + tot) : front[i] = u3[i]
  <2>1. JoinedTo(TokenForms, front, u3, c)
    BY <1>7, <1>12, <1>16, JoinedAs
  <2>2. /\ front \in Seq(TokenForms) /\ Len(front) = Len(u3) + Len(c)
        /\ \A i \in 1..Len(u3) : front[i] = u3[i]
    BY <2>1 DEF JoinedTo
  <2>3. (h + 2 + tot) + 1 = h + 3 + tot
    BY <1>2
  <2> QED BY <1>12, <1>16, <2>2, <2>3
<1>18. d \in Seq(TokenForms) /\ Len(d) \in Nat
  <2>1. room \in Nat
    <3>1. Len(front) \in Nat
      BY <1>2, <1>17
    <3> QED BY <1>3, <1>8, <3>1
  <2>2. Least(MessageLen, room) \in Nat
    BY <1>3, <2>1 DEF Least
  <2>3. "state" \in TokenKinds
    BY DEF TokenKinds
  <2> QED BY <1>2, <1>8, <2>2, <2>3, TokensTyped
<1>19. /\ w \in Seq(TokenForms) /\ Len(w) = h + 3 + tot + Len(d)
       /\ \A i \in 1..(h + 3 + tot) : w[i] = front[i]
  <2>1. JoinedTo(TokenForms, w, front, d)
    BY <1>8, <1>17, <1>18, JoinedAs
  <2> QED BY <1>17, <2>1 DEF JoinedTo
<1>20. PICK len : len = Len(whole)
  OBVIOUS
<1>21. /\ whole \in Seq(TokenForms) /\ len \in Nat /\ h + 3 + tot <= len
       /\ \A i \in 1..(h + 3 + tot) : whole[i] = w[i]
  <2>1. JoinedTo(TokenForms, whole, w, c)
    BY <1>8, <1>12, <1>19, JoinedAs
  <2>2. /\ whole \in Seq(TokenForms) /\ len = Len(w) + Len(c)
        /\ \A i \in 1..Len(w) : whole[i] = w[i]
    BY <1>20, <2>1 DEF JoinedTo
  <2>3. PICK x : x = Len(d)
    OBVIOUS
  <2>4. len = h + 3 + tot + x + 1 /\ x \in Nat
    BY <1>12, <1>18, <1>19, <2>2, <2>3
  <2>5. \A i \in 1..(h + 3 + tot) : i \in 1..Len(w)
    BY <1>2, <1>19, <2>3, <2>4
  <2> QED BY <1>2, <2>2, <2>4, <2>5
<1>22. ASSUME NEW k \in 1..n
       PROVE  whole[h + 2 + sums[k - 1] + 1] = <<r, "marker", k>>
  <2>1. PICK i : i = sums[k - 1] + 1
    OBVIOUS
  <2>2. i \in 1..tot
    <3>1. sums[k - 1] \in Nat /\ sums[k - 1] < tot
      BY <1>4, <1>6
    <3> QED BY <1>34, <2>1, <3>1
  <2>3. h + 2 + i \in 1..(h + 2 + tot) /\ h + 2 + i \in 1..(h + 3 + tot)
    BY <1>34, <2>2
  <2>4. whole[h + 2 + i] = o[i]
    BY <1>16, <1>17, <1>19, <1>21, <2>2, <2>3
  <2>5. h + 2 + sums[k - 1] + 1 = h + 2 + i
    <3>1. sums[k - 1] \in Nat
      BY <1>4
    <3> QED BY <1>34, <2>1, <3>1
  <2> QED BY <1>13, <2>1, <2>4, <2>5
<1>23. places \in [1..n -> Nat] /\ \A i, j \in 1..n : i < j => places[i] < places[j]
  <2>1. \A k \in 1..n : places[k] = h + 2 + sums[k - 1] /\ sums[k - 1] \in Nat
    BY <1>4, <1>9
  <2>2. \A x, y \in Nat : x < y => h + 2 + x < h + 2 + y
    BY <1>2
  <2>3. \A x \in Nat : h + 2 + x \in Nat
    BY <1>2
  <2>4. places \in [1..n -> Nat]
    BY <1>4, <1>9, <2>3
  <2> QED BY <1>5, <2>1, <2>2, <2>4
<1>24. PICK m \in 0..n : {k \in 1..n : places[k] < MaxLen} = 1..m
  <2>1. PICK S : S = {k \in 1..n : places[k] < MaxLen}
    OBVIOUS
  <2>2. S \in SUBSET (1..n) /\ \A k \in 1..n : k \in S <=> places[k] < MaxLen
    BY <2>1
  <2>3. places \in [1..n -> Nat]
    BY <1>23
  <2>4. \E m \in 0..n : S = 1..m
    <3>1. FirstOnes(S, n)
      BY <1>3, <1>23, <1>34, <2>2, FirstPlaces
    <3> QED BY <3>1 DEF FirstOnes
  <2> QED BY <2>1, <2>4
<1>25. PICK row : row = BuildSequence(r, q)
  OBVIOUS
<1>26. m \in Nat /\ m <= n
  BY <1>34
<1>27. row.markers = [k \in 1..m |-> places[k]] /\ row.ids = Prefix(whole, MaxLen)
       /\ row = [ids |-> row.ids, markers |-> row.markers]
  <2>1. {k \in DOMAIN places : places[k] < MaxLen} = 1..m
    BY <1>23, <1>24
  <2>2. Picked(places, 1..m) = [k \in 1..m |-> places[k]]
    BY <1>26, PickedFirst
  <2>3. row = Row(Prefix(whole, MaxLen), [k \in 1..m |-> places[k]])
    BY <1>11, <1>25, <2>1, <2>2
  <2> QED BY <2>3 DEF Row
<1>28. row.markers \in Seq(Nat) /\ Len(row.markers) = m
  <2>1. row.markers \in [1..m -> Nat]
    <3>1. \A k \in 1..m : k \in 1..n
      BY <1>26, <1>34
    <3> QED BY <1>23, <1>27, <3>1
  <2> QED BY <1>26, <2>1
<1>29. /\ row.ids \in Seq(TokenForms) /\ Len(row.ids) = Least(MaxLen, len)
       /\ \A p \in 1..Least(MaxLen, len) : row.ids[p] = whole[p]
  BY <1>3, <1>20, <1>21, <1>27, PrefixTyped
<1>30. ASSUME NEW k \in 1..m
       PROVE  row.markers[k] < Len(row.ids) /\ row.ids[row.markers[k] + 1] = <<r, "marker", k>>
  <2>1. PICK p : p = row.markers[k]
    OBVIOUS
  <2>2. k \in 1..n /\ p = h + 2 + sums[k - 1] /\ p = places[k] /\ p \in Nat /\ p < MaxLen
    <3>1. k \in 1..n
      BY <1>26, <1>34
    <3>2. p = places[k]
      BY <1>27, <2>1
    <3>3. places[k] < MaxLen
      BY <1>24
    <3>4. places[k] = h + 2 + sums[k - 1]
      BY <1>9, <3>1
    <3> QED BY <1>23, <3>1, <3>2, <3>3, <3>4
  <2>3. p < len
    BY <1>2, <1>4, <1>6, <1>21, <2>2
  <2>4. p < Least(MaxLen, len) /\ p + 1 \in 1..Least(MaxLen, len)
    <3>1. p \in Nat /\ MaxLen \in Nat /\ len \in Nat /\ p < MaxLen /\ p < len
      BY <1>3, <1>21, <2>2, <2>3
    <3> QED BY <3>1 DEF Least
  <2>5. whole[p + 1] = <<r, "marker", k>>
    BY <1>22, <2>2
  <2> QED BY <1>29, <2>1, <2>4, <2>5
<1>31. ASSUME FitsHead(q.options) PROVE m = n
  <2>1. \A k \in 1..n : places[k] < MaxLen
    <3>1. ASSUME NEW k \in 1..n PROVE places[k] < MaxLen
      <4>1. places[k] = h + 2 + sums[k - 1] /\ sums[k - 1] \in Nat /\ sums[k - 1] < tot
        BY <1>4, <1>6, <1>9
      <4> QED BY <1>2, <1>3, <1>31, <4>1
    <3> QED BY <3>1
  <2>2. n \in 1..m
    BY <1>2, <1>24, <2>1
  <2> QED BY <1>26, <2>2
<1>32. QuestionRow(r, row, q.options)
  BY <1>1, <1>26, <1>28, <1>29, <1>30, <1>31 DEF QuestionRow
<1>33. row \in BatchRows
  BY <1>27, <1>28, <1>29 DEF BatchRows
<1> QED BY <1>25, <1>32, <1>33

\* A number has one quotient and one rest.
LEMMA OneQuotient ==
  ASSUME NEW n \in Nat \ {0}, NEW a \in Nat, NEW b \in Nat, b < n, NEW c \in Nat, NEW d \in Nat, d < n,
         n * a + b = n * c + d
  PROVE  a = c /\ b = d
<1>1. n * a \in Nat /\ n * c \in Nat
  OBVIOUS
<1>2. ASSUME NEW x \in Nat, NEW y \in Nat, x < y PROVE n * x + n <= n * y
  <2>1. PICK z : z = y - x - 1
    OBVIOUS
  <2>2. z \in Nat /\ y = x + 1 + z
    BY <1>2, <2>1
  <2>3. n * (x + 1 + z) = n * x + n + n * z
    BY <2>2
  <2>4. n * z \in Nat /\ n * x \in Nat
    BY <2>2
  <2> QED BY <2>2, <2>3, <2>4
<1>3. ~(a < c)
  <2>1. ASSUME a < c PROVE FALSE
    <3>1. n * a + n <= n * c
      BY <1>2, <2>1
    <3>2. PICK x, y : x = n * a /\ y = n * c
      OBVIOUS
    <3>3. x \in Nat /\ y \in Nat /\ x + n <= y /\ x + b = y + d
      BY <1>1, <3>1, <3>2
    <3> QED BY <3>3
  <2> QED BY <2>1
<1>4. ~(c < a)
  <2>1. ASSUME c < a PROVE FALSE
    <3>1. n * c + n <= n * a
      BY <1>2, <2>1
    <3>2. PICK x, y : x = n * a /\ y = n * c
      OBVIOUS
    <3>3. x \in Nat /\ y \in Nat /\ y + n <= x /\ x + b = y + d
      BY <1>1, <3>1, <3>2
    <3> QED BY <3>3
  <2> QED BY <2>1
<1>5. a = c
  BY <1>3, <1>4
<1>6. n * a + b = n * a + d
  BY <1>5
<1> QED BY <1>1, <1>5, <1>6

\* The place of a cell of a flat array, its row and its column.
IsCell(at, rows, n, r, c) ==
  at \in 0..(rows * n - 1) /\ RowAt(at, n) = r /\ ColumnAt(at, n) = c

LEMMA CellAt ==
  ASSUME NEW rows \in Nat, NEW n \in Nat \ {0}, NEW r \in 1..rows, NEW c \in 1..n,
         NEW at, at = (r - 1) * n + c - 1
  PROVE  IsCell(at, rows, n, r, c)
<1>1. PICK a, b, x : a = r - 1 /\ b = c - 1 /\ x = n * a
  OBVIOUS
<1>2. a \in Nat /\ b \in Nat /\ b < n /\ x \in Nat /\ (r - 1) * n + c - 1 = x + b
  <2>1. a \in Nat /\ b \in Nat /\ b < n
    BY <1>1
  <2>2. x \in Nat /\ (r - 1) * n = x
    BY <1>1, <2>1
  <2> QED BY <1>1, <2>1, <2>2
<1>3. PICK p : p = x + b
  OBVIOUS
<1>4. p \in Nat
  BY <1>2, <1>3
<1>5. p \div n \in Nat /\ (p % n) \in Nat /\ (p % n) < n /\ p = n * (p \div n) + (p % n)
  BY <1>4
<1>6. PICK q, m : q = p \div n /\ m = p % n
  OBVIOUS
<1>7. q = a /\ m = b
  <2>1. n * q + m = n * a + b /\ q \in Nat /\ m \in Nat /\ m < n
    BY <1>1, <1>3, <1>5, <1>6
  <2> QED BY <1>2, <2>1, OneQuotient
<1>8. p + 1 <= rows * n
  <2>1. PICK z : z = rows - r
    OBVIOUS
  <2>2. z \in Nat /\ rows = a + 1 + z
    BY <1>1, <2>1
  <2>3. rows * n = n * a + n + n * z /\ n * z \in Nat
    BY <1>2, <2>2
  <2>4. PICK y, w : y = n * z /\ w = rows * n
    OBVIOUS
  <2>5. y \in Nat /\ w = x + n + y
    BY <1>1, <2>3, <2>4
  <2> QED BY <1>2, <1>3, <2>4, <2>5
<1>9. rows * n \in Nat
  OBVIOUS
<1>10. PICK w : w = rows * n
  OBVIOUS
<1>11. p \in 0..(w - 1)
  BY <1>4, <1>8, <1>9, <1>10
<1>12. q + 1 = r /\ m + 1 = c
  BY <1>1, <1>7
<1> QED BY <1>2, <1>3, <1>6, <1>10, <1>11, <1>12 DEF RowAt, ColumnAt, IsCell

\* Each place of a flat array is the cell of a row and a column.
LEMMA CellOf ==
  ASSUME NEW rows \in Nat, NEW n \in Nat \ {0}, NEW p \in 0..(rows * n - 1)
  PROVE  /\ RowAt(p, n) \in 1..rows /\ ColumnAt(p, n) \in 1..n
         /\ p = (RowAt(p, n) - 1) * n + ColumnAt(p, n) - 1
<1>1. p \in Nat
  OBVIOUS
<1>2. p \div n \in Nat /\ (p % n) \in Nat /\ (p % n) < n /\ p = n * (p \div n) + (p % n)
  BY <1>1
<1>3. PICK q, m : q = p \div n /\ m = p % n
  OBVIOUS
<1>4. q \in Nat /\ m \in Nat /\ m < n /\ p = n * q + m
  BY <1>2, <1>3
<1>5. q < rows
  <2>1. ASSUME rows <= q PROVE FALSE
    <3>1. PICK z : z = q - rows
      OBVIOUS
    <3>2. z \in Nat /\ q = rows + z
      BY <1>4, <2>1, <3>1
    <3>3. n * q = rows * n + n * z /\ n * z \in Nat /\ rows * n \in Nat
      BY <3>2
    <3>4. PICK x, y : x = rows * n /\ y = n * z
      OBVIOUS
    <3>5. p = x + y + m /\ x \in Nat /\ y \in Nat /\ p <= x - 1
      BY <1>4, <3>3, <3>4
    <3> QED BY <1>4, <3>5
  <2> QED BY <1>4, <2>1
<1>6. RowAt(p, n) = q + 1 /\ ColumnAt(p, n) = m + 1
  BY <1>3 DEF RowAt, ColumnAt
<1>7. q + 1 \in 1..rows /\ m + 1 \in 1..n /\ (q + 1) - 1 = q
  BY <1>4, <1>5
<1>8. PICK x : x = n * q
  OBVIOUS
<1>9. x \in Nat /\ q * n = x
  BY <1>4, <1>8
<1>10. p = x + (m + 1) - 1
  BY <1>4, <1>8, <1>9
<1> QED BY <1>6, <1>7, <1>9, <1>10

\* The longest of a list of lengths, at least one.
LEMMA LongestThere ==
  ASSUME NEW S, IsFiniteSet(S), NEW lens \in [S -> Nat]
  PROVE  Longest(lens) \in Nat \ {0} /\ \A r \in S : lens[r] <= Longest(lens)
<1>1. PICK all : all = {lens[r] : r \in DOMAIN lens} \cup {1}
  OBVIOUS
<1>2. all \in SUBSET Nat /\ IsFiniteSet(all) /\ 1 \in all /\ \A r \in S : lens[r] \in all
  <2>1. IsFiniteSet({lens[r] : r \in S})
    BY ImageFinite
  <2>2. IsFiniteSet({1})
    BY FS_Singleton
  <2>3. {lens[r] : r \in DOMAIN lens} = {lens[r] : r \in S}
    OBVIOUS
  <2>4. IsFiniteSet(all)
    BY <1>1, <2>1, <2>2, <2>3, FS_Union
  <2>5. all \in SUBSET Nat
    BY <1>1
  <2> QED BY <1>1, <2>4, <2>5
<1>3. Highest(all) \in all /\ \A m \in all : m <= Highest(all)
  BY <1>2, HighestThere
<1>4. Longest(lens) = CHOOSE m \in all : \A k \in all : k <= m
  BY <1>1 DEF Longest
<1>5. PICK l : l = Longest(lens)
  OBVIOUS
<1>6. l \in all /\ \A k \in all : k <= l
  BY <1>3, <1>4, <1>5
<1> QED BY <1>2, <1>5, <1>6

\* A batch has room for each of its rows.
LEMMA RowsFit ==
  ASSUME batch \in Seq(BatchRows)
  PROVE  /\ Len(batch) \in Nat /\ DOMAIN batch = 1..Len(batch)
         /\ Length \in Nat \ {0} /\ Width \in Nat \ {0}
         /\ \A r \in DOMAIN batch :
              /\ batch[r].ids \in Seq(TokenForms) /\ Len(batch[r].ids) <= Length
              /\ batch[r].markers \in Seq(Nat) /\ Len(batch[r].markers) <= Width
<1>1. Len(batch) \in Nat /\ DOMAIN batch = 1..Len(batch) /\ \A r \in DOMAIN batch : batch[r] \in BatchRows
  OBVIOUS
<1>2. \A r \in DOMAIN batch : batch[r].ids \in Seq(TokenForms) /\ batch[r].markers \in Seq(Nat)
  BY <1>1 DEF BatchRows
<1>3. PICK rows : rows = DOMAIN batch
  OBVIOUS
<1>4. IsFiniteSet(rows)
  <2>1. 1 \in Nat /\ Len(batch) \in Nat
    BY <1>1
  <2> QED BY <1>1, <1>3, <2>1, FS_Interval
<1>5. PICK ls, ms : /\ ls = [r \in rows |-> Len(batch[r].ids)]
                    /\ ms = [r \in rows |-> Len(batch[r].markers)]
  OBVIOUS
<1>6. ls \in [rows -> Nat] /\ ms \in [rows -> Nat]
  <2>1. ASSUME NEW r \in rows PROVE Len(batch[r].ids) \in Nat /\ Len(batch[r].markers) \in Nat
    BY <1>2, <1>3
  <2> QED BY <1>5, <2>1
<1>7. Length = Longest(ls) /\ Width = Longest(ms)
  BY <1>3, <1>5 DEF Length, Width
<1>8. Length \in Nat \ {0} /\ \A r \in rows : ls[r] <= Length
  BY <1>4, <1>6, <1>7, LongestThere
<1>9. Width \in Nat \ {0} /\ \A r \in rows : ms[r] <= Width
  BY <1>4, <1>6, <1>7, LongestThere
<1>10. \A r \in rows : ls[r] = Len(batch[r].ids) /\ ms[r] = Len(batch[r].markers)
  BY <1>5
<1> QED BY <1>1, <1>2, <1>3, <1>8, <1>9, <1>10

\* A token of a row is read at its place of the flat array.
LEMMA IdsAt ==
  ASSUME batch \in Seq(BatchRows), NEW r \in DOMAIN batch, NEW c \in 1..Len(batch[r].ids),
         NEW p, p = (r - 1) * Length + c - 1
  PROVE  /\ p \in 0..(Len(batch) * Length - 1) /\ RowAt(p, Length) = r
         /\ p \in Attention /\ Ids[p] = batch[r].ids[c]
<1>1. /\ Len(batch) \in Nat /\ r \in 1..Len(batch) /\ Length \in Nat \ {0}
      /\ Len(batch[r].ids) \in Nat /\ Len(batch[r].ids) <= Length
  <2>1. /\ Len(batch) \in Nat /\ DOMAIN batch = 1..Len(batch) /\ Length \in Nat \ {0}
        /\ batch[r].ids \in Seq(TokenForms) /\ Len(batch[r].ids) <= Length
    BY RowsFit
  <2> QED BY <2>1
<1>2. c \in 1..Length /\ c <= Len(batch[r].ids)
  BY <1>1
<1>3. /\ p \in 0..(Len(batch) * Length - 1)
      /\ RowAt(p, Length) = r /\ ColumnAt(p, Length) = c
  <2>1. PICK n, len : n = Len(batch) /\ len = Length
    OBVIOUS
  <2>2. n \in Nat /\ len \in Nat \ {0} /\ r \in 1..n /\ c \in 1..len
    BY <1>1, <1>2, <2>1
  <2>3. PICK x : x = (r - 1) * len + c - 1
    OBVIOUS
  <2>4. x \in 0..(n * len - 1) /\ RowAt(x, len) = r /\ ColumnAt(x, len) = c
    <3>1. IsCell(x, n, len, r, c)
      BY <2>2, <2>3, CellAt
    <3> QED BY <3>1 DEF IsCell
  <2> QED BY <2>1, <2>3, <2>4
<1>4. p \in Attention
  BY <1>2, <1>3 DEF Attention
<1>5. Ids[p] = batch[r].ids[c]
  BY <1>3, <1>4 DEF Ids
<1> QED BY <1>3, <1>4, <1>5

\* A token attends to the tokens of its own row, and to no padding.
LEMMA AttendsOwn ==
  ASSUME batch \in Seq(BatchRows), NEW r \in DOMAIN batch, NEW place, RowAt(place, Length) = r
  PROVE  Attends(place) = ToSet(batch[r].ids)
<1>1. /\ Len(batch) \in Nat /\ DOMAIN batch = 1..Len(batch) /\ Length \in Nat \ {0}
      /\ batch[r].ids \in Seq(TokenForms)
  BY RowsFit
<1>2. PICK ids : ids = batch[r].ids
  OBVIOUS
<1>3. ids \in Seq(TokenForms) /\ Len(ids) \in Nat /\ DOMAIN ids = 1..Len(ids)
  BY <1>1, <1>2
<1>4. ToSet(ids) = {ids[i] : i \in DOMAIN ids}
  BY DEF ToSet
<1>5. PICK near : near = {x \in Attention : RowAt(x, Length) = r}
  OBVIOUS
<1>6. Attends(place) = {Ids[p] : p \in near}
  BY <1>5 DEF Attends
<1>7. ASSUME NEW x \in Attends(place) PROVE x \in ToSet(ids)
  <2>1. PICK p \in near : x = Ids[p]
    BY <1>6, <1>7
  <2>2. p \in Attention /\ RowAt(p, Length) = r
    BY <1>5, <2>1
  <2>3. p \in 0..(Len(batch) * Length - 1) /\ ColumnAt(p, Length) <= Len(ids)
    BY <1>2, <2>2 DEF Attention
  <2>4. ColumnAt(p, Length) \in 1..Length
    BY <1>1, <2>3, CellOf
  <2>5. ColumnAt(p, Length) \in DOMAIN ids
    BY <1>1, <1>3, <2>3, <2>4
  <2>6. Ids[p] = ids[ColumnAt(p, Length)]
    BY <1>2, <2>2, <2>3 DEF Ids
  <2> QED BY <1>4, <2>1, <2>5, <2>6
<1>8. ASSUME NEW x \in ToSet(ids) PROVE x \in Attends(place)
  <2>1. PICK c \in DOMAIN ids : x = ids[c]
    BY <1>4, <1>8
  <2>2. PICK p : p = (r - 1) * Length + c - 1
    OBVIOUS
  <2>3. c \in 1..Len(batch[r].ids)
    BY <1>2, <1>3
  <2>4. RowAt(p, Length) = r /\ p \in Attention /\ Ids[p] = batch[r].ids[c]
    BY <2>2, <2>3, IdsAt
  <2> QED BY <1>2, <1>5, <1>6, <2>1, <2>4
<1> QED BY <1>2, <1>7, <1>8

\* The score of an option is written where its marker is read.
LEMMA ScoreOwn ==
  ASSUME batch \in Seq(BatchRows), NEW r \in DOMAIN batch, NEW options,
         QuestionRow(r, batch[r], options), NEW k \in 1..Len(batch[r].markers), NEW true,
         NEW slot, slot = RowStart(r) + k - 1
  PROVE  slot \in DOMAIN Positions /\ ScoreAt(slot, true) = true[r][k]
<1>1. /\ Len(batch) \in Nat /\ DOMAIN batch = 1..Len(batch)
      /\ Length \in Nat \ {0} /\ Width \in Nat \ {0}
      /\ batch[r].markers \in Seq(Nat) /\ Len(batch[r].markers) <= Width
  BY RowsFit
<1>2. k \in 1..Width /\ k <= Len(batch[r].markers) /\ r \in 1..Len(batch)
  <2>1. Len(batch[r].markers) \in Nat
    BY <1>1
  <2> QED BY <1>1, <2>1
<1>3. /\ slot \in 0..(Len(batch) * Width - 1)
      /\ RowAt(slot, Width) = r /\ ColumnAt(slot, Width) = k
  <2>1. PICK n, len : n = Len(batch) /\ len = Width
    OBVIOUS
  <2>2. n \in Nat /\ len \in Nat \ {0} /\ r \in 1..n /\ k \in 1..len
    BY <1>1, <1>2, <2>1
  <2>3. slot = (r - 1) * len + k - 1
    BY <2>1 DEF RowStart
  <2>4. slot \in 0..(n * len - 1) /\ RowAt(slot, len) = r /\ ColumnAt(slot, len) = k
    <3>1. IsCell(slot, n, len, r, k)
      BY <2>2, <2>3, CellAt
    <3> QED BY <3>1 DEF IsCell
  <2> QED BY <2>1, <2>4
<1>4. slot \in Mask
  BY <1>2, <1>3 DEF Mask
<1>5. slot \in DOMAIN Positions /\ Positions[slot] = batch[r].markers[k]
  BY <1>3, <1>4 DEF Positions
<1>6. PICK m : m = batch[r].markers[k]
  OBVIOUS
<1>7. m \in Nat /\ m < Len(batch[r].ids) /\ batch[r].ids[m + 1] = <<r, "marker", k>>
      /\ Len(batch[r].ids) \in Nat
  <2>1. /\ batch[r].ids \in Seq(TokenForms) /\ batch[r].markers \in Seq(Nat)
        /\ m < Len(batch[r].ids) /\ batch[r].ids[m + 1] = <<r, "marker", k>>
    BY <1>6 DEF QuestionRow
  <2>2. m \in Nat
    <3>1. PICK ms : ms = batch[r].markers
      OBVIOUS
    <3>2. ms \in Seq(Nat) /\ k \in 1..Len(ms)
      BY <2>1, <3>1
    <3>3. ms[k] \in Nat
      BY <3>2
    <3> QED BY <1>6, <3>1, <3>3
  <2>3. Len(batch[r].ids) \in Nat
    BY <2>1
  <2> QED BY <2>1, <2>2, <2>3
<1>8. PICK place : place = (r - 1) * Length + m
  OBVIOUS
<1>9. m + 1 \in 1..Len(batch[r].ids) /\ place = (r - 1) * Length + (m + 1) - 1
  <2>1. (r - 1) * Length \in Nat
    <3>1. PICK a, b : a = r - 1 /\ b = Length
      OBVIOUS
    <3>2. a \in Nat /\ b \in Nat
      BY <1>1, <1>2, <3>1
    <3>3. a * b \in Nat
      BY <3>2
    <3> QED BY <3>1, <3>3
  <2>2. PICK x : x = (r - 1) * Length
    OBVIOUS
  <2>3. m + 1 \in 1..Len(batch[r].ids)
    BY <1>7
  <2>4. x + m = x + (m + 1) - 1
    BY <1>7, <2>1, <2>2
  <2> QED BY <1>8, <2>2, <2>3, <2>4
<1>10. RowAt(place, Length) = r /\ Ids[place] = <<r, "marker", k>>
  BY <1>7, <1>9, IdsAt
<1>11. Attends(place) = ToSet(batch[r].ids)
  BY <1>10, AttendsOwn
<1>12. ScoreAt(slot, true) = IF slot \in Mask /\ <<r, "marker", k>>[1] = r /\ <<r, "marker", k>>[2] = "marker"
                                 /\ Attends(place) = ToSet(batch[r].ids)
                             THEN true[r][<<r, "marker", k>>[3]] ELSE Noise
  <2>1. place = (RowAt(slot, Width) - 1) * Length + Positions[slot]
    BY <1>3, <1>5, <1>6, <1>8
  <2> QED BY <1>3, <1>10, <2>1 DEF ScoreAt
<1> QED BY <1>4, <1>5, <1>11, <1>12

\* The entities that are asked about, in their order.
LEMMA AskedAre ==
  ASSUME offers \in Seq(Offers)
  PROVE  /\ Asked \in Seq(DOMAIN offers)
         /\ \A r \in DOMAIN Asked : Asked[r] \in DOMAIN offers /\ offers[Asked[r]] # <<>>
         /\ \A e \in DOMAIN offers : offers[e] # <<>> => \E r \in DOMAIN Asked : Asked[r] = e
<1>1. PICK S, es, c : S = {e \in DOMAIN offers : offers[e] # <<>>} /\ es = [e \in DOMAIN offers |-> e]
                  /\ c = Cardinality(S)
  OBVIOUS
<1>2. /\ DOMAIN offers = 1..Len(offers) /\ Len(offers) \in Nat
  OBVIOUS
<1>3. S \in SUBSET Nat /\ IsFiniteSet(S)
  <2>1. 1 \in Nat /\ Len(offers) \in Nat
    BY <1>2
  <2>2. IsFiniteSet(DOMAIN offers)
    BY <1>2, <2>1, FS_Interval
  <2>3. S \in SUBSET (DOMAIN offers)
    BY <1>1
  <2>4. \A e \in DOMAIN offers : e \in Nat
    BY <1>2
  <2> QED BY <2>2, <2>3, <2>4, FS_Subset
<1>4. PICK g : g = [n \in 1..c |-> PlaceOf(S, n)]
  OBVIOUS
<1>5. c \in Nat /\ g \in [1..c -> S] /\ \A e \in S : \E n \in 1..c : g[n] = e
  <2>1. c \in Nat /\ Rising(S, c, [n \in 1..c |-> PlaceOf(S, n)])
    BY <1>1, <1>3, PlacesRise
  <2>2. Rising(S, c, g)
    BY <1>4, <2>1
  <2> QED BY <2>1, <2>2 DEF Rising
<1>6. Asked = [n \in 1..c |-> es[PlaceOf(S, n)]]
  BY <1>1 DEF Asked, Picked
<1>7. \A n \in 1..c : Asked[n] = g[n] /\ g[n] \in S
  <2>1. \A n \in 1..c : g[n] = PlaceOf(S, n) /\ g[n] \in S
    BY <1>4, <1>5
  <2>2. \A e \in S : es[e] = e
    BY <1>1
  <2>3. \A n \in 1..c : Asked[n] = es[PlaceOf(S, n)]
    BY <1>6
  <2> QED BY <2>1, <2>2, <2>3
<1>8. Asked \in [1..c -> DOMAIN offers] /\ DOMAIN Asked = 1..c
  <2>1. \A n \in 1..c : Asked[n] \in DOMAIN offers
    BY <1>1, <1>7
  <2> QED BY <1>6, <2>1
<1>9. Asked \in Seq(DOMAIN offers)
  BY <1>5, <1>8
<1>10. \A r \in DOMAIN Asked : Asked[r] \in DOMAIN offers /\ offers[Asked[r]] # <<>>
  BY <1>1, <1>7, <1>8
<1>11. \A e \in DOMAIN offers : offers[e] # <<>> => \E r \in DOMAIN Asked : Asked[r] = e
  BY <1>1, <1>5, <1>7, <1>8
<1> QED BY <1>9, <1>10, <1>11

LEMMA AskChoicesKeeps == ASSUME BatchInv, AskChoices PROVE BatchInv'
<1>1. pass' = "asked" /\ answer' = answer /\ pass = "idle"
  BY DEF AskChoices
<1>2. PICK n \in 1..MaxBatch : offers' \in [1..n -> Offers]
  BY DEF AskChoices
<1>3. offers' \in Seq(Offers) /\ offers' # <<>>
  <2>1. MaxBatch \in Nat
    BY BatchAssumption
  <2>2. n \in Nat /\ n # 0
    BY <2>1
  <2>3. PICK made : made = offers'
    OBVIOUS
  <2>4. made \in Seq(Offers) /\ made # <<>>
    BY <1>2, <2>2, <2>3
  <2> QED BY <2>3, <2>4
<1>4. answer = <<>>
  BY <1>1 DEF BatchInv
<1> QED BY <1>1, <1>3, <1>4 DEF BatchInv, OffersMade, OwnAnswers

LEMMA BuildChoicesKeeps == ASSUME BatchInv, BuildChoices PROVE BatchInv'
<1>1. /\ pass = "asked" /\ offers' = offers /\ answer' = answer
      /\ pass' \in {"answered", "failed", "choices"}
      /\ pass' = "answered" => Asked = <<>>
      /\ pass' = "choices" => \A r \in DOMAIN batch' : batch'[r].markers # <<>>
  BY DEF BuildChoices
<1>2. offers \in Seq(Offers) /\ offers # <<>> /\ answer = <<>>
  BY <1>1 DEF BatchInv, OffersMade
<1>3. PICK len \in Instructions :
        batch' = [r \in DOMAIN Asked |->
                   BuildSequence(r, [instruction |-> len, options |-> offers[Asked[r]]])]
  BY DEF BuildChoices
<1>4. Asked' = Asked
  BY <1>1 DEF Asked
<1>5. len \in Nat /\ \A l \in Offers : l \in Seq(Nat)
  BY BatchAssumption
<1>6. /\ Asked \in Seq(DOMAIN offers)
      /\ \A r \in DOMAIN Asked : Asked[r] \in DOMAIN offers /\ offers[Asked[r]] # <<>>
  BY <1>2, AskedAre
<1>7. PICK rows : rows = batch'
  OBVIOUS
<1>8. ASSUME NEW r \in DOMAIN Asked
      PROVE  QuestionRow(r, rows[r], offers[Asked[r]]) /\ rows[r] \in BatchRows
  <2>1. PICK q : q = [instruction |-> len, options |-> offers[Asked[r]]]
    OBVIOUS
  <2>2. rows[r] = BuildSequence(r, q)
    BY <1>3, <1>7, <2>1
  <2>3. r \in Nat
    BY <1>6
  <2>4. q.options = offers[Asked[r]] /\ q.instruction = len
    BY <2>1
  <2>5. offers[Asked[r]] \in Offers
    <3>1. \A e \in DOMAIN offers : offers[e] \in Offers
      BY <1>2
    <3> QED BY <1>6, <3>1
  <2>6. q.options \in Seq(Nat) /\ q.options # <<>> /\ q.instruction \in Nat
    BY <1>5, <1>6, <2>4, <2>5
  <2>7. QuestionRow(r, BuildSequence(r, q), q.options) /\ BuildSequence(r, q) \in BatchRows
    BY <2>3, <2>6, BuildSequenceRow
  <2> QED BY <2>2, <2>4, <2>7
<1>9. rows \in Seq(BatchRows) /\ DOMAIN rows = DOMAIN Asked
  <2>1. PICK n : n = Len(Asked)
    OBVIOUS
  <2>2. n \in Nat /\ DOMAIN Asked = 1..n
    BY <1>6, <2>1
  <2>3. DOMAIN rows = DOMAIN Asked
    BY <1>3, <1>7
  <2>4. rows = [r \in DOMAIN Asked |-> rows[r]]
    BY <1>3, <1>7
  <2>5. rows \in [1..n -> BatchRows]
    BY <1>8, <2>2, <2>4
  <2> QED BY <2>2, <2>3, <2>5
<1>10. CASE pass' = "choices"
  <2>1. \A r \in DOMAIN rows : QuestionRow(r, rows[r], offers[Asked[r]]) /\ rows[r].markers # <<>>
    BY <1>1, <1>7, <1>8, <1>9, <1>10
  <2> QED BY <1>1, <1>2, <1>4, <1>7, <1>9, <1>10, <2>1 DEF BatchInv, OffersMade, OwnAnswers
<1>11. CASE pass' = "answered"
  BY <1>1, <1>2, <1>11 DEF BatchInv, OwnAnswers
<1>12. CASE pass' = "failed"
  BY <1>12 DEF BatchInv, OwnAnswers
<1> QED BY <1>1, <1>10, <1>11, <1>12

LEMMA RunChoicesKeeps == ASSUME BatchInv, RunChoices PROVE BatchInv'
<1>1. /\ pass = "choices" /\ pass' = "ran choices"
      /\ offers' = offers /\ batch' = batch /\ answer' = answer
      /\ out' = [slot \in DOMAIN Positions |-> ScoreAt(slot, score')]
  BY DEF RunChoices
<1>2. /\ OffersMade /\ answer = <<>> /\ batch \in Seq(BatchRows) /\ DOMAIN batch = DOMAIN Asked
      /\ \A r \in DOMAIN batch :
           QuestionRow(r, batch[r], offers[Asked[r]]) /\ batch[r].markers # <<>>
  BY <1>1 DEF BatchInv
<1>3. Asked' = Asked /\ OffersMade' /\ Width' = Width
  BY <1>1, <1>2 DEF Asked, OffersMade, Width
<1>4. PICK true, ran : true = score' /\ ran = out'
  OBVIOUS
<1>5. ASSUME NEW r \in DOMAIN batch, NEW k \in 1..Len(batch[r].markers)
      PROVE  ran[RowStart(r) + k - 1] = true[r][k]
  <2>1. PICK slot : slot = RowStart(r) + k - 1
    OBVIOUS
  <2>2. slot \in DOMAIN Positions /\ ScoreAt(slot, true) = true[r][k]
    BY <1>2, <2>1, ScoreOwn
  <2> QED BY <1>1, <1>4, <2>1, <2>2
<1>6. \A r \in DOMAIN batch : \A k \in 1..Len(batch[r].markers) :
 ran[(r - 1) * Width + k - 1] = true[r][k]
  BY <1>5 DEF RowStart
<1>9. PICK wide, rows : wide = Width /\ rows = batch
  OBVIOUS
<1>10. wide = Width' /\ rows = batch'
  BY <1>1, <1>3, <1>9
<1>11. \A r \in DOMAIN rows : \A k \in 1..Len(rows[r].markers) :
         ran[(r - 1) * wide + k - 1] = true[r][k]
  BY <1>6, <1>9
<1>7. \A r \in DOMAIN batch' : \A k \in 1..Len(batch'[r].markers) :
        out'[(r - 1) * Width' + k - 1] = score'[r][k]
  BY <1>4, <1>10, <1>11
<1>8. (batch \in Seq(BatchRows) /\ DOMAIN batch = DOMAIN Asked
        /\ \A r \in DOMAIN batch :
             QuestionRow(r, batch[r], offers[Asked[r]]) /\ batch[r].markers # <<>>)'
  BY <1>1, <1>2, <1>3
<1> QED BY <1>1, <1>2, <1>3, <1>7, <1>8 DEF BatchInv, OwnAnswers, RowStart

LEMMA ReadChoicesKeeps == ASSUME BatchInv, ReadChoices PROVE BatchInv'
<1>1. /\ pass = "ran choices" /\ pass' = "answered"
      /\ offers' = offers /\ batch' = batch /\ score' = score
      /\ answer' = [e \in DOMAIN offers |->
                     IF offers[e] = <<>> THEN 0
                     ELSE ChosenOption(CHOOSE r \in DOMAIN Asked : Asked[r] = e)]
  BY DEF ReadChoices
<1>2. /\ offers \in Seq(Offers) /\ offers # <<>> /\ batch \in Seq(BatchRows) /\ DOMAIN batch = DOMAIN Asked
      /\ \A r \in DOMAIN batch :
           QuestionRow(r, batch[r], offers[Asked[r]]) /\ batch[r].markers # <<>>
      /\ \A r \in DOMAIN batch : \A k \in 1..Len(batch[r].markers) :
           out[RowStart(r) + k - 1] = score[r][k]
  BY <1>1 DEF BatchInv, OffersMade
<1>3. Asked' = Asked
  BY <1>1 DEF Asked
<1>4. \A e \in DOMAIN offers : offers[e] # <<>> => \E r \in DOMAIN Asked : Asked[r] = e
  BY <1>2, AskedAre
<1>5. PICK given : given = answer'
  OBVIOUS
<1>6. ASSUME NEW e \in DOMAIN offers, offers[e] # <<>>, NEW r, r = CHOOSE x \in DOMAIN Asked : Asked[x] = e
      PROVE  BestOfOwn(e, r)'
  <2>1. r \in DOMAIN Asked /\ Asked[r] = e
    BY <1>4, <1>6
  <2>2. PICK ms : ms = batch[r].markers
    OBVIOUS
  <2>3. QuestionRow(r, batch[r], offers[e]) /\ ms # <<>>
    BY <1>2, <2>1, <2>2
  <2>4. /\ ms \in Seq(Nat) /\ Len(ms) <= Len(offers[e])
        /\ FitsHead(offers[e]) => Len(ms) = Len(offers[e])
    BY <2>2, <2>3 DEF QuestionRow
  <2>5. Len(offers[e]) \in Nat
    <3>1. offers[e] \in Offers
      BY <1>2
    <3>2. \A l \in Offers : l \in Seq(Nat)
      BY BatchAssumption
    <3> QED BY <3>1, <3>2
  <2>6. Len(ms) \in 1..Len(offers[e]) /\ DOMAIN ms = 1..Len(ms)
    BY <2>3, <2>4, <2>5
  <2>7. given[e] = ChosenOption(r)
    BY <1>1, <1>5, <1>6
  <2>8. PICK f, g : /\ f = [k \in DOMAIN ms |-> out[RowStart(r) + k - 1]]
                    /\ g = [k \in 1..Len(ms) |-> score[r][k]]
    OBVIOUS
  <2>9. f = g
    <3>1. \A k \in 1..Len(ms) : out[RowStart(r) + k - 1] = score[r][k]
      BY <1>2, <2>1, <2>2
    <3> QED BY <2>6, <2>8, <3>1
  <2>10. ChosenOption(r) = Best(f)
    BY <2>2, <2>8 DEF ChosenOption
  <2>11. PICK read : read = Len(ms)
    OBVIOUS
  <2>12. /\ read \in 1..Len(offers'[e])
         /\ FitsHead(offers'[e]) => read = Len(offers'[e])
         /\ answer'[e] = Best([k \in 1..read |-> score'[r][k]])
    BY <1>1, <1>5, <2>4, <2>6, <2>7, <2>8, <2>9, <2>10, <2>11
  <2> QED BY <2>12 DEF BestOfOwn
<1>7. \A e \in DOMAIN offers : offers[e] = <<>> => given[e] = 0
  BY <1>1, <1>5
<1>8. DOMAIN given = DOMAIN offers
  BY <1>1, <1>5
<1>10. \A e \in DOMAIN offers : offers[e] # <<>> =>
         BestOfOwn(e, CHOOSE x \in DOMAIN Asked : Asked[x] = e)'
  <2>1. ASSUME NEW e \in DOMAIN offers, offers[e] # <<>>
        PROVE  BestOfOwn(e, CHOOSE x \in DOMAIN Asked : Asked[x] = e)'
    <3>1. PICK r : r = CHOOSE x \in DOMAIN Asked : Asked[x] = e
      OBVIOUS
    <3>2. BestOfOwn(e, r)'
      BY <1>6, <2>1, <3>1
    <3> QED BY <1>3, <3>1, <3>2
  <2> QED BY <2>1
<1>11. OwnAnswers'
  BY <1>1, <1>2, <1>3, <1>5, <1>7, <1>8, <1>10 DEF OwnAnswers
<1> QED BY <1>1, <1>11 DEF BatchInv

LEMMA EncodeTextsKeeps == ASSUME BatchInv, EncodeTexts PROVE BatchInv'
<1>1. pass = "idle" /\ pass' = "texts" /\ offers' = offers /\ offers = <<>>
  BY DEF EncodeTexts, BatchInv
<1>2. PICK n \in 1..MaxBatch : \E lens \in [1..n -> TextLens] :
        batch' = [r \in 1..n |-> Row(Tokens(r, "cls", 1) \o Tokens(r, "word", lens[r]), <<>>)]
  BY DEF EncodeTexts
<1>3. PICK lens \in [1..n -> TextLens] :
        batch' = [r \in 1..n |-> Row(Tokens(r, "cls", 1) \o Tokens(r, "word", lens[r]), <<>>)]
  BY <1>2
<1>4. n \in Nat /\ \A r \in 1..n : r \in Nat /\ lens[r] \in Nat
  <2>1. MaxBatch \in Nat /\ TextLens \subseteq Nat
    BY BatchAssumption
  <2>2. n \in Nat
    BY <2>1
  <2>3. \A r \in 1..n : r \in Nat
    BY <2>2
  <2>4. \A r \in 1..n : lens[r] \in TextLens
    OBVIOUS
  <2> QED BY <2>1, <2>2, <2>3, <2>4
<1>5. PICK rows : rows = batch'
  OBVIOUS
<1>6. ASSUME NEW r \in 1..n PROVE rows[r] \in BatchRows /\ TextRow(r, rows[r])
  <2>1. PICK a, b, u : a = Tokens(r, "cls", 1) /\ b = Tokens(r, "word", lens[r]) /\ u = a \o b
    OBVIOUS
  <2>2. "cls" \in TokenKinds /\ "word" \in TokenKinds
    BY DEF TokenKinds
  <2>3. a \in Seq(TokenForms) /\ Len(a) = 1 /\ a[1] = <<r, "cls", 1>>
    <3>1. 1 \in 1..1 /\ 1 \in Nat
      OBVIOUS
    <3> QED BY <1>4, <2>1, <2>2, <3>1, TokensTyped
  <2>4. b \in Seq(TokenForms)
    BY <1>4, <2>1, <2>2, TokensTyped
  <2>5. JoinedTo(TokenForms, u, a, b)
    BY <2>1, <2>3, <2>4, JoinedAs
  <2>6. u \in Seq(TokenForms) /\ Len(u) = Len(a) + Len(b) /\ \A i \in 1..Len(a) : u[i] = a[i]
    BY <2>5 DEF JoinedTo
  <2>7. Len(b) \in Nat
    BY <2>4
  <2>8. Len(u) >= 1 /\ u[1] = <<r, "cls", 1>>
    BY <2>3, <2>6, <2>7
  <2>9. rows[r] = [ids |-> u, markers |-> <<>>]
    BY <1>3, <1>5, <2>1 DEF Row
  <2>10. <<>> \in Seq(Nat)
    OBVIOUS
  <2>11. rows[r].ids = u
    BY <2>9
  <2>12. rows[r] \in BatchRows
    BY <2>6, <2>9, <2>10 DEF BatchRows
  <2> QED BY <2>6, <2>8, <2>11, <2>12 DEF TextRow
<1>7. rows \in Seq(BatchRows) /\ DOMAIN rows = 1..n
  <2>1. DOMAIN rows = 1..n /\ rows = [r \in 1..n |-> rows[r]]
    BY <1>3, <1>5
  <2>2. rows \in [1..n -> BatchRows]
    BY <1>6, <2>1
  <2> QED BY <1>4, <2>1, <2>2
<1>8. batch' \in Seq(BatchRows) /\ \A r \in DOMAIN batch' : TextRow(r, batch'[r])
  BY <1>5, <1>6, <1>7
<1> QED BY <1>1, <1>8 DEF BatchInv, OwnAnswers

LEMMA RunTextsKeeps == ASSUME BatchInv, RunTexts PROVE BatchInv'
<1>1. /\ pass = "texts" /\ pass' = "ran texts" /\ offers' = offers /\ batch' = batch
      /\ out' = [place \in DOMAIN Ids |-> [token |-> Ids[place], within |-> Attends(place)]]
      /\ offers = <<>>
      /\ batch \in Seq(BatchRows) /\ \A r \in DOMAIN batch : TextRow(r, batch[r])
  BY DEF RunTexts, BatchInv
<1>2. Length' = Length
  BY <1>1 DEF Length
<1>3. PICK ran : ran = out'
  OBVIOUS
<1>4. ASSUME NEW r \in DOMAIN batch
      PROVE  ran[(r - 1) * Length] = [token |-> <<r, "cls", 1>>, within |-> ToSet(batch[r].ids)]
  <2>1. TextRow(r, batch[r])
    BY <1>1
  <2>2. 1 \in 1..Len(batch[r].ids) /\ batch[r].ids[1] = <<r, "cls", 1>>
    BY <2>1 DEF TextRow
  <2>3. PICK p : p = (r - 1) * Length + 1 - 1
    OBVIOUS
  <2>4. /\ p \in 0..(Len(batch) * Length - 1) /\ RowAt(p, Length) = r
        /\ Ids[p] = <<r, "cls", 1>>
    BY <1>1, <2>2, <2>3, IdsAt
  <2>5. Attends(p) = ToSet(batch[r].ids)
    BY <1>1, <2>4, AttendsOwn
  <2>6. p \in DOMAIN Ids
    BY <2>4 DEF Ids
  <2>7. p = (r - 1) * Length
    <3>1. Length \in Nat /\ r \in Nat
      <4>1. Length \in Nat \ {0} /\ DOMAIN batch = 1..Len(batch) /\ Len(batch) \in Nat
        BY <1>1, RowsFit
      <4> QED BY <4>1
    <3>2. PICK x : x = (r - 1) * Length
      OBVIOUS
    <3>3. x \in Int
      BY <3>1, <3>2
    <3> QED BY <2>3, <3>2, <3>3
  <2> QED BY <1>1, <1>3, <2>4, <2>5, <2>6, <2>7
<1>5. \A r \in DOMAIN batch' :
        out'[(r - 1) * Length'] = [token |-> <<r, "cls", 1>>, within |-> ToSet(batch'[r].ids)]
  BY <1>1, <1>2, <1>3, <1>4
<1> QED BY <1>1, <1>5 DEF BatchInv, OwnAnswers

LEMMA PoolTextsKeeps == ASSUME BatchInv, PoolTexts PROVE BatchInv'
<1>1. /\ pass = "ran texts" /\ pass' = "answered" /\ offers' = offers /\ batch' = batch
      /\ answer' = [r \in DOMAIN batch |-> out[(r - 1) * Length]] /\ offers = <<>>
      /\ \A r \in DOMAIN batch :
           out[(r - 1) * Length] = [token |-> <<r, "cls", 1>>, within |-> ToSet(batch[r].ids)]
  BY DEF PoolTexts, BatchInv
<1>2. PICK given : given = answer'
  OBVIOUS
<1>3. \A r \in DOMAIN given :
        given[r] = [token |-> <<r, "cls", 1>>, within |-> ToSet(batch[r].ids)]
  BY <1>1, <1>2
<1>4. OwnAnswers'
  <2>1. pass' = "answered" /\ ~(offers' # <<>>) /\ batch' = batch
    BY <1>1
  <2>2. \A r \in DOMAIN answer' :
          answer'[r] = [token |-> <<r, "cls", 1>>, within |-> ToSet(batch'[r].ids)]
    BY <1>2, <1>3, <2>1
  <2> QED BY <2>1, <2>2 DEF OwnAnswers
<1> QED BY <1>1, <1>4 DEF BatchInv

LEMMA BatchInitHolds == ASSUME BatchInit PROVE BatchInv
BY DEF BatchInit, BatchInv, OwnAnswers

LEMMA BatchNextKeeps == ASSUME BatchInv, [BatchNext]_batchVars PROVE BatchInv'
<1>1. CASE AskChoices
  BY <1>1, AskChoicesKeeps
<1>2. CASE BuildChoices
  BY <1>2, BuildChoicesKeeps
<1>3. CASE RunChoices
  BY <1>3, RunChoicesKeeps
<1>4. CASE ReadChoices
  BY <1>4, ReadChoicesKeeps
<1>5. CASE EncodeTexts
  BY <1>5, EncodeTextsKeeps
<1>6. CASE RunTexts
  BY <1>6, RunTextsKeeps
<1>7. CASE PoolTexts
  BY <1>7, PoolTextsKeeps
<1>8. CASE FailPass
  BY <1>8 DEF FailPass, BatchInv, OwnAnswers
<1>9. CASE UNCHANGED batchVars
  <2>1. /\ pass' = pass /\ offers' = offers /\ batch' = batch /\ score' = score
        /\ out' = out /\ answer' = answer
    BY <1>9 DEF batchVars
  <2>2. Asked' = Asked /\ Length' = Length /\ Width' = Width
    BY <2>1 DEF Asked, Length, Width
  <2>3. OwnAnswers'
    <3>1. \A e, r : BestOfOwn(e, r)' <=> BestOfOwn(e, r)
      BY <2>1 DEF BestOfOwn
    <3>2. OwnAnswers
      BY DEF BatchInv
    <3> QED BY <2>1, <2>2, <3>1, <3>2 DEF OwnAnswers
  <2> QED BY <2>1, <2>2, <2>3 DEF BatchInv, OffersMade, RowStart
<1> QED BY <1>1, <1>2, <1>3, <1>4, <1>5, <1>6, <1>7, <1>8, <1>9 DEF BatchNext

\* Each entity is given the best of its own list and each text its own vector,
\* whatever longer or shorter rows share the pass (answer_choices,
\* build_sequence, Batch::read, pool): for every size of the model, every list
\* of options and every number of rows.
THEOREM AnswersAreOwn == BatchSpec => []OwnAnswers
<1>1. BatchInit => BatchInv
  BY BatchInitHolds
<1>2. BatchInv /\ [BatchNext]_batchVars => BatchInv'
  BY BatchNextKeeps
<1>3. BatchInv => OwnAnswers
  BY DEF BatchInv
<1> QED BY <1>1, <1>2, <1>3, PTL DEF BatchSpec

=============================================================================
