---------------------------- MODULE AnswerStream ----------------------------
(***************************************************************************)
(* The streamed answer of a language model (LlamaClient of                 *)
(* resolver/client.rs): the lines the server writes arrive in chunks that  *)
(* are cut anywhere, and are folded into the text of the answer and into   *)
(* what the interface is shown meanwhile.                                  *)
(*                                                                         *)
(* A line has two halves, and a chunk is any number of halves.  A line is  *)
(* some text of the answer, "wide" text, that is a character of several    *)
(* bytes across its halves, a part of the reasoning, "noise" the client    *)
(* skips, or the mark of the end.                                          *)
(***************************************************************************)
EXTENDS Naturals, Sequences, FiniteSets, SequencesExt, Picks

CONSTANT MaxAnswer   \* bound on the lines of an answer

ASSUME AnswerAssumption == MaxAnswer \in Nat

LineKinds == {"text", "wide", "reasoning", "noise", "done"}
TornText == "torn"

VARIABLES
  lines,     \* what the server writes
  arrived,   \* how many halves of it have arrived
  buffer,    \* the halves of the line that is not complete
  content,   \* the text of the answer so far
  shown,     \* what the interface was shown
  call       \* "asks", "reads", "answer" or "error"

answerVars == <<lines, arrived, buffer, content, shown, call>>

AnswerInit ==
  /\ \E n \in 0..MaxAnswer : lines \in [1..n -> LineKinds]
  /\ arrived = 0 /\ buffer = <<>> /\ content = <<>> /\ shown = <<>>
  /\ call = "asks"

\* A server that is not there or rejects the request is an error.
Send ==
  /\ call = "asks" /\ call' \in {"reads", "error"}
  /\ UNCHANGED <<lines, arrived, buffer, content, shown>>

\* Each chunk is decoded on its own: a character that it holds a part of is
\* replaced in each of the two chunks that share it.
Decode(from, to) ==
  [p \in 1..(to - from) |->
     LET at == from + p
         line == (at + 1) \div 2
         split == (at = from + 1 /\ at % 2 = 0) \/ (at = to /\ at % 2 = 1)
     IN  [line |-> line, half |-> 2 - (at % 2), torn |-> split /\ lines[line] = "wide"]]

\* What a complete line is once its halves are joined; without its first half
\* it is not a line of data.
LineOf(buf, n) ==
  IF \A p \in DOMAIN buf : ~(buf[p].line = n /\ buf[p].half = 1) THEN "noise"
  ELSE IF \E p \in DOMAIN buf : buf[p].line = n /\ buf[p].torn THEN TornText
  ELSE lines[n]

CompleteLines(buf) ==
  LET ends == Picked(buf, {p \in DOMAIN buf : buf[p].half = 2})
  IN  [n \in DOMAIN ends |-> LineOf(buf, ends[n].line)]

\* Seeded fault: what is left of a chunk after its last complete line is lost.
RestForgotten(buf) == <<>>

Rest(buf) == IF buf # <<>> /\ Last(buf).half = 1 THEN <<Last(buf)>> ELSE <<>>

\* The lines of a chunk are read up to the mark of the end.
UpToEnd(read) ==
  LET marks == {n \in DOMAIN read : read[n] = "done"}
  IN  IF marks = {} THEN read
      ELSE SubSeq(read, 1, (CHOOSE n \in marks : \A m \in marks : n <= m) - 1)

AnswerLines == {"text", "wide", TornText}
ShownLines == AnswerLines \cup {"reasoning"}
Among(read, what) == Picked(read, {n \in DOMAIN read : read[n] \in what})

Arrive(k) ==
  LET buf == buffer \o Decode(arrived, arrived + k)
      read == CompleteLines(buf)
  IN  /\ call = "reads" /\ arrived + k <= 2 * Len(lines)
      /\ arrived' = arrived + k
      /\ content' = content \o Among(UpToEnd(read), AnswerLines)
      /\ shown' = shown \o Among(UpToEnd(read), ShownLines)
      /\ buffer' = Rest(buf)
      /\ call' = IF "done" \in ToSet(read) THEN "answer" ELSE "reads"
      /\ UNCHANGED lines

\* The server closes the connection, which ends the answer whether or not the
\* mark was read; a line that is not complete is left.
Close ==
  /\ call = "reads" /\ call' = "answer"
  /\ UNCHANGED <<lines, arrived, buffer, content, shown>>

\* The connection breaks, or the time is over.
Break ==
  /\ call = "reads" /\ call' = "error"
  /\ UNCHANGED <<lines, arrived, buffer, content, shown>>

AnswerNext ==
  \/ Send \/ Close \/ Break
  \/ \E k \in 1..2 * MaxAnswer : Arrive(k)

AnswerSpec == AnswerInit /\ [][AnswerNext]_answerVars
-----------------------------------------------------------------------------
\* Properties.

\* The lines that have arrived, as the server wrote them.
Written == UpToEnd(SubSeq(lines, 1, arrived \div 2))
Same(read, line) == read = line \/ (read = TornText /\ line = "wide")

\* However the answer is cut into chunks, the lines are read one by one, in
\* their order, none twice and none lost: the content is the text of the
\* complete lines before the mark and the interface was shown the same with the
\* reasoning between (read_stream, apply_chunk).
ChunksJoined ==
  LET texts == Among(Written, AnswerLines)
      seen == Among(Written, ShownLines)
  IN  call \in {"reads", "answer"} =>
        /\ Len(content) = Len(texts) /\ Len(shown) = Len(seen)
        /\ \A n \in DOMAIN content : Same(content[n], texts[n])
        /\ \A n \in DOMAIN shown : Same(shown[n], seen[n])
=============================================================================
