----------------------------- MODULE CommandRun -----------------------------
(***************************************************************************)
(* One run of a shell command (CommandRunner of execution/runner.rs): the  *)
(* shell and what it leaves in the background, a pipe and a reading task   *)
(* for each of the two streams, the channel the tasks send their lines on, *)
(* and the future that collects them until the time is over.               *)
(*                                                                         *)
(* A line is "text", "blank", or "bytes" that are no text.  What a command *)
(* writes, and when, is up to the command.                                 *)
(***************************************************************************)
EXTENDS Naturals, Sequences, SequencesExt

CONSTANTS
  LineBuffer,   \* how many lines the channel holds
  MaxOutput,    \* how much of a stream the outcome keeps
  MaxLines      \* bound on the lines of a stream

ASSUME RunAssumption == LineBuffer \in Nat \ {0} /\ MaxOutput \in Nat /\ MaxLines \in Nat

Streams == {"stdout", "stderr"}
Kinds == {"text", "blank", "bytes"}
Marked == "the output is longer"

VARIABLES
  shell,      \* "runs", or its exit: "ended" or "killed"
  child,      \* a process the shell left in the background: "none", "runs", "ended"
  written,    \* history: the lines of each stream
  pipe,       \* how many of them were written and not yet read
  reader,     \* the task of each stream: "reads" or "ended"
  channel,    \* the lines on their way to the collector
  heard,      \* the lines the caller was told of, by stream
  kept,       \* the lines of the text collected so far
  phase,      \* the run: "collects", "waits", "outcome", "timeout" or "dropped"
  output      \* what the outcome says of each stream

runVars == <<shell, child, written, pipe, reader, channel, heard, kept, phase, output>>
processes == <<shell, child>>
collection == <<heard, kept, phase, output>>

Nothing == [s \in Streams |-> <<>>]

RunInit ==
  /\ shell = "runs" /\ child = "none"
  /\ written = Nothing /\ pipe = [s \in Streams |-> 0]
  /\ reader = [s \in Streams |-> "reads"] /\ channel = <<>>
  /\ heard = Nothing /\ kept = Nothing
  /\ phase = "collects" /\ output = Nothing

Alive == shell = "runs" \/ child = "runs"
UnderWay == phase \in {"collects", "waits"}

-----------------------------------------------------------------------------
\* The command.

WriteLine(s) ==
  /\ Alive /\ reader[s] = "reads" /\ Len(written[s]) < MaxLines
  /\ \E kind \in Kinds : written' = [written EXCEPT ![s] = Append(@, kind)]
  /\ pipe' = [pipe EXCEPT ![s] = @ + 1]
  /\ UNCHANGED <<processes, reader, channel, collection>>

\* A process that writes to a pipe nobody reads is ended by that.
BreakPipe(s) ==
  /\ reader[s] = "ended"
  /\ \/ shell = "runs" /\ shell' = "killed" /\ UNCHANGED child
     \/ child = "runs" /\ child' = "ended" /\ UNCHANGED shell
  /\ UNCHANGED <<written, pipe, reader, channel, collection>>

Fork ==
  /\ shell = "runs" /\ child = "none"
  /\ child' = "runs"
  /\ UNCHANGED <<shell, written, pipe, reader, channel, collection>>

Exit ==
  /\ \/ shell = "runs" /\ shell' = "ended" /\ UNCHANGED child
     \/ child = "runs" /\ child' = "ended" /\ UNCHANGED shell
  /\ UNCHANGED <<written, pipe, reader, channel, collection>>

-----------------------------------------------------------------------------
\* The tasks.

NextLine(s) == written[s][Len(written[s]) - pipe[s] + 1]
EndReader(s) == reader' = [reader EXCEPT ![s] = "ended"] /\ UNCHANGED <<pipe, channel>>

\* A task ends at the end of its stream, at bytes that are no text, and when
\* nobody takes its lines; a full channel makes it wait.
ReadPipe(s) ==
  /\ reader[s] = "reads"
  /\ IF pipe[s] = 0 THEN ~Alive /\ EndReader(s)
     ELSE IF NextLine(s) = "bytes" \/ ~UnderWay THEN EndReader(s)
     ELSE /\ Len(channel) < LineBuffer
          /\ channel' = Append(channel, [stream |-> s, text |-> NextLine(s)])
          /\ pipe' = [pipe EXCEPT ![s] = @ - 1]
          /\ UNCHANGED reader
  /\ UNCHANGED <<processes, written, collection>>

-----------------------------------------------------------------------------
\* The future.

\* Lines are joined by line breaks; one that is blank adds nothing to a text
\* that is still empty.
Push(lines, text) == IF lines = <<>> /\ text = "blank" THEN lines ELSE Append(lines, text)

Collect ==
  /\ phase = "collects" /\ channel # <<>>
  /\ LET line == Head(channel) IN
       /\ heard' = [heard EXCEPT ![line.stream] = Append(@, line.text)]
       /\ kept' = [kept EXCEPT ![line.stream] = Push(@, line.text)]
  /\ channel' = Tail(channel)
  /\ UNCHANGED <<processes, written, pipe, reader, phase, output>>

AllRead == \A s \in Streams : reader[s] = "ended"

\* Seeded fault: the collection ends with the shell.
CollectedWithShell == shell # "runs"

Collected == channel = <<>> /\ AllRead

EndOfLines ==
  /\ phase = "collects" /\ Collected
  /\ phase' = "waits"
  /\ UNCHANGED <<processes, written, pipe, reader, channel, heard, kept, output>>

Cut(lines) ==
  IF Len(lines) <= MaxOutput THEN lines ELSE Append(SubSeq(lines, 1, MaxOutput), Marked)

Outcome ==
  /\ phase = "waits" /\ shell # "runs"
  /\ phase' = "outcome"
  /\ output' = [s \in Streams |-> Cut(kept[s])]
  /\ UNCHANGED <<processes, written, pipe, reader, channel, heard, kept>>

\* The time is over, or the turn of the command is: the future is dropped, and
\* the shell with it is killed.
Over ==
  /\ UnderWay
  /\ phase' \in {"timeout", "dropped"}
  /\ shell' = IF shell = "runs" THEN "killed" ELSE shell
  /\ channel' = <<>>
  /\ UNCHANGED <<child, written, pipe, reader, heard, kept, output>>

RunNext ==
  \/ \E s \in Streams : WriteLine(s) \/ BreakPipe(s) \/ ReadPipe(s)
  \/ Fork \/ Exit \/ Collect \/ EndOfLines \/ Outcome \/ Over

RunSpec == RunInit /\ [][RunNext]_runVars
-----------------------------------------------------------------------------
\* Properties.

IsText(s) == "bytes" \notin ToSet(written[s])

\* Lines joined from the first that is not blank.
Joined(lines) ==
  LET texts == {n \in DOMAIN lines : lines[n] # "blank"}
  IN  IF texts = {} THEN <<>>
      ELSE SubSeq(lines, CHOOSE n \in texts : \A m \in texts : n <= m, Len(lines))

\* The caller hears the lines of each stream in their order and none twice, and
\* a run that has an outcome has heard all that was written before: by the shell
\* and by what the shell left behind, up to bytes that are no text; the outcome
\* quotes what was heard, cut to its limit (CommandRunner::run).
OutputTold ==
  \A s \in Streams :
    /\ IsPrefix(heard[s], written[s])
    /\ phase = "outcome" /\ IsText(s) =>
         heard[s] = written[s] /\ output[s] = Cut(Joined(written[s]))
=============================================================================
