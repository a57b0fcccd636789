--------------------------- MODULE SettingsCache ----------------------------
(***************************************************************************)
(* The settings (settings/service.rs) and the endpoint that writes them    *)
(* (server/settings.rs): one row of the table per key, and a copy of all   *)
(* rows in memory.                                                         *)
(*                                                                         *)
(* A call either reads the settings or updates them.  Reading takes the    *)
(* copy, or the rows one after another and then leaves a copy.  An update  *)
(* of the router reads the settings, lays the fields it was sent over them *)
(* and puts all its rows; another update puts the fields it was sent.      *)
(* Each put writes its row and then forgets the copy, and calls interleave *)
(* at every row.  The read that answers an update is a call of its own.    *)
(***************************************************************************)
EXTENDS Naturals

CONSTANTS
  Calls,     \* the calls under way at a time that read or update the settings
  Keys,      \* the rows of one update
  Values,    \* what a row may hold
  NoCopy

ASSUME NoCopyAssumption == NoCopy \notin [Keys -> Values] /\ Values # {}

VARIABLES
  rows,        \* the table
  copy,        \* the copy in memory, or NoCopy
  step,        \* where each call is
  seen,        \* what it has read, and what an update will write
  left,        \* the keys it still has to read or to write
  overtaken,   \* history: a put forgot the copy while the call reads the rows
  spoiled,     \* history: the call that left the copy was overtaken
  abandoned    \* history: a call ended between its row and the forgetting

settingsVars == <<rows, copy, step, seen, left, overtaken, spoiled, abandoned>>

Reading == {"read to answer", "read to update"}
history == <<overtaken, spoiled, abandoned>>

\* A call that ended holds nothing: any fixed settings stand for that.
ReadNothing == [k \in Keys |-> CHOOSE v \in Values : TRUE]

SettingsInit ==
  /\ rows \in [Keys -> Values]
  /\ copy = NoCopy
  /\ step = [c \in Calls |-> "idle"]
  /\ seen = [c \in Calls |-> ReadNothing]
  /\ left = [c \in Calls |-> {}]
  /\ overtaken = [c \in Calls |-> FALSE] /\ spoiled = FALSE /\ abandoned = FALSE

SettingsGoto(c, s) == step' = [step EXCEPT ![c] = s]

\* What a call that holds the settings does next: an update goes on to write
\* each row, the fields it was sent over what it read.
Use(c, s, settings) ==
  IF s = "read to answer"
  THEN SettingsGoto(c, "idle") /\ seen' = [seen EXCEPT ![c] = ReadNothing] /\ UNCHANGED left
  ELSE \E sent \in SUBSET Keys \ {{}}, v \in Values :
         /\ SettingsGoto(c, "put")
         /\ seen' = [seen EXCEPT ![c] = [k \in Keys |-> IF k \in sent THEN v ELSE settings[k]]]
         /\ left' = [left EXCEPT ![c] = Keys]

TakeCopy(c) ==
  /\ step[c] = "idle" /\ copy # NoCopy
  /\ \E s \in Reading : Use(c, s, copy)
  /\ UNCHANGED <<rows, copy, history>>

\* An update without a field of the router writes the fields it was sent.
PutSent(c) ==
  /\ step[c] = "idle"
  /\ \E sent \in SUBSET Keys \ {{}}, v \in Values :
       /\ seen' = [seen EXCEPT ![c] = [k \in Keys |-> v]]
       /\ left' = [left EXCEPT ![c] = sent]
  /\ SettingsGoto(c, "put")
  /\ UNCHANGED <<rows, copy, history>>

BeginRead(c) ==
  /\ step[c] = "idle" /\ copy = NoCopy
  /\ \E s \in Reading : SettingsGoto(c, s)
  /\ left' = [left EXCEPT ![c] = Keys]
  /\ overtaken' = [overtaken EXCEPT ![c] = FALSE]
  /\ UNCHANGED <<rows, copy, seen, spoiled, abandoned>>

ReadRow(c) ==
  /\ step[c] \in Reading
  /\ \E k \in left[c] :
       /\ seen' = [seen EXCEPT ![c][k] = rows[k]]
       /\ left' = [left EXCEPT ![c] = @ \ {k}]
  /\ UNCHANGED <<rows, copy, step, history>>

\* The rows that were read become the copy, whatever was written meanwhile.
Fill(c) ==
  /\ step[c] \in Reading /\ left[c] = {}
  /\ copy' = seen[c] /\ spoiled' = overtaken[c]
  /\ overtaken' = [overtaken EXCEPT ![c] = FALSE]
  /\ Use(c, step[c], seen[c])
  /\ UNCHANGED <<rows, abandoned>>

PutRow(c) ==
  /\ step[c] = "put"
  /\ \E k \in left[c] :
       /\ rows' = [rows EXCEPT ![k] = seen[c][k]]
       /\ left' = [left EXCEPT ![c] = @ \ {k}]
  /\ SettingsGoto(c, "forget")
  /\ UNCHANGED <<copy, seen, history>>

\* Seeded fault: the copy is forgotten once, after the last row.
ForgetLast(c) == IF left[c] = {} THEN NoCopy ELSE copy

ForgottenCopy(c) == NoCopy

Forget(c) ==
  /\ step[c] = "forget"
  /\ copy' = ForgottenCopy(c)
  /\ overtaken' = [d \in Calls |-> overtaken[d] \/ step[d] \in Reading]
  /\ SettingsGoto(c, IF left[c] = {} THEN "idle" ELSE "put")
  /\ seen' = IF left[c] = {} THEN [seen EXCEPT ![c] = ReadNothing] ELSE seen
  /\ UNCHANGED <<rows, left, spoiled, abandoned>>

\* The database fails a call, or its client goes away.
AbandonCall(c) ==
  /\ step[c] # "idle"
  /\ abandoned' = (abandoned \/ step[c] = "forget")
  /\ SettingsGoto(c, "idle")
  /\ left' = [left EXCEPT ![c] = {}] /\ seen' = [seen EXCEPT ![c] = ReadNothing]
  /\ overtaken' = [overtaken EXCEPT ![c] = FALSE]
  /\ UNCHANGED <<rows, copy, spoiled>>

SettingsNext ==
  \E c \in Calls :
    \/ TakeCopy(c) \/ PutSent(c) \/ BeginRead(c) \/ ReadRow(c) \/ Fill(c)
    \/ PutRow(c) \/ Forget(c) \/ AbandonCall(c)

SettingsSpec == SettingsInit /\ [][SettingsNext]_settingsVars
-----------------------------------------------------------------------------
\* Properties.

SettingsTypeOK ==
  /\ rows \in [Keys -> Values]
  /\ copy \in [Keys -> Values] \cup {NoCopy}
  /\ step \in [Calls -> Reading \cup {"idle", "put", "forget"}]
  /\ seen \in [Calls -> [Keys -> Values]]
  /\ left \in [Calls -> SUBSET Keys]
  /\ overtaken \in [Calls -> BOOLEAN] /\ spoiled \in BOOLEAN /\ abandoned \in BOOLEAN

\* The table was written and the copy not yet, or not any more, forgotten.
Unsettled == abandoned \/ \E c \in Calls : step[c] = "forget"

\* The copy a turn reads is the table, so a change applies to the next message,
\* except while a put is on its way to forget the copy, or when a put forgot it
\* during the read that left it (get_settings and put).
CopyStaleOnlyByRace ==
  copy # NoCopy => copy = rows \/ spoiled \/ Unsettled
=============================================================================
