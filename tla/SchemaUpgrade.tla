--------------------------- MODULE SchemaUpgrade ----------------------------
(***************************************************************************)
(* The start of the daemon on the database of an older one (connect of     *)
(* db/mod.rs, apply of db/migrate.rs): the columns it adds, the import of  *)
(* the old messages into one conversation and the dating of the old facts. *)
(*                                                                         *)
(* Each statement is its own transaction, and the daemon may stop between  *)
(* any two.  A start runs the steps in order; a step is skipped when the   *)
(* column it adds is there.                                                *)
(***************************************************************************)
EXTENDS Naturals, FiniteSets

CONSTANTS
  Messages,      \* the messages of the older daemon
  Facts,         \* its facts
  Columns,       \* the columns that only have to be there
  MaxCrashes     \* bound on the crashes and database failures

LinkColumn == "conversation_id"
DateColumn == "last_confirmed_at"

ASSUME CrashesAssumption == MaxCrashes \in Nat
ASSUME ColumnsAssumption == LinkColumn \notin Columns /\ DateColumn \notin Columns

VARIABLES
  upgrade,       \* where the start is
  columns,       \* the columns the tables have
  imported,      \* the conversations made for old messages
  linked,        \* the conversation of each message, or NoConversation
  dated,         \* the facts that have the time of their last confirmation
  crashes,
  broken         \* history: a start ended between a column and its rows

schemaVars == <<upgrade, columns, imported, linked, dated, crashes, broken>>

NoConversation == 0
Up == {"ready", "stopped"}

UpgradeInit ==
  /\ upgrade = "stopped" /\ crashes = 0 /\ broken = FALSE
  /\ columns \in SUBSET Columns
  /\ imported = 0 /\ dated = {}
  /\ linked = [m \in Messages |-> NoConversation]

UGoto(s) == upgrade' = s

\* The tables that miss are created with every column; the old ones stay.
StartDaemon ==
  /\ upgrade = "stopped"
  /\ UGoto("link column")
  /\ UNCHANGED <<columns, imported, linked, dated, crashes, broken>>

\* Seeded fault: the column is added without a look at the table, which the
\* database refuses when it is there.
AddColumnBlindly(column, here, next, skip) ==
  /\ upgrade = here
  /\ IF column \in columns
     THEN UGoto("stopped") /\ UNCHANGED columns
     ELSE columns' = columns \cup {column} /\ UGoto(next)

\* A column is added to a table that lacks it; adding it again would fail.
AddColumn(column, here, next, skip) ==
  /\ upgrade = here
  /\ IF column \in columns
     THEN UGoto(skip) /\ UNCHANGED columns
     ELSE columns' = columns \cup {column} /\ UGoto(next)

\* Without a message there is nothing to import.
AddLinkColumn ==
  /\ AddColumn(LinkColumn, "link column", IF Messages = {} THEN "columns" ELSE "import", "columns")
  /\ UNCHANGED <<imported, linked, dated, crashes, broken>>

CreateImport ==
  /\ upgrade = "import"
  /\ imported' = imported + 1
  /\ UGoto("link")
  /\ UNCHANGED <<columns, linked, dated, crashes, broken>>

LinkMessages ==
  /\ upgrade = "link"
  /\ linked' = [m \in Messages |-> IF linked[m] = NoConversation THEN imported ELSE linked[m]]
  /\ UGoto("columns")
  /\ UNCHANGED <<columns, imported, dated, crashes, broken>>

AddPlainColumn ==
  /\ upgrade = "columns"
  /\ IF Columns \subseteq columns THEN UGoto("date column") /\ UNCHANGED columns
     ELSE \E c \in Columns \ columns : columns' = columns \cup {c} /\ UNCHANGED upgrade
  /\ UNCHANGED <<imported, linked, dated, crashes, broken>>

AddDateColumn ==
  /\ AddColumn(DateColumn, "date column", "date", "ready")
  /\ UNCHANGED <<imported, linked, dated, crashes, broken>>

\* Seeded fault: the facts that have a time are selected.
DateDated ==
  /\ upgrade = "date"
  /\ UGoto("ready")
  /\ UNCHANGED <<columns, imported, linked, dated, crashes, broken>>

DateFacts ==
  /\ upgrade = "date"
  /\ dated' = Facts
  /\ UGoto("ready")
  /\ UNCHANGED <<columns, imported, linked, crashes, broken>>

\* The daemon stops, or the database fails a statement, which ends the start.
CrashDaemon ==
  /\ upgrade # "stopped" /\ crashes < MaxCrashes
  /\ crashes' = crashes + 1
  /\ broken' = (broken \/ upgrade \in {"import", "link", "date"})
  /\ UGoto("stopped")
  /\ UNCHANGED <<columns, imported, linked, dated>>

UpgradeStep ==
  \/ StartDaemon \/ AddLinkColumn \/ CreateImport \/ LinkMessages
  \/ AddPlainColumn \/ AddDateColumn \/ DateFacts

UpgradeNext == UpgradeStep \/ CrashDaemon

UpgradeSpec == UpgradeInit /\ [][UpgradeNext]_schemaVars /\ WF_schemaVars(UpgradeStep)
-----------------------------------------------------------------------------
\* Properties.

UpgradeTypeOK ==
  /\ upgrade \in {"link column", "import", "link", "columns", "date column", "date"} \cup Up
  /\ columns \subseteq Columns \cup {LinkColumn, DateColumn}
  /\ imported \in Nat /\ linked \in [Messages -> Nat]
  /\ dated \subseteq Facts /\ crashes \in Nat /\ broken \in BOOLEAN

\* However often the start is cut short, the old messages are imported into one
\* conversation, and into no second one (migrate_message_conversation).
ImportedOnce ==
  /\ imported <= 1
  /\ \A m \in Messages : linked[m] \in 0..imported

\* A daemon that is up has given every old message its conversation and every
\* old fact its time; only a start cut short between a column and its rows
\* leaves them without, and no later start makes up for it.
RowsKept ==
  upgrade = "ready" =>
    broken \/ (dated = Facts /\ \A m \in Messages : linked[m] # NoConversation)

\* However often the start is cut short, and wherever, nothing is imported twice
\* and nothing else than the cut column is left behind (apply).
UpgradeKeeps == ImportedOnce /\ RowsKept

\* A start ends, after any number of starts that were cut short.
UpgradeEnds == upgrade = "stopped" ~> upgrade = "ready"
=============================================================================
