--------------------------- MODULE IntentCatalog ----------------------------
(***************************************************************************)
(* The intents (intent/service.rs): the tables, the revision that every    *)
(* write bumps, and the catalog in memory with the revision it was read    *)
(* at.  An edition stands for the content of an intent; 0 is no intent.    *)
(*                                                                         *)
(* A write is one transaction, and bumps the revision after its commit.  A *)
(* reading takes the revision first, then the intents, then what belongs   *)
(* to them, from other tables and outside any transaction.                 *)
(***************************************************************************)
EXTENDS Naturals

CONSTANTS
  Readers,       \* readings of the catalog
  Writers,       \* calls that create, replace or delete an intent
  Names,
  MaxEdition,    \* bound on the writes
  NoCatalog

Editions == [Names -> Nat]
Catalogs == [revision : Nat, rows : Editions, parts : Editions]

ASSUME NoCatalogAssumption == NoCatalog \notin Catalogs

VARIABLES
  table,      \* the edition of the intent of each name
  edition,    \* the last edition
  revision,
  catalog,    \* the catalog in memory, or NoCatalog
  rpc, rrev, rrows, rparts,    \* each reading: its step, and what it has read
  wpc, wname,                  \* each write: its step and its name
  cutOff      \* history: a write was committed and never bumped the revision

catalogVars == <<table, edition, revision, catalog, rpc, rrev, rrows, rparts, wpc, wname, cutOff>>
reading == <<rpc, rrev, rrows, rparts>>

NoIntents == [n \in Names |-> 0]

CatalogInit ==
  /\ table = NoIntents /\ edition = 0 /\ revision = 0
  /\ catalog = NoCatalog
  /\ rpc = [r \in Readers |-> "idle"] /\ rrev = [r \in Readers |-> 0]
  /\ rrows = [r \in Readers |-> NoIntents] /\ rparts = [r \in Readers |-> NoIntents]
  /\ wpc = [w \in Writers |-> "idle"] /\ wname \in [Writers -> Names]
  /\ cutOff = FALSE

\* The catalog in memory serves a reading of its revision.
Serves == catalog # NoCatalog /\ catalog.revision = revision

BeginList(r) ==
  /\ rpc[r] = "idle" /\ ~Serves
  /\ rpc' = [rpc EXCEPT ![r] = "rows"]
  /\ rrev' = [rrev EXCEPT ![r] = revision]
  /\ UNCHANGED <<table, edition, revision, catalog, rrows, rparts, wpc, wname, cutOff>>

LoadRows(r) ==
  /\ rpc[r] = "rows"
  /\ rpc' = [rpc EXCEPT ![r] = "parts"]
  /\ rrows' = [rrows EXCEPT ![r] = table]
  /\ UNCHANGED <<table, edition, revision, catalog, rrev, rparts, wpc, wname, cutOff>>

\* The entities and phrases of the intents that were read.
LoadParts(r) ==
  /\ rpc[r] = "parts"
  /\ rpc' = [rpc EXCEPT ![r] = "store"]
  /\ rparts' = [rparts EXCEPT ![r] = [n \in Names |-> IF rrows[r][n] = 0 THEN 0 ELSE table[n]]]
  /\ UNCHANGED <<table, edition, revision, catalog, rrev, rrows, wpc, wname, cutOff>>

\* A reading that ended holds nothing.
EndList(r) ==
  /\ rpc' = [rpc EXCEPT ![r] = "idle"] /\ rrev' = [rrev EXCEPT ![r] = 0]
  /\ rrows' = [rrows EXCEPT ![r] = NoIntents] /\ rparts' = [rparts EXCEPT ![r] = NoIntents]

\* Seeded fault: the catalog is kept under the revision of the moment.
RevisionNow(r) == revision

RevisionRead(r) == rrev[r]

StoreCatalog(r) ==
  /\ rpc[r] = "store"
  /\ catalog' = [revision |-> RevisionRead(r), rows |-> rrows[r], parts |-> rparts[r]]
  /\ EndList(r)
  /\ UNCHANGED <<table, edition, revision, wpc, wname, cutOff>>

\* A database error, or a client that goes away.
AbandonList(r) ==
  /\ rpc[r] # "idle"
  /\ EndList(r)
  /\ UNCHANGED <<table, edition, revision, catalog, wpc, wname, cutOff>>

WGoto(w, s) == wpc' = [wpc EXCEPT ![w] = s]

\* A new intent finds its name free; one that is replaced exists.
Check(w) ==
  /\ wpc[w] = "idle"
  /\ \/ table[wname[w]] = 0 /\ WGoto(w, "create")
     \/ table[wname[w]] # 0 /\ WGoto(w, "update")
     \/ WGoto(w, "delete")
     \/ WGoto(w, "done")     \* refused: the input, the name or the intent
  /\ UNCHANGED <<table, edition, revision, catalog, reading, wname, cutOff>>

\* The transaction.  The name is unique in the table, so of two new intents of
\* one name the second is refused by the database; the rows an update writes
\* are gone when the intent was deleted meanwhile.
Commit(w) ==
  LET n == wname[w] IN
  /\ \/ wpc[w] = "create" /\ table[n] = 0 /\ table' = [table EXCEPT ![n] = edition + 1]
     \/ wpc[w] = "update" /\ table[n] # 0 /\ table' = [table EXCEPT ![n] = edition + 1]
     \/ wpc[w] = "delete" /\ table[n] # 0 /\ table' = [table EXCEPT ![n] = 0]
  /\ edition < MaxEdition /\ edition' = edition + 1
  /\ WGoto(w, "touch")
  /\ UNCHANGED <<revision, catalog, reading, wname, cutOff>>

\* The database refuses the transaction, or it deletes no intent.
Refuse(w) ==
  /\ wpc[w] \in {"create", "update", "delete"}
  /\ WGoto(w, "done")
  /\ UNCHANGED <<table, edition, revision, catalog, reading, wname, cutOff>>

Touch(w) ==
  /\ wpc[w] = "touch"
  /\ revision' = revision + 1
  /\ WGoto(w, "done")
  /\ UNCHANGED <<table, edition, catalog, reading, wname, cutOff>>

\* The client goes away while the commit is under way.
CutOff(w) ==
  /\ wpc[w] = "touch"
  /\ cutOff' = TRUE
  /\ WGoto(w, "done")
  /\ UNCHANGED <<table, edition, revision, catalog, reading, wname>>

CatalogNext ==
  \/ \E r \in Readers : \/ BeginList(r) \/ LoadRows(r) \/ LoadParts(r)
                        \/ StoreCatalog(r) \/ AbandonList(r)
  \/ \E w \in Writers : Check(w) \/ Commit(w) \/ Refuse(w) \/ Touch(w) \/ CutOff(w)

CatalogSpec == CatalogInit /\ [][CatalogNext]_catalogVars
-----------------------------------------------------------------------------
\* Properties.

CatalogTypeOK ==
  /\ table \in Editions /\ edition \in Nat /\ revision \in Nat
  /\ catalog \in Catalogs \cup {NoCatalog}
  /\ rpc \in [Readers -> {"idle", "rows", "parts", "store"}]
  /\ rrev \in [Readers -> Nat]
  /\ rrows \in [Readers -> Editions] /\ rparts \in [Readers -> Editions]
  /\ wpc \in [Writers -> {"idle", "create", "update", "delete", "touch", "done"}]
  /\ wname \in [Writers -> Names] /\ cutOff \in BOOLEAN

\* A write changed the tables and has not bumped the revision.
Untouched == cutOff \/ \E w \in Writers : wpc[w] = "touch"

\* The catalog that serves the turns is what the tables hold, all of one
\* edition, although it was read table by table while others wrote: only
\* between a commit and its bump of the revision may it lag (list_intents).
CatalogFresh ==
  Serves => (catalog.rows = table /\ catalog.parts = table) \/ Untouched
=============================================================================
