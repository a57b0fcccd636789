-------------------------- MODULE Settings_proofs ---------------------------
(***************************************************************************)
(* The copy of the settings is stale only by a race or by a call cut off,  *)
(* for any number of calls, rows and values; the rows an update leaves are a*)
(* set of stages the daemon can run, for any requests; and the catalog that*)
(* serves the turns is the tables, for any number of readings, writes and  *)
(* intents.                                                                *)
(***************************************************************************)
EXTENDS SettingsCache, SettingsUpdate, IntentCatalog, TLAPS

\* The copy of the settings in memory (SettingsCache).

\* What a reading call has read of the table still stands in it, unless a put
\* forgot the copy since, or is on its way to forget it.
ReadHolds ==
  \A c \in Calls : step[c] \in Reading =>
    \A k \in Keys \ left[c] : seen[c][k] = rows[k] \/ overtaken[c] \/ Unsettled

SettingsInv == SettingsTypeOK /\ ReadHolds /\ CopyStaleOnlyByRace

LEMMA ReadNothingTyped == ReadNothing \in [Keys -> Values]
BY NoCopyAssumption DEF ReadNothing

\* A call that uses the settings it holds stays in the type, and it is neither
\* reading nor about to forget the copy.
LEMMA UseKeepsType ==
  ASSUME SettingsTypeOK, NEW c \in Calls, NEW s \in Reading,
         NEW settings \in [Keys -> Values], Use(c, s, settings)
  PROVE  /\ step' = [step EXCEPT ![c] = step'[c]] /\ step'[c] \in {"idle", "put"}
         /\ seen' \in [Calls -> [Keys -> Values]]
         /\ left' \in [Calls -> SUBSET Keys]
         /\ \A d \in Calls \ {c} : seen'[d] = seen[d] /\ left'[d] = left[d]
<1> USE DEF SettingsTypeOK, SettingsGoto
<1>1. CASE s = "read to answer"
  BY <1>1, ReadNothingTyped DEF Use
<1>2. CASE s # "read to answer"
  <2>1. PICK sent \in SUBSET Keys \ {{}}, v \in Values :
          /\ SettingsGoto(c, "put")
          /\ seen' = [seen EXCEPT ![c] = [k \in Keys |-> IF k \in sent THEN v ELSE settings[k]]]
          /\ left' = [left EXCEPT ![c] = Keys]
    BY <1>2 DEF Use
  <2> QED BY <2>1
<1> QED BY <1>1, <1>2

\* Only the forgetting, and a call cut off, end the time in which the table is
\* ahead of the copy.
LEMMA StillUnsettled ==
  ASSUME SettingsTypeOK, Unsettled, NEW c \in Calls, step[c] # "forget",
         \A d \in Calls \ {c} : step'[d] = step[d], abandoned' = abandoned
  PROVE  Unsettled'
BY DEF Unsettled

\* The types, by the operation that keeps them.
LEMMA SettingsTyped ==
  SettingsTypeOK /\ [SettingsNext]_settingsVars => SettingsTypeOK'
<1> SUFFICES ASSUME SettingsTypeOK, [SettingsNext]_settingsVars PROVE SettingsTypeOK'
  OBVIOUS
<1>1. ASSUME NEW c \in Calls, TakeCopy(c) PROVE SettingsTypeOK'
  <2>1. PICK s \in Reading : Use(c, s, copy)
    BY <1>1 DEF TakeCopy
  <2>2. copy \in [Keys -> Values]
    BY <1>1 DEF TakeCopy, SettingsTypeOK
  <2> QED BY <1>1, <2>1, <2>2, UseKeepsType DEF TakeCopy, SettingsTypeOK, history
<1>2. ASSUME NEW c \in Calls, PutSent(c) PROVE SettingsTypeOK'
  BY <1>2 DEF PutSent, SettingsTypeOK, history, SettingsGoto
<1>3. ASSUME NEW c \in Calls, BeginRead(c) PROVE SettingsTypeOK'
  BY <1>3 DEF BeginRead, SettingsTypeOK, SettingsGoto
<1>4. ASSUME NEW c \in Calls, ReadRow(c) PROVE SettingsTypeOK'
  BY <1>4 DEF ReadRow, SettingsTypeOK, history
<1>5. ASSUME NEW c \in Calls, Fill(c) PROVE SettingsTypeOK'
  <2>1. step[c] \in Reading /\ seen[c] \in [Keys -> Values] /\ Use(c, step[c], seen[c])
    BY <1>5 DEF Fill, SettingsTypeOK
  <2>2. /\ step' = [step EXCEPT ![c] = step'[c]] /\ step'[c] \in {"idle", "put"}
        /\ seen' \in [Calls -> [Keys -> Values]] /\ left' \in [Calls -> SUBSET Keys]
    BY <2>1, UseKeepsType
  <2> QED BY <1>5, <2>1, <2>2 DEF Fill, SettingsTypeOK
<1>6. ASSUME NEW c \in Calls, PutRow(c) PROVE SettingsTypeOK'
  BY <1>6 DEF PutRow, SettingsTypeOK, history, SettingsGoto
<1>7. ASSUME NEW c \in Calls, Forget(c) PROVE SettingsTypeOK'
  <2>1. overtaken' \in [Calls -> BOOLEAN]
    BY <1>7 DEF Forget
  <2>2. seen' \in [Calls -> [Keys -> Values]]
    BY <1>7, ReadNothingTyped DEF Forget, SettingsTypeOK
  <2> QED BY <1>7, <2>1, <2>2 DEF Forget, ForgottenCopy, SettingsTypeOK, SettingsGoto
<1>8. ASSUME NEW c \in Calls, AbandonCall(c) PROVE SettingsTypeOK'
  <2>1. abandoned' \in BOOLEAN
    BY <1>8, Zenon DEF AbandonCall
  <2> QED BY <1>8, <2>1, ReadNothingTyped DEF AbandonCall, SettingsTypeOK, SettingsGoto
<1>9. CASE UNCHANGED settingsVars
  BY <1>9 DEF settingsVars, SettingsTypeOK
<1> QED BY <1>1, <1>2, <1>3, <1>4, <1>5, <1>6, <1>7, <1>8, <1>9 DEF SettingsNext

\* The copy is the table, or is stale by a race, after every operation.
LEMMA SettingsInvKept ==
  SettingsInv /\ [SettingsNext]_settingsVars => SettingsInv'
<1> SUFFICES ASSUME SettingsInv, [SettingsNext]_settingsVars PROVE SettingsInv'
  OBVIOUS
<1>t. SettingsTypeOK /\ SettingsTypeOK'
  BY SettingsTyped DEF SettingsInv
<1> SUFFICES ReadHolds' /\ CopyStaleOnlyByRace'
  BY <1>t DEF SettingsInv
<1>i. ReadHolds /\ CopyStaleOnlyByRace
  BY DEF SettingsInv
<1>1. ASSUME NEW c \in Calls, TakeCopy(c) PROVE ReadHolds' /\ CopyStaleOnlyByRace'
  <2>1. PICK s \in Reading : Use(c, s, copy)
    BY <1>1 DEF TakeCopy
  <2>2. copy \in [Keys -> Values] /\ step[c] = "idle"
    BY <1>1, <1>t DEF TakeCopy, SettingsTypeOK
  <2>3. /\ step' = [step EXCEPT ![c] = step'[c]] /\ step'[c] \in {"idle", "put"}
        /\ \A d \in Calls \ {c} : seen'[d] = seen[d] /\ left'[d] = left[d]
    BY <2>1, <2>2, <1>t, UseKeepsType
  <2>4. \A d \in Calls \ {c} : step'[d] = step[d]
    BY <2>3, <1>t DEF SettingsTypeOK
  <2>5. UNCHANGED <<rows, copy, overtaken, spoiled, abandoned>>
    BY <1>1 DEF TakeCopy, history
  <2>6. Unsettled => Unsettled'
    BY <2>2, <2>4, <2>5, <1>t, StillUnsettled
  <2>7. step'[c] \notin Reading
    BY <2>3 DEF Reading
  <2>8. ReadHolds'
    BY <1>i, <2>3, <2>4, <2>5, <2>6, <2>7 DEF ReadHolds
  <2> QED BY <1>i, <2>5, <2>6, <2>8 DEF CopyStaleOnlyByRace
<1>2. ASSUME NEW c \in Calls, PutSent(c) PROVE ReadHolds' /\ CopyStaleOnlyByRace'
  <2>1. step[c] = "idle" /\ step' = [step EXCEPT ![c] = "put"]
        /\ UNCHANGED <<rows, copy, overtaken, spoiled, abandoned>>
    BY <1>2 DEF PutSent, SettingsGoto, history
  <2>2. \A d \in Calls \ {c} : step'[d] = step[d] /\ seen'[d] = seen[d] /\ left'[d] = left[d]
    BY <1>2, <2>1, <1>t DEF PutSent, SettingsTypeOK
  <2>3. Unsettled => Unsettled'
    BY <2>1, <2>2, <1>t, StillUnsettled
  <2>4. step'[c] \notin Reading
    BY <2>1, <1>t DEF Reading, SettingsTypeOK
  <2>5. ReadHolds'
    BY <1>i, <2>1, <2>2, <2>3, <2>4 DEF ReadHolds
  <2> QED BY <1>i, <2>1, <2>3, <2>5 DEF CopyStaleOnlyByRace
<1>3. ASSUME NEW c \in Calls, BeginRead(c) PROVE ReadHolds' /\ CopyStaleOnlyByRace'
  <2>1. /\ step[c] = "idle" /\ UNCHANGED <<rows, copy, seen, spoiled, abandoned>>
        /\ left' = [left EXCEPT ![c] = Keys]
        /\ overtaken' = [overtaken EXCEPT ![c] = FALSE]
    BY <1>3 DEF BeginRead
  <2>2. \A d \in Calls \ {c} :
          step'[d] = step[d] /\ left'[d] = left[d] /\ overtaken'[d] = overtaken[d]
    BY <1>3, <1>t DEF BeginRead, SettingsGoto, SettingsTypeOK
  <2>3. Unsettled => Unsettled'
    BY <2>1, <2>2, <1>t, StillUnsettled
  <2>4. left'[c] = Keys
    BY <2>1, <1>t DEF SettingsTypeOK
  <2>5. ReadHolds'
    BY <1>i, <2>1, <2>2, <2>3, <2>4 DEF ReadHolds
  <2> QED BY <1>i, <2>1, <2>3, <2>5 DEF CopyStaleOnlyByRace
<1>4. ASSUME NEW c \in Calls, ReadRow(c) PROVE ReadHolds' /\ CopyStaleOnlyByRace'
  <2>1. PICK k \in left[c] : /\ seen' = [seen EXCEPT ![c][k] = rows[k]]
                             /\ left' = [left EXCEPT ![c] = @ \ {k}]
    BY <1>4 DEF ReadRow
  <2>2. UNCHANGED <<rows, copy, step, overtaken, spoiled, abandoned>>
    BY <1>4 DEF ReadRow, history
  <2>3. Unsettled' <=> Unsettled
    BY <2>2 DEF Unsettled
  <2>4. \A d \in Calls \ {c} : seen'[d] = seen[d] /\ left'[d] = left[d]
    BY <2>1, <1>t DEF SettingsTypeOK
  <2>5. left'[c] = left[c] \ {k} /\ seen'[c][k] = rows[k] /\ k \in Keys
        /\ \A j \in Keys \ {k} : seen'[c][j] = seen[c][j]
    BY <2>1, <1>t DEF SettingsTypeOK
  <2>6. ReadHolds'
    BY <1>i, <2>2, <2>3, <2>4, <2>5 DEF ReadHolds
  <2> QED BY <1>i, <2>2, <2>3, <2>6 DEF CopyStaleOnlyByRace
<1>5. ASSUME NEW c \in Calls, Fill(c) PROVE ReadHolds' /\ CopyStaleOnlyByRace'
  <2>1. /\ step[c] \in Reading /\ left[c] = {} /\ seen[c] \in [Keys -> Values]
        /\ Use(c, step[c], seen[c])
        /\ copy' = seen[c] /\ spoiled' = overtaken[c]
        /\ \A d \in Calls \ {c} : overtaken'[d] = overtaken[d]
        /\ UNCHANGED <<rows, abandoned>>
    BY <1>5, <1>t DEF Fill, SettingsTypeOK
  <2>2. /\ step' = [step EXCEPT ![c] = step'[c]] /\ step'[c] \in {"idle", "put"}
        /\ \A d \in Calls \ {c} : seen'[d] = seen[d] /\ left'[d] = left[d]
    BY <2>1, <1>t, UseKeepsType
  <2>3. \A d \in Calls \ {c} : step'[d] = step[d]
    BY <2>2, <1>t DEF SettingsTypeOK
  <2>4. step[c] # "forget" /\ step'[c] \notin Reading
    BY <2>1, <2>2 DEF Reading
  <2>5. Unsettled => Unsettled'
    BY <2>1, <2>3, <2>4, <1>t, StillUnsettled
  <2>6. ReadHolds'
    BY <1>i, <2>1, <2>2, <2>3, <2>4, <2>5 DEF ReadHolds
  <2>7. (\A k \in Keys : seen[c][k] = rows[k]) \/ overtaken[c] \/ Unsettled
    BY <1>i, <2>1 DEF ReadHolds
  <2>8. (\A k \in Keys : seen[c][k] = rows[k]) => seen[c] = rows
    BY <2>1, <1>t DEF SettingsTypeOK
  <2> QED BY <2>1, <2>5, <2>6, <2>7, <2>8 DEF CopyStaleOnlyByRace
<1>6. ASSUME NEW c \in Calls, PutRow(c) PROVE ReadHolds' /\ CopyStaleOnlyByRace'
  <2>1. step'[c] = "forget"
    BY <1>6, <1>t DEF PutRow, SettingsGoto, SettingsTypeOK
  <2>2. Unsettled'
    BY <2>1 DEF Unsettled
  <2> QED BY <2>2 DEF ReadHolds, CopyStaleOnlyByRace
<1>7. ASSUME NEW c \in Calls, Forget(c) PROVE ReadHolds' /\ CopyStaleOnlyByRace'
  <2>1. copy' = NoCopy /\ step[c] = "forget"
    BY <1>7 DEF Forget, ForgottenCopy
  <2>2. \A d \in Calls \ {c} : step'[d] = step[d]
    BY <1>7, <1>t DEF Forget, SettingsGoto, SettingsTypeOK
  <2>3. step'[c] \notin Reading
    BY <1>7, <1>t DEF Forget, SettingsGoto, SettingsTypeOK, Reading
  <2>4. \A d \in Calls : step[d] \in Reading => overtaken'[d]
    BY <1>7 DEF Forget
  <2>5. ReadHolds'
    BY <2>2, <2>3, <2>4 DEF ReadHolds
  <2> QED BY <2>1, <2>5 DEF CopyStaleOnlyByRace
<1>8. ASSUME NEW c \in Calls, AbandonCall(c) PROVE ReadHolds' /\ CopyStaleOnlyByRace'
  <2>1. step' = [step EXCEPT ![c] = "idle"] /\ left' = [left EXCEPT ![c] = {}]
        /\ seen' = [seen EXCEPT ![c] = ReadNothing] /\ overtaken' = [overtaken EXCEPT ![c] = FALSE]
        /\ UNCHANGED <<rows, copy, spoiled>>
    BY <1>8 DEF AbandonCall, SettingsGoto
  <2>2. /\ step'[c] \notin Reading
        /\ \A d \in Calls \ {c} : step'[d] = step[d] /\ left'[d] = left[d]
                                  /\ seen'[d] = seen[d] /\ overtaken'[d] = overtaken[d]
    BY <2>1, <1>t DEF SettingsTypeOK, Reading
  <2>3. abandoned' = (abandoned \/ step[c] = "forget")
    BY <1>8 DEF AbandonCall
  <2>4. Unsettled => Unsettled'
    BY <2>2, <2>3 DEF Unsettled
  <2>5. ReadHolds'
    BY <1>i, <2>1, <2>2, <2>4 DEF ReadHolds
  <2> QED BY <1>i, <2>1, <2>4, <2>5 DEF CopyStaleOnlyByRace
<1>9. CASE UNCHANGED settingsVars
  BY <1>9, <1>i DEF settingsVars, ReadHolds, CopyStaleOnlyByRace, Unsettled
<1> QED BY <1>1, <1>2, <1>3, <1>4, <1>5, <1>6, <1>7, <1>8, <1>9 DEF SettingsNext

\* A turn reads the settings of the table, except while a put is on its way to
\* forget the copy, after one that was cut off, and after a put that forgot the
\* copy during the very read that left it (SettingsService).
THEOREM SettingsCopyHolds == SettingsSpec => []CopyStaleOnlyByRace
<1>1. SettingsInit => SettingsInv
  BY ZenonT(60), NoCopyAssumption, ReadNothingTyped DEF SettingsInit, SettingsInv, SettingsTypeOK, ReadHolds,
     CopyStaleOnlyByRace, Reading
<1>2. SettingsInv => CopyStaleOnlyByRace
  BY DEF SettingsInv
<1> QED BY <1>1, <1>2, SettingsInvKept, PTL DEF SettingsSpec

-----------------------------------------------------------------------------
\* What an update leaves of the stages (SettingsUpdate).

CallFields == {"does", "req", "for", "got", "todo"}
RowKeys == {"quality", "speed"} \cup Fields
StagesOf(t) == [f \in Fields |-> Or(t[f], FileRouter[f])]

\* The rows of a call, in the order it writes them, are sliders and then stages,
\* and the stages those of a set the daemon can run.
Planned(todo, r) ==
  /\ \E S : todo \in Seq(S)
  /\ todo # <<>>
  /\ Runnable(r) /\ \A f \in Fields : r[f] # Unset
  /\ \A n \in DOMAIN todo : todo[n][1] \in Fields => todo[n][2] = r[todo[n][1]]
  /\ \A m, n \in DOMAIN todo : m < n /\ todo[m][1] \in Fields => todo[n][1] \in Fields

\* A stage is the one of the set, or its row is still to be written.
Pending(todo, r, from) ==
  \A f \in Fields : StagesOf(held)[f] = r[f] \/ \E n \in DOMAIN todo : n >= from /\ todo[n][1] = f

\* Before its first stage is written the table is as it was.
Before(todo) == todo[1][1] \notin Fields => Runnable(StagesOf(held))

Writes(u) == client[u].does \in {"write", "forget"}

WritesSet(u) ==
  LET todo == client[u].todo IN
  /\ Does(u, "write") => \E r : Planned(todo, r) /\ Pending(todo, r, 1) /\ Before(todo)
  /\ Does(u, "forget") => \E r : Planned(todo, r) /\ Pending(todo, r, 2) /\ Before(todo)

Guarded ==
  /\ (\A u \in Updates : ~Writes(u)) => Runnable(StagesOf(held))
  /\ \A u \in Updates : WritesSet(u)

CallTrue(c, call) ==
  /\ DOMAIN call = CallFields
  /\ c \in Gets => /\ call.does \in {"idle", "away", "get", "rows"}
                   /\ call.does \in {"get", "rows"} => call.for = "answer"
  /\ call.does \in {"get", "rows"} /\ call.for = "check" => ChangesRouter(call.req)

UpdateShape ==
  /\ DOMAIN held = RowKeys /\ DOMAIN client = Clients
  /\ memory # Unset => \A f \in Fields : memory.router[f] # Unset
  /\ \A c \in Clients : CallTrue(c, client[c])

UpdateInv ==
  /\ UpdateShape
  /\ ~overlapped => \A u, v \in Updates : Busy(u) /\ Busy(v) => u = v
  /\ ~overlapped /\ ~unguarded => Guarded

\* Stages are runnable by their values.
LEMMA SameStages ==
  ASSUME NEW a, NEW b, \A f \in Fields : a[f] = b[f]
  PROVE  Runnable(a) <=> Runnable(b)
<1>1. a.retrieve = b.retrieve /\ a.lexical = b.lexical /\ a.dense = b.dense
  BY DEF Fields
<1> QED BY <1>1 DEF Runnable, UsesEmbeddings

LEMMA StagesSet ==
  /\ \A f \in Fields : FileRouter[f] # Unset
  /\ \A t : \A f \in Fields : StagesOf(t)[f] # Unset /\ StagesOf(t)[f] = Or(t[f], FileRouter[f])
  /\ \A t : SettingsOf(t).router = StagesOf(t)
<1>1. \A f \in Fields : FileRouter[f] # Unset
  BY UpdateAssumption DEF Fields, Routers, Retrievals
<1> QED BY <1>1 DEF StagesOf, SettingsOf, Or

\* What a call becomes.
LEMMA CallSet ==
  ASSUME NEW call, DOMAIN call = CallFields
  PROVE  /\ \A what : /\ DOMAIN ReadFor(call, what) = CallFields
                      /\ ReadFor(call, what).does = "get" /\ ReadFor(call, what).for = what
                      /\ ReadFor(call, what).req = call.req
         /\ \A todo, what : /\ DOMAIN WriteAs(call, todo, what) = CallFields
                            /\ WriteAs(call, todo, what).does = "write"
                            /\ WriteAs(call, todo, what).todo = todo
         /\ \A req : /\ DOMAIN [call EXCEPT !.req = req] = CallFields
                     /\ [call EXCEPT !.req = req].req = req
         /\ \A todo : /\ DOMAIN [call EXCEPT !.todo = todo] = CallFields
                      /\ [call EXCEPT !.todo = todo].todo = todo
                      /\ [call EXCEPT !.todo = todo].req = call.req
                      /\ [call EXCEPT !.todo = todo].for = call.for
         /\ \A got : /\ DOMAIN [call EXCEPT !.got = got] = CallFields
                     /\ [call EXCEPT !.got = got].does = call.does
                     /\ [call EXCEPT !.got = got].for = call.for
                     /\ [call EXCEPT !.got = got].req = call.req
         /\ \A does : /\ DOMAIN [call EXCEPT !.does = does] = CallFields
                      /\ [call EXCEPT !.does = does].does = does
                      /\ [call EXCEPT !.does = does].for = call.for
                      /\ [call EXCEPT !.does = does].req = call.req
                      /\ [call EXCEPT !.does = does].todo = call.todo
BY DEF CallFields, ReadFor, WriteAs

LEMMA QuietCall ==
  /\ DOMAIN Quiet = CallFields /\ Quiet.does = "idle"
  /\ DOMAIN Away = CallFields /\ Away.does = "away"
BY DEF Quiet, Away, CallFields

LEMMA UpdateInvInitially == UpdateInit => UpdateInv
<1> SUFFICES ASSUME UpdateInit PROVE UpdateInv
  OBVIOUS
<1>1. \A c \in Clients : client[c] \in {Quiet, Away} /\ DOMAIN client = Clients
  BY DEF UpdateInit
<1>2. \A c \in Clients : DOMAIN client[c] = CallFields /\ client[c].does \in {"idle", "away"}
  BY <1>1, QuietCall
<1>3. DOMAIN client = Clients
  BY DEF UpdateInit
<1>4. UpdateShape
  BY <1>2, <1>3 DEF UpdateInit, UpdateShape, CallTrue, RowKeys
<1>5. \A u \in Updates : ~Busy(u) /\ WritesSet(u)
  BY <1>2 DEF Busy, Does, WritesSet, Clients
<1>6. \A f \in Fields : StagesOf(held)[f] = FileRouter[f]
  BY StagesSet DEF UpdateInit, Or
<1>7. Runnable(StagesOf(held))
  BY <1>6, SameStages, UpdateAssumption
<1> QED BY <1>4, <1>5, <1>7 DEF UpdateInv, Guarded

\* A step of one call leaves the others what they are.
LEMMA CallSteps ==
  ASSUME UpdateInv, NEW c \in Clients, NEW call, Now(c, call), CallTrue(c, call),
         DOMAIN held' = RowKeys,
         memory' # Unset => \A f \in Fields : memory'.router[f] # Unset,
         overlapped => overlapped', unguarded => unguarded',
         ~overlapped' /\ c \in Updates => \A u \in Updates \ {c} : ~Busy(u),
         ~overlapped' /\ ~unguarded' => Guarded'
  PROVE  UpdateInv'
<1>1. /\ DOMAIN client' = Clients /\ client'[c] = call
      /\ \A d \in Clients \ {c} : client'[d] = client[d]
  BY DEF Now, UpdateInv, UpdateShape
<1>2. UpdateShape'
  <2>1. \A d \in Clients : CallTrue(d, client'[d])
    BY <1>1 DEF UpdateInv, UpdateShape
  <2>2. \A d \in Clients : CallTrue(d, client[d])'
    BY <2>1 DEF CallTrue, ChangesRouter, Sends
  <2> QED BY <1>1, <2>2 DEF UpdateShape
<1>3. ASSUME ~overlapped', NEW u \in Updates, NEW v \in Updates, Busy(u)', Busy(v)' PROVE u = v
  <2>1. \A w \in Updates \ {c} : Busy(w)' => Busy(w)
    BY <1>1 DEF Busy, Does, Clients
  <2> QED BY <1>3, <2>1 DEF UpdateInv, Clients
<1> QED BY <1>2, <1>3 DEF UpdateInv

\* What a call that only reads does is nothing to the rows.
LEMMA GetsLeave ==
  ASSUME UpdateInv, NEW c \in Gets, NEW call, Now(c, call), CallTrue(c, call),
         held' = held, memory' # Unset => \A f \in Fields : memory'.router[f] # Unset,
         overlapped' = overlapped, unguarded => unguarded'
  PROVE  UpdateInv'
<1>1. /\ \A d \in Clients \ {c} : client'[d] = client[d]
      /\ Updates \subseteq Clients \ {c} /\ c \in Clients
  BY UpdateAssumption DEF Now, UpdateInv, UpdateShape, Clients
<1>2. ASSUME NEW u \in Updates
      PROVE  (Writes(u)' <=> Writes(u)) /\ (WritesSet(u)' <=> WritesSet(u))
  <2>1. client'[u] = client[u] /\ StagesOf(held') = StagesOf(held)
    BY <1>1
  <2>2. \A todo, r, n : Pending(todo, r, n)' <=> Pending(todo, r, n)
    BY DEF Pending, StagesOf
  <2>3. \A todo : Before(todo)' <=> Before(todo)
    BY DEF Before, StagesOf
  <2> QED BY <2>1, <2>2, <2>3 DEF Writes, WritesSet, Does
<1>3. Guarded => Guarded'
  BY <1>1, <1>2 DEF Guarded, StagesOf
<1>4. c \notin Updates
  BY UpdateAssumption
<1> QED BY <1>1, <1>3, <1>4, CallSteps DEF UpdateInv, UpdateShape

\* An update that is under way is alone.
LEMMA AloneUnderWay ==
  ASSUME UpdateInv, NEW c \in Updates, Busy(c), ~overlapped
  PROVE  \A u \in Updates \ {c} : ~Busy(u) /\ ~Writes(u)
BY DEF UpdateInv, Busy, Does, Writes

\* What is left to be proved of a step of an update: what it writes next.
LEMMA UpdateSteps ==
  ASSUME UpdateInv, NEW c \in Updates, NEW call, Now(c, call), CallTrue(c, call),
         DOMAIN held' = RowKeys,
         memory' # Unset => \A f \in Fields : memory'.router[f] # Unset,
         overlapped => overlapped', unguarded => unguarded',
         ~overlapped' => \A u \in Updates \ {c} : ~Busy(u),
         ~overlapped' /\ ~unguarded' =>
            /\ WritesSet(c)'
            /\ call.does \notin {"write", "forget"} => Runnable(StagesOf(held'))
  PROVE  UpdateInv'
<1>1. /\ client'[c] = call /\ \A d \in Clients \ {c} : client'[d] = client[d]
      /\ c \in Clients /\ Updates \subseteq Clients
  BY DEF Now, UpdateInv, UpdateShape, Clients
<1>2. ASSUME ~overlapped', ~unguarded' PROVE Guarded'
  <2>1. \A u \in Updates \ {c} : ~Busy(u)' /\ ~Writes(u)' /\ WritesSet(u)'
    BY <1>1, <1>2 DEF Busy, Does, Writes, WritesSet
  <2>2. (\A u \in Updates : ~Writes(u)') => Runnable(StagesOf(held'))
    BY <1>1, <1>2 DEF Writes
  <2>3. (\A u \in Updates : ~Writes(u)') => Runnable(StagesOf(held))'
    BY <2>2 DEF StagesOf
  <2> QED BY <1>2, <2>1, <2>3 DEF Guarded
<1> QED BY <1>1, <1>2, CallSteps

\* The rows of the sliders and of the stages, and what they leave of a set.
LEMMA SliderRows ==
  \A q : /\ QualityRows(q) \in Seq({<<"quality", q>>, <<"speed", 100 - q>>})
          /\ SpeedRows(q) \in Seq({<<"speed", q>>, <<"quality", 100 - q>>})
          /\ Len(QualityRows(q)) = 2 /\ Len(SpeedRows(q)) = 2
          /\ \A n \in 1..2 : QualityRows(q)[n][1] \notin Fields /\ SpeedRows(q)[n][1] \notin Fields
BY DEF QualityRows, SpeedRows, Fields

LEMMA StageRows ==
  ASSUME NEW r
  PROVE  /\ \E S : RouterRows(r) \in Seq(S)
         /\ Len(RouterRows(r)) = 3
         /\ \A n \in 1..3 : RouterRows(r)[n][1] \in Fields /\ RouterRows(r)[n][2] = r[RouterRows(r)[n][1]]
         /\ \A f \in Fields : \E n \in 1..3 : RouterRows(r)[n][1] = f
<1>1. RouterRows(r) \in Seq({<<"retrieve", r.retrieve>>, <<"lexical", r.lexical>>, <<"dense", r.dense>>})
  BY DEF RouterRows
<1>2. /\ RouterRows(r)[1] = <<"retrieve", r.retrieve>> /\ RouterRows(r)[2] = <<"lexical", r.lexical>>
      /\ RouterRows(r)[3] = <<"dense", r.dense>> /\ Len(RouterRows(r)) = 3
  BY DEF RouterRows
<1>3. 1 \in 1..3 /\ 2 \in 1..3 /\ 3 \in 1..3 /\ \A n \in 1..3 : n = 1 \/ n = 2 \/ n = 3
  OBVIOUS
<1>4. \A n \in 1..3 : RouterRows(r)[n][1] \in Fields /\ RouterRows(r)[n][2] = r[RouterRows(r)[n][1]]
  BY <1>2, <1>3 DEF Fields
<1>5. \A f \in Fields : \E n \in 1..3 : RouterRows(r)[n][1] = f
  BY <1>2, <1>3 DEF Fields
<1> QED BY <1>1, <1>2, <1>4, <1>5

\* Rows of sliders before rows of stages are a plan.
LEMMA PlanMade ==
  ASSUME NEW a, NEW b, NEW S, NEW T, a \in Seq(S), b \in Seq(T), Len(a) + Len(b) # 0,
         \A n \in 1..Len(a) : a[n][1] \notin Fields,
         NEW r, Runnable(r), \A f \in Fields : r[f] # Unset,
         \A n \in 1..Len(b) : b[n][1] \in Fields /\ b[n][2] = r[b[n][1]]
  PROVE  Planned(a \o b, r)
<1> DEFINE s == a \o b
<1>1. a \in Seq(S \cup T) /\ b \in Seq(S \cup T) /\ Len(a) \in Nat /\ Len(b) \in Nat
  OBVIOUS
<1>2. /\ s \in Seq(S \cup T) /\ DOMAIN s = 1..(Len(a) + Len(b)) /\ Len(s) = Len(a) + Len(b)
      /\ \A n \in 1..Len(a) : s[n] = a[n]
      /\ \A n \in 1..Len(b) : s[Len(a) + n] = b[n]
      /\ \A n \in 1..(Len(a) + Len(b)) : n > Len(a) => s[n] = b[n - Len(a)] /\ n - Len(a) \in 1..Len(b)
  BY <1>1
<1>3. s # <<>>
  BY <1>1, <1>2
<1> HIDE DEF s
<1>4. ASSUME NEW n \in DOMAIN s, s[n][1] \in Fields PROVE n > Len(a) /\ s[n][2] = r[s[n][1]]
  <2>1. n > Len(a)
    BY <1>1, <1>2, <1>4
  <2> QED BY SMTT(30), <1>2, <2>1
<1>5. ASSUME NEW n \in DOMAIN s, n > Len(a) PROVE s[n][1] \in Fields
  BY <1>2, <1>5
<1>6. ASSUME NEW m \in DOMAIN s, NEW n \in DOMAIN s, m < n, s[m][1] \in Fields
      PROVE  s[n][1] \in Fields
  <2>1. m > Len(a)
    BY <1>4, <1>6
  <2>2. n > Len(a)
    BY <1>1, <1>2, <1>6, <2>1
  <2> QED BY <1>5, <2>2
<1>7. Planned(s, r)
  BY <1>2, <1>3, <1>4, <1>6 DEF Planned
<1> QED BY <1>7 DEF s

LEMMA RowsAfter ==
  ASSUME NEW a, NEW b, NEW S, NEW T, a \in Seq(S), b \in Seq(T), NEW n \in 1..Len(b)
  PROVE  \E k \in DOMAIN (a \o b) : k >= 1 /\ (a \o b)[k] = b[n]
<1>1. a \in Seq(S \cup T) /\ b \in Seq(S \cup T) /\ Len(a) \in Nat /\ Len(b) \in Nat
  OBVIOUS
<1>2. Len(a) + n \in DOMAIN (a \o b) /\ Len(a) + n >= 1 /\ (a \o b)[Len(a) + n] = b[n]
  BY <1>1
<1> QED BY <1>2

LEMMA EmptyRows == /\ \A S : <<>> \in Seq(S)
                   /\ Len(<<>>) = 0
OBVIOUS

\* The rows of two setters of sliders after each other.
LEMMA SlidersFirst ==
  ASSUME NEW req
  PROVE  LET a == (IF Sends(req, "quality") THEN QualityRows(req.quality) ELSE <<>>)
                    \o (IF Sends(req, "speed") THEN SpeedRows(req.speed) ELSE <<>>)
         IN  /\ \E S : a \in Seq(S)
             /\ Len(a) \in Nat /\ (MovesSlider(req) => Len(a) # 0)
             /\ \A n \in 1..Len(a) : a[n][1] \notin Fields
<1> DEFINE p == IF Sends(req, "quality") THEN QualityRows(req.quality) ELSE <<>>
           q == IF Sends(req, "speed") THEN SpeedRows(req.speed) ELSE <<>>
<1>1. /\ \E S : p \in Seq(S)
      /\ Len(p) = IF Sends(req, "quality") THEN 2 ELSE 0
      /\ \A n \in 1..Len(p) : p[n][1] \notin Fields
  <2>1. CASE Sends(req, "quality")
    BY <2>1, SliderRows
  <2>2. CASE ~Sends(req, "quality")
    BY <2>2, EmptyRows
  <2> QED BY <2>1, <2>2
<1>2. /\ \E S : q \in Seq(S)
      /\ Len(q) = IF Sends(req, "speed") THEN 2 ELSE 0
      /\ \A n \in 1..Len(q) : q[n][1] \notin Fields
  <2>1. CASE Sends(req, "speed")
    BY <2>1, SliderRows
  <2>2. CASE ~Sends(req, "speed")
    BY <2>2, EmptyRows
  <2> QED BY <2>1, <2>2
<1> HIDE DEF p, q
<1>3. PICK S, T : p \in Seq(S) /\ q \in Seq(T)
  BY <1>1, <1>2
<1>4. p \in Seq(S \cup T) /\ q \in Seq(S \cup T) /\ Len(p) \in Nat /\ Len(q) \in Nat
  BY <1>3
<1>5. /\ p \o q \in Seq(S \cup T) /\ Len(p \o q) = Len(p) + Len(q)
      /\ \A n \in 1..(Len(p) + Len(q)) :
           \/ n \in 1..Len(p) /\ (p \o q)[n] = p[n]
           \/ n - Len(p) \in 1..Len(q) /\ (p \o q)[n] = q[n - Len(p)]
  BY <1>4
<1>6. MovesSlider(req) => Len(p) + Len(q) # 0
  BY <1>1, <1>2 DEF MovesSlider
<1>7. \A n \in 1..Len(p \o q) : (p \o q)[n][1] \notin Fields
  BY <1>1, <1>2, <1>5
<1>8. Len(p \o q) \in Nat
  BY <1>4, <1>5
<1> QED BY <1>5, <1>6, <1>7, <1>8 DEF p, q

\* The rows of an update are planned.
LEMMA RowsPlanned ==
  ASSUME NEW req, NEW router, ChangesRouter(req) \/ MovesSlider(req),
         NEW r, Runnable(r), \A f \in Fields : r[f] # Unset,
         ChangesRouter(req) => r = Laid(req, router)
  PROVE  /\ Planned(RowsFor(req, router), r)
         /\ ChangesRouter(req) =>
              \A f \in Fields : \E n \in DOMAIN RowsFor(req, router) :
                n >= 1 /\ RowsFor(req, router)[n][1] = f
<1> DEFINE a == (IF Sends(req, "quality") THEN QualityRows(req.quality) ELSE <<>>)
                  \o (IF Sends(req, "speed") THEN SpeedRows(req.speed) ELSE <<>>)
           b == IF ChangesRouter(req) THEN RouterRows(Laid(req, router)) ELSE <<>>
<1>1. /\ \E S : a \in Seq(S)
      /\ Len(a) \in Nat /\ (MovesSlider(req) => Len(a) # 0)
      /\ \A n \in 1..Len(a) : a[n][1] \notin Fields
  BY SlidersFirst
<1>2. /\ \E S : b \in Seq(S)
      /\ Len(b) \in Nat /\ (ChangesRouter(req) => Len(b) # 0)
      /\ \A n \in 1..Len(b) : b[n][1] \in Fields /\ b[n][2] = r[b[n][1]]
      /\ ChangesRouter(req) => \A f \in Fields : \E n \in 1..Len(b) : b[n][1] = f
  <2>1. CASE ChangesRouter(req)
    BY <2>1, StageRows
  <2>2. CASE ~ChangesRouter(req)
    BY <2>2, EmptyRows
  <2> QED BY <2>1, <2>2
<1>3. RowsFor(req, router) = a \o b
  BY DEF RowsFor
<1> HIDE DEF a, b
<1>4. PICK S, T : a \in Seq(S) /\ b \in Seq(T)
  BY <1>1, <1>2
<1>5. Len(a) + Len(b) # 0
  BY <1>1, <1>2
<1>6. Planned(a \o b, r)
  BY <1>1, <1>2, <1>4, <1>5, PlanMade
<1>7. \A n \in 1..Len(b) : \E k \in DOMAIN (a \o b) : k >= 1 /\ (a \o b)[k] = b[n]
  BY <1>4, RowsAfter
<1>8. ASSUME ChangesRouter(req), NEW f \in Fields
      PROVE  \E k \in DOMAIN (a \o b) : k >= 1 /\ (a \o b)[k][1] = f
  <2>1. PICK n \in 1..Len(b) : b[n][1] = f
    BY <1>2, <1>8
  <2>2. PICK k \in DOMAIN (a \o b) : k >= 1 /\ (a \o b)[k] = b[n]
    BY <1>7
  <2> QED BY <2>1, <2>2
<1> QED BY <1>3, <1>6, <1>8

\* The stages a slider leads to are a set the daemon can run, if the stored ones are.
LEMMA PresetRuns ==
  ASSUME NEW q, Runnable(StagesOf(held))
  PROVE  LET r == Preset(q, StagesOf(held)) IN Runnable(r) /\ \A f \in Fields : r[f] # Unset
<1> DEFINE s == StagesOf(held)
<1>1. DOMAIN s = Fields /\ \A f \in Fields : s[f] # Unset
  BY StagesSet DEF StagesOf
<1> HIDE DEF s
<1>2. "lexical" # Unset /\ "hybrid" # Unset /\ 1 # Unset
  BY UpdateAssumption DEF Retrievals
<1>3. CASE q < 55
  <2>1. /\ Preset(q, s) = [s EXCEPT !.retrieve = "lexical"]
        /\ Preset(q, s).retrieve = "lexical" /\ Preset(q, s).lexical = s.lexical
        /\ Preset(q, s).dense = s.dense
    BY <1>1, <1>3 DEF Preset, Fields
  <2>2. Runnable(Preset(q, s))
    BY <2>1 DEF Runnable, UsesEmbeddings, s
  <2>3. \A f \in Fields : Preset(q, s)[f] # Unset
    BY <1>1, <1>2, <2>1 DEF Fields
  <2> QED BY <2>2, <2>3 DEF s
<1>4. CASE ~(q < 55)
  <2>1. Preset(q, s) = [retrieve |-> "hybrid", lexical |-> 1, dense |-> 1]
    BY <1>4 DEF Preset
  <2> QED BY <1>2, <2>1 DEF Runnable, UsesEmbeddings, Fields, s
<1> QED BY <1>3, <1>4

\* An update that begins to write the rows of the stages of a table that runs.
LEMMA PresetPlanned ==
  ASSUME NEW r, Runnable(r), \A f \in Fields : r[f] # Unset
  PROVE  /\ Planned(RouterRows(r), r)
         /\ \A f \in Fields : \E n \in DOMAIN RouterRows(r) : n >= 1 /\ RouterRows(r)[n][1] = f
<1>1. PICK S : RouterRows(r) \in Seq(S)
  BY StageRows
<1>2. DOMAIN RouterRows(r) = 1..3 /\ RouterRows(r) # <<>>
  BY <1>1, StageRows, EmptyRows
<1>3. Planned(RouterRows(r), r)
  BY <1>1, <1>2, StageRows DEF Planned
<1>4. ASSUME NEW f \in Fields PROVE \E n \in DOMAIN RouterRows(r) : n >= 1 /\ RouterRows(r)[n][1] = f
  BY <1>2, StageRows
<1> QED BY <1>3, <1>4
-----------------------------------------------------------------------------
\* What a call writes next, by what its record holds.
LEMMA WritesFrom ==
  ASSUME NEW c, NEW todo, NEW r, client'[c].does = "write", client'[c].todo = todo,
         Planned(todo, r),
         \A f \in Fields : \/ StagesOf(held')[f] = r[f]
                           \/ \E n \in DOMAIN todo : n >= 1 /\ todo[n][1] = f,
         todo[1][1] \notin Fields => Runnable(StagesOf(held'))
  PROVE  WritesSet(c)'
<1>1. Pending(todo, r, 1)' /\ Before(todo)'
  BY DEF Pending, Before, StagesOf
<1>2. Planned(todo, r)'
  BY DEF Planned
<1> QED BY <1>1, <1>2 DEF WritesSet, Does

LEMMA WritesForget ==
  ASSUME NEW c, NEW todo, NEW r, client'[c].does = "forget", client'[c].todo = todo,
         Planned(todo, r),
         \A f \in Fields : \/ StagesOf(held')[f] = r[f]
                           \/ \E n \in DOMAIN todo : n >= 2 /\ todo[n][1] = f,
         todo[1][1] \notin Fields => Runnable(StagesOf(held'))
  PROVE  WritesSet(c)'
<1>1. Pending(todo, r, 2)' /\ Before(todo)'
  BY DEF Pending, Before, StagesOf
<1>2. Planned(todo, r)'
  BY DEF Planned
<1> QED BY <1>1, <1>2 DEF WritesSet, Does

\* An update that has not begun its rows leaves a table the daemon can run.
LEMMA RunsBeforeRows ==
  ASSUME UpdateInv, NEW c \in Updates, ~Writes(c), ~overlapped, ~unguarded,
         \A u \in Updates \ {c} : ~Busy(u)
  PROVE  Runnable(StagesOf(held))
<1>1. \A u \in Updates : ~Writes(u)
  BY DEF Busy, Does, Writes
<1> QED BY <1>1 DEF UpdateInv, Guarded
-----------------------------------------------------------------------------
LEMMA BeginUpdateKeeps == ASSUME UpdateInv, NEW c \in Clients, BeginUpdate(c) PROVE UpdateInv'
<1>1. /\ c \in Updates /\ client[c].does = "idle" /\ UNCHANGED <<held, memory, lost, unguarded>>
      /\ overlapped' = (overlapped \/ \E u \in Updates : Busy(u))
  BY DEF BeginUpdate, Does
<1>2. PICK req \in Requests :
        LET call == [client[c] EXCEPT !.req = req] IN
        \/ ChangesRouter(req) /\ Now(c, ReadFor(call, "check"))
        \/ /\ ~ChangesRouter(req)
           /\ Now(c, WriteAs(call, RowsFor(req, FileRouter), "rows"))
  BY DEF BeginUpdate
<1>4. PICK call : call = [client[c] EXCEPT !.req = req]
  OBVIOUS
<1>3. /\ DOMAIN held' = RowKeys
      /\ (memory' # Unset => \A f \in Fields : memory'.router[f] # Unset)
      /\ DOMAIN call = CallFields /\ call.req = req
  BY <1>1, <1>4, CallSet DEF UpdateInv, UpdateShape, CallTrue
<1>5. ~overlapped' => \A u \in Updates \ {c} : ~Busy(u)
  BY <1>1
<1>6. ~overlapped' /\ ~unguarded' => Runnable(StagesOf(held))
  BY <1>1, <1>5, RunsBeforeRows DEF Writes
<1>7. c \notin Gets
  BY <1>1, UpdateAssumption
<1>8. CASE ChangesRouter(req) /\ Now(c, ReadFor(call, "check"))
  <2>1. CallTrue(c, ReadFor(call, "check"))
    BY <1>3, <1>7, <1>8, CallSet DEF CallTrue
  <2>2. client'[c] = ReadFor(call, "check") /\ ReadFor(call, "check").does = "get"
    BY <1>3, <1>8, CallSet DEF Now, UpdateInv, UpdateShape
  <2>3. WritesSet(c)'
    BY <2>2 DEF WritesSet, Does
  <2> QED BY <1>1, <1>3, <1>5, <1>6, <1>8, <2>1, <2>2, <2>3, UpdateSteps
<1>9. CASE ~ChangesRouter(req) /\ Now(c, WriteAs(call, RowsFor(req, FileRouter), "rows"))
  <2>1. PICK todo, next, r : /\ todo = RowsFor(req, FileRouter) /\ next = WriteAs(call, todo, "rows")
                             /\ r = StagesOf(held)
    OBVIOUS
  <2>2. CallTrue(c, next)
    BY <1>3, <1>7, <2>1, CallSet DEF CallTrue
  <2>3. client'[c] = next /\ next.does = "write" /\ next.todo = todo /\ Now(c, next)
    BY <1>3, <1>9, <2>1, CallSet DEF Now, UpdateInv, UpdateShape
  <2>4. ASSUME ~overlapped', ~unguarded' PROVE WritesSet(c)'
    <3>1. Runnable(r) /\ \A f \in Fields : r[f] # Unset
      BY <1>6, <2>1, <2>4, StagesSet
    <3>2. Planned(todo, r)
      BY <1>9, <2>1, <3>1, RowsPlanned, UpdateAssumption
    <3>3. StagesOf(held') = r
      BY <1>1, <2>1
    <3> QED BY <2>3, <3>1, <3>2, <3>3, WritesFrom
  <2> QED BY <1>1, <1>3, <1>5, <2>2, <2>3, <2>4, UpdateSteps
<1> QED BY <1>2, <1>4, <1>8, <1>9

LEMMA BeginGetKeeps == ASSUME UpdateInv, NEW c \in Clients, BeginGet(c) PROVE UpdateInv'
<1>1. /\ c \in Gets /\ UNCHANGED <<held, memory, begun, lost, overlapped, unguarded>>
      /\ Now(c, ReadFor(client[c], "answer"))
  BY DEF BeginGet
<1>2. DOMAIN client[c] = CallFields
  BY DEF UpdateInv, UpdateShape, CallTrue
<1>3. CallTrue(c, ReadFor(client[c], "answer"))
  BY <1>2, CallSet DEF CallTrue
<1> QED BY <1>1, <1>3, GetsLeave DEF UpdateInv, UpdateShape

\* What a call does with the settings it was given, from the copy or the table.
LEMMA UseKeeps ==
  ASSUME UpdateInv, NEW c \in Clients, client[c].does \in {"get", "rows"},
         NEW s, \A f \in Fields : s.router[f] # Unset, UseSettings(c, s),
         held' = held, overlapped' = overlapped,
         memory' # Unset => \A f \in Fields : memory'.router[f] # Unset
  PROVE  UpdateInv'
<1>1. PICK call : call = client[c]
  OBVIOUS
<1>2. DOMAIN call = CallFields /\ CallTrue(c, call) /\ DOMAIN held' = RowKeys
      /\ call.does \in {"get", "rows"}
  BY <1>1 DEF UpdateInv, UpdateShape, CallTrue
<1>3. unguarded => unguarded'
  BY DEF UseSettings
<1>4. CallTrue(c, Quiet)
  BY QuietCall DEF CallTrue
<1>5. CASE Now(c, Quiet) /\ c \in Gets
  BY <1>3, <1>4, <1>5, GetsLeave
<1>6. CASE c \in Updates
  <2>1. c \notin Gets /\ ~Writes(c) /\ Busy(c)
    BY <1>1, <1>2, <1>6, UpdateAssumption DEF Writes, Busy, Does
  <2>2. ~overlapped' => \A u \in Updates \ {c} : ~Busy(u)
    BY <1>6, <2>1, AloneUnderWay
  <2>3. ~overlapped' /\ ~unguarded' => Runnable(StagesOf(held))
    BY <1>3, <1>6, <2>1, <2>2, RunsBeforeRows
  <2>4. CASE Now(c, Quiet)
    <3>1. client'[c] = Quiet
      BY <2>4 DEF Now, UpdateInv, UpdateShape
    <3>2. WritesSet(c)'
      BY <3>1, QuietCall DEF WritesSet, Does
    <3> QED BY <1>2, <1>3, <1>4, <1>6, <2>2, <2>3, <2>4, <3>2, QuietCall, UpdateSteps
  <2>5. ASSUME NEW todo, NEW what, NEW r, Now(c, WriteAs(call, todo, what)),
               ~overlapped' /\ ~unguarded' =>
                 /\ Planned(todo, r)
                 /\ \A f \in Fields : \E n \in DOMAIN todo : n >= 1 /\ todo[n][1] = f
        PROVE  UpdateInv'
    <3>1. PICK next : next = WriteAs(call, todo, what)
      OBVIOUS
    <3>2. next.does = "write" /\ next.todo = todo /\ DOMAIN next = CallFields /\ Now(c, next)
      BY <1>2, <2>5, <3>1, CallSet
    <3>3. client'[c] = next /\ CallTrue(c, next)
      BY <2>1, <3>2 DEF Now, UpdateInv, UpdateShape, CallTrue
    <3>4. ASSUME ~overlapped', ~unguarded' PROVE WritesSet(c)'
      <4>1. Runnable(StagesOf(held'))
        BY <2>3, <3>4
      <4> QED BY <2>5, <3>2, <3>3, <3>4, <4>1, WritesFrom
    <3> QED BY <1>2, <1>3, <1>6, <2>2, <3>2, <3>3, <3>4, UpdateSteps
  <2>6. CASE call.for = "check" /\ Accepts(call.req, s.router)
             /\ Now(c, WriteAs(call, RowsFor(call.req, s.router), "rows"))
    <3>1. ChangesRouter(call.req)
      BY <1>2, <2>6 DEF CallTrue
    <3>2. PICK r, req, router : r = Laid(req, router) /\ req = call.req /\ router = s.router
      OBVIOUS
    <3>3. Runnable(r) /\ \A f \in Fields : r[f] # Unset
      BY <2>6, <3>1, <3>2 DEF Accepts, Laid, Or
    <3>4. /\ Planned(RowsFor(req, router), r)
          /\ \A f \in Fields : \E n \in DOMAIN RowsFor(req, router) :
               n >= 1 /\ RowsFor(req, router)[n][1] = f
      BY <3>1, <3>2, <3>3, RowsPlanned
    <3> QED BY <2>5, <2>6, <3>2, <3>4
  <2>7. CASE Now(c, WriteAs(call, RouterRows(Preset(Quality(call.req), s.router)), "preset"))
             /\ unguarded' = (unguarded \/ s.router # SettingsOf(held).router)
    <3>1. PICK q, r : q = Quality(call.req) /\ r = Preset(q, s.router)
      OBVIOUS
    <3>2. ASSUME ~overlapped', ~unguarded' PROVE Runnable(r) /\ \A f \in Fields : r[f] # Unset
      <4>1. s.router = StagesOf(held) /\ Runnable(StagesOf(held))
        BY <2>3, <2>7, <3>2, StagesSet
      <4> QED BY <3>1, <4>1, PresetRuns
    <3>3. ASSUME ~overlapped', ~unguarded'
          PROVE  /\ Planned(RouterRows(r), r)
                 /\ \A f \in Fields : \E n \in DOMAIN RouterRows(r) : n >= 1 /\ RouterRows(r)[n][1] = f
      BY <3>2, <3>3, PresetPlanned
    <3> QED BY <2>5, <2>7, <3>1, <3>3
  <2>8. \/ Now(c, Quiet)
        \/ call.for = "check" /\ Accepts(call.req, s.router)
             /\ Now(c, WriteAs(call, RowsFor(call.req, s.router), "rows"))
        \/ Now(c, WriteAs(call, RouterRows(Preset(Quality(call.req), s.router)), "preset"))
             /\ unguarded' = (unguarded \/ s.router # SettingsOf(held).router)
    BY <1>1 DEF UseSettings
  <2> QED BY <2>4, <2>6, <2>7, <2>8
<1>7. c \in Gets => Now(c, Quiet)
  BY <1>1, <1>2 DEF UseSettings, CallTrue
<1> QED BY <1>5, <1>6, <1>7 DEF Clients

\* A call that goes on reading.
LEMMA ReadsKeep ==
  ASSUME UpdateInv, NEW c \in Clients, client[c].does \in {"get", "rows"},
         NEW call, Now(c, call), DOMAIN call = CallFields, call.does \in {"get", "rows"},
         call.for = client[c].for, call.req = client[c].req,
         held' = held, memory' = memory, overlapped' = overlapped, unguarded' = unguarded
  PROVE  UpdateInv'
<1>1. CallTrue(c, call) /\ DOMAIN held' = RowKeys
      /\ (memory' # Unset => \A f \in Fields : memory'.router[f] # Unset)
  BY DEF UpdateInv, UpdateShape, CallTrue
<1>2. CASE c \in Gets
  BY <1>1, <1>2, GetsLeave
<1>3. CASE c \in Updates
  <2>1. ~Writes(c) /\ Busy(c)
    BY DEF Writes, Busy, Does
  <2>2. ~overlapped' => \A u \in Updates \ {c} : ~Busy(u)
    BY <1>3, <2>1, AloneUnderWay
  <2>3. ~overlapped' /\ ~unguarded' => Runnable(StagesOf(held))
    BY <1>3, <2>1, <2>2, RunsBeforeRows
  <2>4. client'[c] = call
    BY DEF Now, UpdateInv, UpdateShape
  <2>5. WritesSet(c)'
    BY <2>4 DEF WritesSet, Does
  <2> QED BY <1>1, <1>3, <2>2, <2>3, <2>5, UpdateSteps
<1> QED BY <1>2, <1>3 DEF Clients

LEMMA FromMemoryKeeps == ASSUME UpdateInv, NEW c \in Clients, FromMemory(c) PROVE UpdateInv'
<1>1. PICK s : s = memory
  OBVIOUS
<1>2. /\ client[c].does \in {"get", "rows"} /\ memory # Unset /\ UseSettings(c, s)
      /\ held' = held /\ memory' = memory /\ overlapped' = overlapped
  BY <1>1 DEF FromMemory, Does
<1>3. \A f \in Fields : s.router[f] # Unset
  BY <1>1, <1>2 DEF UpdateInv, UpdateShape
<1> QED BY <1>1, <1>2, <1>3, UseKeeps

LEMMA ReadTableKeeps == ASSUME UpdateInv, NEW c \in Clients, ReadTable(c) PROVE UpdateInv'
<1>1. PICK call : call = [client[c] EXCEPT !.does = "rows"]
  OBVIOUS
<1>2. /\ client[c].does = "get" /\ Now(c, call)
      /\ held' = held /\ memory' = memory /\ overlapped' = overlapped /\ unguarded' = unguarded
  BY <1>1 DEF ReadTable, Does
<1>3. DOMAIN client[c] = CallFields
  BY DEF UpdateInv, UpdateShape, CallTrue
<1>4. DOMAIN call = CallFields /\ call.does = "rows" /\ call.for = client[c].for /\ call.req = client[c].req
  BY <1>1, <1>3, CallSet
<1> QED BY <1>2, <1>4, ReadsKeep

LEMMA ReadNextRowKeeps == ASSUME UpdateInv, NEW c \in Clients, ReadNextRow(c) PROVE UpdateInv'
<1>1. PICK got : got = Append(client[c].got, held[ReadOrder[Len(client[c].got) + 1]])
  OBVIOUS
<1>2. PICK call : call = [client[c] EXCEPT !.got = got]
  OBVIOUS
<1>3. /\ client[c].does = "rows" /\ Now(c, call)
      /\ held' = held /\ memory' = memory /\ overlapped' = overlapped /\ unguarded' = unguarded
  BY <1>1, <1>2 DEF ReadNextRow, Does
<1>4. DOMAIN client[c] = CallFields
  BY DEF UpdateInv, UpdateShape, CallTrue
<1>5. DOMAIN call = CallFields /\ call.does = "rows" /\ call.for = client[c].for /\ call.req = client[c].req
  BY <1>2, <1>3, <1>4, CallSet
<1> QED BY <1>3, <1>5, ReadsKeep

LEMMA KeepRowsKeeps == ASSUME UpdateInv, NEW c \in Clients, KeepRows(c) PROVE UpdateInv'
<1>1. PICK t : t = [k \in DOMAIN held |-> client[c].got[CHOOSE n \in 1..5 : ReadOrder[n] = k]]
  OBVIOUS
<1>2. PICK s : s = SettingsOf(t)
  OBVIOUS
<1>3. /\ client[c].does \in {"get", "rows"} /\ UseSettings(c, s)
      /\ held' = held /\ memory' = s /\ overlapped' = overlapped
  BY <1>1, <1>2 DEF KeepRows, Does
<1>4. \A f \in Fields : s.router[f] # Unset
  BY <1>2, StagesSet
<1> QED BY <1>3, <1>4, UseKeeps

\* A row that was written is the stage of the set.
LEMMA WriteRowKeeps == ASSUME UpdateInv, NEW c \in Clients, WriteRow(c) PROVE UpdateInv'
<1>1. PICK call, todo : call = [client[c] EXCEPT !.does = "forget"] /\ todo = client[c].todo
  OBVIOUS
<1>2. PICK row : row = Head(todo)
  OBVIOUS
<1>3. /\ client[c].does = "write" /\ Now(c, call) /\ held' = [held EXCEPT ![row[1]] = row[2]]
      /\ memory' = memory /\ overlapped' = overlapped /\ unguarded' = unguarded
  BY <1>1, <1>2 DEF WriteRow, Does
<1>4. DOMAIN client[c] = CallFields /\ CallTrue(c, client[c])
  BY DEF UpdateInv, UpdateShape, CallTrue
<1>5. /\ DOMAIN call = CallFields /\ call.does = "forget" /\ call.for = client[c].for
      /\ call.req = client[c].req /\ call.todo = todo
  BY <1>1, <1>4, CallSet
<1>6. c \in Updates /\ c \notin Gets
  BY <1>3, <1>4 DEF CallTrue, Clients
<1>7. CallTrue(c, call) /\ DOMAIN held = RowKeys /\ DOMAIN held' = RowKeys
      /\ (memory' # Unset => \A f \in Fields : memory'.router[f] # Unset)
  BY <1>3, <1>5, <1>6 DEF UpdateInv, UpdateShape, CallTrue
<1>8. ~overlapped' => \A u \in Updates \ {c} : ~Busy(u)
  <2>1. Busy(c)
    BY <1>3 DEF Busy, Does
  <2> QED BY <1>3, <1>6, <2>1, AloneUnderWay
<1>9. ASSUME ~overlapped', ~unguarded' PROVE WritesSet(c)'
  <2>1. PICK r : Planned(todo, r) /\ Pending(todo, r, 1) /\ Before(todo)
    BY <1>1, <1>3, <1>6, <1>9 DEF UpdateInv, Guarded, WritesSet, Does
  <2>2. PICK S : todo \in Seq(S) /\ todo # <<>>
    BY <2>1 DEF Planned
  <2>3. row = todo[1] /\ 1 \in DOMAIN todo /\ \A n \in DOMAIN todo : n \in Nat /\ n >= 1
    BY <1>2, <2>2
  <2>4. \A f \in Fields : row[1] # f => StagesOf(held')[f] = StagesOf(held)[f]
    BY <1>3, <1>7, StagesSet DEF RowKeys
  <2>5. \A f \in Fields : row[1] = f => StagesOf(held')[f] = r[f]
    <3>1. \A f \in Fields : row[1] = f => row[2] = r[f] /\ r[f] # Unset
      BY <2>1, <2>3 DEF Planned
    <3>2. \A f \in Fields : row[1] = f => held'[f] = row[2]
      BY <1>3, <1>7 DEF RowKeys
    <3> QED BY <3>1, <3>2, StagesSet DEF Or
  <2>6. ASSUME NEW f \in Fields
        PROVE  StagesOf(held')[f] = r[f] \/ \E n \in DOMAIN todo : n >= 2 /\ todo[n][1] = f
    <3>1. CASE row[1] = f
      BY <2>5, <3>1
    <3>2. CASE row[1] # f
      <4>1. \A n \in DOMAIN todo : todo[n][1] = f => n >= 2
        BY <2>3, <3>2
      <4>2. StagesOf(held)[f] = r[f] \/ \E n \in DOMAIN todo : n >= 1 /\ todo[n][1] = f
        BY <2>1 DEF Pending
      <4> QED BY <2>4, <3>2, <4>1, <4>2
    <3> QED BY <3>1, <3>2
  <2>7. todo[1][1] \notin Fields => Runnable(StagesOf(held'))
    <3>1. todo[1][1] \notin Fields => \A f \in Fields : StagesOf(held')[f] = StagesOf(held)[f]
      BY <2>3, <2>4
    <3>2. (\A f \in Fields : StagesOf(held')[f] = StagesOf(held)[f])
            => (Runnable(StagesOf(held')) <=> Runnable(StagesOf(held)))
      BY SameStages
    <3> QED BY <2>1, <3>1, <3>2 DEF Before
  <2>8. client'[c] = call
    BY <1>3 DEF Now, UpdateInv, UpdateShape
  <2> QED BY <1>5, <2>1, <2>6, <2>7, <2>8, WritesForget
<1> QED BY <1>3, <1>5, <1>6, <1>7, <1>8, <1>9, UpdateSteps

\* What is left of a plan is one.
LEMMA RestPlanned ==
  ASSUME NEW todo, NEW r, Planned(todo, r)
  PROVE  /\ Tail(todo) = <<>> => \A n \in DOMAIN todo : ~(n >= 2)
         /\ Tail(todo) # <<>> => Planned(Tail(todo), r)
         /\ Tail(todo) # <<>> => (Tail(todo)[1][1] \notin Fields => todo[1][1] \notin Fields)
         /\ \A n \in DOMAIN todo : n >= 2 =>
              \E m \in DOMAIN Tail(todo) : m >= 1 /\ Tail(todo)[m] = todo[n]
<1>1. PICK S : todo \in Seq(S)
  BY DEF Planned
<1>2. PICK rest : rest = Tail(todo)
  OBVIOUS
<1>3. /\ rest \in Seq(S) /\ Len(todo) \in Nat /\ Len(todo) >= 1 /\ Len(rest) = Len(todo) - 1
      /\ DOMAIN todo = 1..Len(todo) /\ DOMAIN rest = 1..(Len(todo) - 1)
      /\ \A n \in 1..(Len(todo) - 1) : rest[n] = todo[n + 1]
      /\ (rest = <<>> <=> Len(todo) = 1)
  <2>1. todo # <<>>
    BY DEF Planned
  <2>2. Len(todo) \in Nat /\ DOMAIN todo = 1..Len(todo) /\ Len(todo) >= 1
    BY <1>1, <2>1, EmptyRows
  <2>3. rest \in Seq(S) /\ Len(rest) = Len(todo) - 1
    BY <1>1, <1>2, <2>1, <2>2
  <2>4. DOMAIN rest = 1..(Len(todo) - 1)
    BY <2>3
  <2>5. \A n \in 1..(Len(todo) - 1) : rest[n] = todo[n + 1]
    BY <1>1, <1>2, <2>1, <2>2
  <2>6. rest = <<>> <=> Len(todo) = 1
    BY <2>2, <2>3, EmptyRows
  <2> QED BY <2>2, <2>3, <2>4, <2>5, <2>6
<1>4. rest = <<>> => \A n \in DOMAIN todo : ~(n >= 2)
  BY <1>3
<1>5. \A n \in DOMAIN rest : n + 1 \in DOMAIN todo /\ rest[n] = todo[n + 1] /\ n \in Nat
  BY <1>3
<1>6. \A n \in DOMAIN rest : rest[n][1] \in Fields => rest[n][2] = r[rest[n][1]]
  BY <1>5 DEF Planned
<1>7. \A m, n \in DOMAIN rest : m < n /\ rest[m][1] \in Fields => rest[n][1] \in Fields
  <2>1. \A m, n \in DOMAIN rest : m < n => m + 1 < n + 1
    BY <1>5
  <2> QED BY <1>5, <2>1 DEF Planned
<1>8. rest # <<>> => Planned(rest, r)
  BY <1>3, <1>6, <1>7 DEF Planned
<1>9. ASSUME rest # <<>>, rest[1][1] \notin Fields PROVE todo[1][1] \notin Fields
  <2>1. 1 \in DOMAIN todo /\ 2 \in DOMAIN todo /\ rest[1] = todo[2]
    BY <1>3, <1>9
  <2>2. 1 < 2
    OBVIOUS
  <2> QED BY <1>9, <2>1, <2>2 DEF Planned
<1>10. ASSUME NEW n \in DOMAIN todo, n >= 2
       PROVE  \E m \in DOMAIN rest : m >= 1 /\ rest[m] = todo[n]
  <2>1. n - 1 \in DOMAIN rest /\ n - 1 >= 1 /\ rest[n - 1] = todo[n]
    BY <1>3, <1>10
  <2> QED BY <2>1
<1> QED BY <1>2, <1>4, <1>8, <1>9, <1>10

LEMMA ForgetCopyKeeps == ASSUME UpdateInv, NEW c \in Clients, ForgetCopy(c) PROVE UpdateInv'
<1>1. PICK todo : todo = client[c].todo
  OBVIOUS
<1>2. PICK rest, call : rest = Tail(todo) /\ call = [client[c] EXCEPT !.todo = rest]
  OBVIOUS
<1>3. DOMAIN client[c] = CallFields /\ CallTrue(c, client[c])
  BY DEF UpdateInv, UpdateShape, CallTrue
<1>4. DOMAIN call = CallFields /\ call.todo = rest /\ call.req = client[c].req
  BY <1>2, <1>3, CallSet
<1>5. PICK next : next = IF rest = <<>> THEN ReadFor(call, FollowUp(call)) ELSE [call EXCEPT !.does = "write"]
  OBVIOUS
<1>6. /\ client[c].does = "forget" /\ Now(c, next) /\ held' = held
      /\ memory' = Unset /\ overlapped' = overlapped /\ unguarded' = unguarded
  BY <1>1, <1>2, <1>4, <1>5 DEF ForgetCopy, Does
<1>7. /\ DOMAIN next = CallFields
      /\ rest = <<>> => next.does = "get" /\ next.for # "check"
      /\ rest # <<>> => next.does = "write" /\ next.todo = rest
  BY <1>4, <1>5, CallSet DEF FollowUp
<1>8. c \in Updates /\ c \notin Gets
  BY <1>3, <1>6 DEF CallTrue, Clients
<1>9. CallTrue(c, next) /\ DOMAIN held' = RowKeys
      /\ (memory' # Unset => \A f \in Fields : memory'.router[f] # Unset)
  BY <1>6, <1>7, <1>8 DEF UpdateInv, UpdateShape, CallTrue
<1>10. ~overlapped' => \A u \in Updates \ {c} : ~Busy(u)
  <2>1. Busy(c)
    BY <1>6 DEF Busy, Does
  <2> QED BY <1>6, <1>8, <2>1, AloneUnderWay
<1>11. client'[c] = next
  BY <1>6 DEF Now, UpdateInv, UpdateShape
<1>12. ASSUME ~overlapped', ~unguarded'
       PROVE  WritesSet(c)' /\ (next.does \notin {"write", "forget"} => Runnable(StagesOf(held')))
  <2>1. PICK r : Planned(todo, r) /\ Pending(todo, r, 2) /\ Before(todo)
    BY <1>1, <1>6, <1>8, <1>12 DEF UpdateInv, Guarded, WritesSet, Does
  <2>2. /\ rest = <<>> => \A n \in DOMAIN todo : ~(n >= 2)
        /\ rest # <<>> => Planned(rest, r)
        /\ rest # <<>> => (rest[1][1] \notin Fields => todo[1][1] \notin Fields)
        /\ \A n \in DOMAIN todo : n >= 2 => \E m \in DOMAIN rest : m >= 1 /\ rest[m] = todo[n]
    BY <1>2, <2>1, RestPlanned
  <2>3. CASE rest = <<>>
    <3>1. \A f \in Fields : StagesOf(held)[f] = r[f]
      BY <2>1, <2>2, <2>3 DEF Pending
    <3>2. Runnable(r)
      BY <2>1 DEF Planned
    <3>3. Runnable(StagesOf(held))
      BY <3>1, <3>2, SameStages
    <3>4. WritesSet(c)'
      BY <1>7, <1>11, <2>3 DEF WritesSet, Does
    <3> QED BY <1>6, <3>3, <3>4
  <2>4. CASE rest # <<>>
    <3>1. \A f \in Fields : \/ StagesOf(held')[f] = r[f]
                            \/ \E n \in DOMAIN rest : n >= 1 /\ rest[n][1] = f
      BY <1>6, <2>1, <2>2 DEF Pending
    <3>2. rest[1][1] \notin Fields => Runnable(StagesOf(held'))
      BY <1>6, <2>1, <2>2, <2>4 DEF Before
    <3>3. WritesSet(c)'
      BY <1>7, <1>11, <2>2, <2>4, <3>1, <3>2, WritesFrom
    <3> QED BY <1>7, <2>4, <3>3
  <2> QED BY <2>3, <2>4
<1> QED BY <1>6, <1>8, <1>9, <1>10, <1>12, UpdateSteps

LEMMA LoseCallKeeps == ASSUME UpdateInv, NEW c \in Clients, LoseCall(c) PROVE UpdateInv'
<1>1. /\ Busy(c) /\ Now(c, Quiet) /\ unguarded' = (unguarded \/ WritesStages(c))
      /\ held' = held /\ memory' = memory /\ overlapped' = overlapped
  BY DEF LoseCall
<1>2. CallTrue(c, Quiet) /\ DOMAIN held' = RowKeys /\ (unguarded => unguarded')
      /\ (memory' # Unset => \A f \in Fields : memory'.router[f] # Unset)
  BY <1>1, QuietCall DEF CallTrue, UpdateInv, UpdateShape
<1>3. CASE c \in Gets
  BY <1>1, <1>2, <1>3, GetsLeave
<1>4. CASE c \in Updates
  <2>1. ~overlapped' => \A u \in Updates \ {c} : ~Busy(u)
    BY <1>1, <1>4, AloneUnderWay
  <2>2. client'[c] = Quiet
    BY <1>1 DEF Now, UpdateInv, UpdateShape
  <2>3. WritesSet(c)'
    BY <2>2, QuietCall DEF WritesSet, Does
  <2>4. ASSUME ~overlapped', ~unguarded' PROVE Runnable(StagesOf(held))
    <3>1. CASE ~Writes(c)
      BY <1>1, <1>4, <2>1, <2>4, <3>1, RunsBeforeRows
    <3>2. CASE Writes(c)
      <4>1. PICK todo : todo = client[c].todo
        OBVIOUS
      <4>2. PICK r : Planned(todo, r) /\ Before(todo)
        BY <1>1, <1>4, <2>4, <3>2, <4>1 DEF UpdateInv, Guarded, WritesSet, Writes, Does
      <4>3. PICK S : todo \in Seq(S) /\ todo # <<>>
        BY <4>2 DEF Planned
      <4>4. todo[1] = Head(todo)
        BY <4>3
      <4>5. todo[1][1] \notin Fields
        BY <1>1, <2>4, <4>1, <4>3, <4>4 DEF WritesStages
      <4> QED BY <4>2, <4>5 DEF Before
    <3> QED BY <3>1, <3>2
  <2> QED BY <1>1, <1>2, <1>4, <2>1, <2>3, <2>4, UpdateSteps
<1> QED BY <1>3, <1>4 DEF Clients
-----------------------------------------------------------------------------
LEMMA UpdateInvKept == UpdateInv /\ [UpdateNext]_updateVars => UpdateInv'
<1> SUFFICES ASSUME UpdateInv, [UpdateNext]_updateVars PROVE UpdateInv'
  OBVIOUS
<1>1. CASE UNCHANGED updateVars
  <2>1. \A todo, r, n : Pending(todo, r, n)' <=> Pending(todo, r, n)
    BY <1>1 DEF updateVars, Pending, StagesOf
  <2>2. \A todo : Before(todo)' <=> Before(todo)
    BY <1>1 DEF updateVars, Before, StagesOf
  <2>3. \A u : (Writes(u)' <=> Writes(u)) /\ (WritesSet(u)' <=> WritesSet(u)) /\ (Busy(u)' <=> Busy(u))
    BY <1>1, <2>1, <2>2 DEF updateVars, Writes, WritesSet, Does, Busy
  <2>4. Guarded => Guarded'
    BY <1>1, <2>3 DEF updateVars, Guarded, StagesOf
  <2>5. UpdateShape'
    BY <1>1 DEF updateVars, UpdateInv, UpdateShape, CallTrue, ChangesRouter, Sends
  <2> QED BY <1>1, <2>3, <2>4, <2>5 DEF updateVars, UpdateInv
<1>2. CASE UpdateNext
  <2>1. PICK c \in Clients :
          \/ BeginUpdate(c) \/ BeginGet(c) \/ WriteRow(c) \/ ForgetCopy(c)
          \/ FromMemory(c) \/ ReadTable(c) \/ ReadNextRow(c) \/ KeepRows(c)
          \/ LoseCall(c)
    BY <1>2 DEF UpdateNext
  <2> QED BY <2>1, BeginUpdateKeeps, BeginGetKeeps, WriteRowKeeps, ForgetCopyKeeps, FromMemoryKeeps,
             ReadTableKeeps, ReadNextRowKeeps, KeepRowsKeeps, LoseCallKeeps
<1> QED BY <1>1, <1>2

\* However updates of stages and moves of sliders follow on each other, the rows
\* that are left are a set the daemon can run (put_settings_handler and
\* validate_router), whatever is read and whichever call is lost meanwhile, so
\* long as no two updates overlap, none ends among its stages, and no preset is
\* made from a copy that is not the table.
THEOREM SetsStayRunnable == UpdateSpec => []StoredRunnable
<1>1. UpdateInv => StoredRunnable
  <2> SUFFICES ASSUME UpdateInv, ~overlapped, ~unguarded, \A u \in Updates : ~Busy(u)
               PROVE  Runnable(SettingsOf(held).router)
    BY DEF StoredRunnable
  <2>1. \A u \in Updates : ~Writes(u)
    BY DEF Busy, Does, Writes
  <2>2. Runnable(StagesOf(held))
    BY <2>1 DEF UpdateInv, Guarded
  <2> QED BY <2>2, StagesSet
<1> QED BY <1>1, UpdateInvInitially, UpdateInvKept, PTL DEF UpdateSpec

-----------------------------------------------------------------------------
\* The catalog of the intents (IntentCatalog).

\* No revision is ahead of the one that counts.
RevisionsBehind ==
  /\ \A r \in Readers : rpc[r] # "idle" => rrev[r] <= revision
  /\ catalog # NoCatalog => catalog.revision <= revision

\* What was read at the revision that still counts still stands.
ReadsHold ==
  \A r \in Readers : rrev[r] = revision =>
    /\ rpc[r] \in {"parts", "store"} => rrows[r] = table \/ Untouched
    /\ rpc[r] = "store" => rparts[r] = table \/ Untouched

CatalogInv == CatalogTypeOK /\ RevisionsBehind /\ ReadsHold /\ CatalogFresh

\* The parts of the intents that were read are the table when the intents are.
LEMMA PartsOfTable ==
  ASSUME table \in Editions
  PROVE  [n \in Names |-> IF table[n] = 0 THEN 0 ELSE table[n]] = table
BY DEF Editions

\* A reading that ends keeps its types and leaves the other readings alone.
LEMMA EndKeeps ==
  ASSUME CatalogTypeOK, NEW r \in Readers, EndList(r)
  PROVE  /\ rpc' \in [Readers -> {"idle", "rows", "parts", "store"}] /\ rpc'[r] = "idle"
         /\ rrev' \in [Readers -> Nat]
         /\ rrows' \in [Readers -> Editions] /\ rparts' \in [Readers -> Editions]
         /\ \A q \in Readers \ {r} : /\ rpc'[q] = rpc[q] /\ rrev'[q] = rrev[q]
                                    /\ rrows'[q] = rrows[q] /\ rparts'[q] = rparts[q]
<1>1. NoIntents \in Editions
  BY DEF NoIntents, Editions
<1> QED BY <1>1 DEF EndList, CatalogTypeOK

LEMMA CatalogInvKept == CatalogInv /\ [CatalogNext]_catalogVars => CatalogInv'
<1> SUFFICES ASSUME CatalogInv, [CatalogNext]_catalogVars PROVE CatalogInv'
  OBVIOUS
<1> USE DEF CatalogInv
<1>1. ASSUME NEW r \in Readers, BeginList(r) PROVE CatalogInv'
  <2>1. CatalogTypeOK'
    BY <1>1 DEF BeginList, CatalogTypeOK
  <2>2. UNCHANGED <<table, revision, catalog, cutOff, wpc>> /\ (Untouched' <=> Untouched)
    BY <1>1 DEF BeginList, Untouched
  <2>3. /\ rpc'[r] = "rows" /\ rrev'[r] = revision
        /\ \A q \in Readers \ {r} : rpc'[q] = rpc[q] /\ rrev'[q] = rrev[q]
        /\ UNCHANGED <<rrows, rparts>>
    BY <1>1 DEF BeginList, CatalogTypeOK
  <2>4. RevisionsBehind'
    BY <2>2, <2>3 DEF RevisionsBehind, CatalogTypeOK
  <2>5. ReadsHold'
    BY <2>2, <2>3 DEF ReadsHold
  <2> QED BY <2>1, <2>2, <2>4, <2>5 DEF CatalogFresh, Serves
<1>2. ASSUME NEW r \in Readers, LoadRows(r) PROVE CatalogInv'
  <2>1. CatalogTypeOK'
    BY <1>2 DEF LoadRows, CatalogTypeOK
  <2>2. UNCHANGED <<table, revision, catalog, cutOff, wpc, rrev, rparts>>
        /\ (Untouched' <=> Untouched)
    BY <1>2 DEF LoadRows, Untouched
  <2>3. /\ rpc[r] = "rows" /\ rpc'[r] = "parts" /\ rrows'[r] = table
        /\ \A q \in Readers \ {r} : rpc'[q] = rpc[q] /\ rrows'[q] = rrows[q]
    BY <1>2 DEF LoadRows, CatalogTypeOK
  <2>4. RevisionsBehind'
    BY <2>2, <2>3 DEF RevisionsBehind
  <2>5. ReadsHold'
    BY <2>2, <2>3 DEF ReadsHold
  <2> QED BY <2>1, <2>2, <2>4, <2>5 DEF CatalogFresh, Serves
<1>3. ASSUME NEW r \in Readers, LoadParts(r) PROVE CatalogInv'
  <2>1. CatalogTypeOK'
    BY <1>3 DEF LoadParts, CatalogTypeOK, Editions
  <2>2. UNCHANGED <<table, revision, catalog, cutOff, wpc, rrev, rrows>>
        /\ (Untouched' <=> Untouched)
    BY <1>3 DEF LoadParts, Untouched
  <2>3. /\ rpc[r] = "parts" /\ rpc'[r] = "store"
        /\ rparts'[r] = [n \in Names |-> IF rrows[r][n] = 0 THEN 0 ELSE table[n]]
        /\ \A q \in Readers \ {r} : rpc'[q] = rpc[q] /\ rparts'[q] = rparts[q]
    BY <1>3 DEF LoadParts, CatalogTypeOK
  <2>4. RevisionsBehind'
    BY <2>2, <2>3 DEF RevisionsBehind
  <2>5. rrows[r] = table => rparts'[r] = table
    BY <2>3, PartsOfTable DEF CatalogTypeOK
  <2>6. ReadsHold'
    BY <2>2, <2>3, <2>5 DEF ReadsHold
  <2> QED BY <2>1, <2>2, <2>4, <2>6 DEF CatalogFresh, Serves
<1>4. ASSUME NEW r \in Readers, StoreCatalog(r) PROVE CatalogInv'
  <2>1. /\ rpc[r] = "store"
        /\ catalog' = [revision |-> rrev[r], rows |-> rrows[r], parts |-> rparts[r]]
    BY <1>4 DEF StoreCatalog, RevisionRead
  <2>2. UNCHANGED <<table, edition, revision, cutOff, wpc, wname>>
        /\ (Untouched' <=> Untouched)
    BY <1>4 DEF StoreCatalog, Untouched
  <2>e. EndList(r)
    BY <1>4 DEF StoreCatalog
  <2>3. /\ rpc' \in [Readers -> {"idle", "rows", "parts", "store"}] /\ rpc'[r] = "idle"
        /\ rrev' \in [Readers -> Nat]
        /\ rrows' \in [Readers -> Editions] /\ rparts' \in [Readers -> Editions]
        /\ \A q \in Readers \ {r} : /\ rpc'[q] = rpc[q] /\ rrev'[q] = rrev[q]
                                   /\ rrows'[q] = rrows[q] /\ rparts'[q] = rparts[q]
    BY <2>e, EndKeeps
  <2>4. CatalogTypeOK'
    BY <2>1, <2>2, <2>3 DEF CatalogTypeOK, Catalogs
  <2>5. RevisionsBehind'
    BY <2>1, <2>2, <2>3 DEF RevisionsBehind
  <2>6. ReadsHold'
    BY <2>2, <2>3 DEF ReadsHold
  <2>7. CatalogFresh'
    BY <2>1, <2>2 DEF CatalogFresh, Serves, ReadsHold
  <2> QED BY <2>4, <2>5, <2>6, <2>7
<1>5. ASSUME NEW r \in Readers, AbandonList(r) PROVE CatalogInv'
  <2>2. UNCHANGED <<table, edition, revision, catalog, cutOff, wpc, wname>>
        /\ (Untouched' <=> Untouched)
    BY <1>5 DEF AbandonList, Untouched
  <2>e. EndList(r)
    BY <1>5 DEF AbandonList
  <2>3. /\ rpc' \in [Readers -> {"idle", "rows", "parts", "store"}] /\ rpc'[r] = "idle"
        /\ rrev' \in [Readers -> Nat]
        /\ rrows' \in [Readers -> Editions] /\ rparts' \in [Readers -> Editions]
        /\ \A q \in Readers \ {r} : /\ rpc'[q] = rpc[q] /\ rrev'[q] = rrev[q]
                                   /\ rrows'[q] = rrows[q] /\ rparts'[q] = rparts[q]
    BY <2>e, EndKeeps
  <2>1. CatalogTypeOK'
    BY <2>2, <2>3 DEF CatalogTypeOK
  <2>4. RevisionsBehind'
    BY <2>2, <2>3 DEF RevisionsBehind
  <2>5. ReadsHold'
    BY <2>2, <2>3 DEF ReadsHold
  <2> QED BY <2>1, <2>2, <2>4, <2>5 DEF CatalogFresh, Serves
<1>6. ASSUME NEW w \in Writers, Check(w) \/ Refuse(w) PROVE CatalogInv'
  <2>1. CatalogTypeOK'
    BY <1>6 DEF Check, Refuse, WGoto, CatalogTypeOK, reading
  <2>2. UNCHANGED <<table, revision, catalog, cutOff, rpc, rrev, rrows, rparts>>
    BY <1>6 DEF Check, Refuse, reading
  <2>3. wpc[w] # "touch" /\ \A v \in Writers \ {w} : wpc'[v] = wpc[v]
    BY <1>6 DEF Check, Refuse, WGoto, CatalogTypeOK
  <2>4. Untouched => Untouched'
    BY <2>2, <2>3 DEF Untouched
  <2> QED BY <2>1, <2>2, <2>4 DEF RevisionsBehind, ReadsHold, CatalogFresh, Serves
<1>7. ASSUME NEW w \in Writers, Commit(w) PROVE CatalogInv'
  <2>1. CatalogTypeOK'
    <3>1. wname[w] \in Names /\ table \in [Names -> Nat] /\ edition + 1 \in Nat
      BY DEF CatalogTypeOK, Editions
    <3>2. table' \in Editions
      BY <1>7, <3>1 DEF Commit, Editions
    <3>3. edition' \in Nat /\ wpc' = [wpc EXCEPT ![w] = "touch"]
      BY <1>7, <3>1 DEF Commit, WGoto
    <3>4. UNCHANGED <<revision, catalog, reading, wname, cutOff>>
      BY <1>7 DEF Commit
    <3> QED BY <3>2, <3>3, <3>4 DEF CatalogTypeOK, reading
  <2>2. UNCHANGED <<revision, catalog, cutOff, rpc, rrev>>
    BY <1>7 DEF Commit, reading
  <2>3. Untouched'
    BY <1>7 DEF Commit, WGoto, CatalogTypeOK, Untouched
  <2> QED BY <2>1, <2>2, <2>3 DEF RevisionsBehind, ReadsHold, CatalogFresh
<1>8. ASSUME NEW w \in Writers, Touch(w) PROVE CatalogInv'
  <2>1. CatalogTypeOK'
    BY <1>8 DEF Touch, WGoto, CatalogTypeOK, reading
  <2>2. revision' = revision + 1 /\ UNCHANGED <<catalog, rpc, rrev>>
    BY <1>8 DEF Touch, reading
  <2>3. RevisionsBehind'
    BY <2>2 DEF RevisionsBehind, CatalogTypeOK, Catalogs
  <2>4. /\ \A r \in Readers : rpc[r] # "idle" => rrev'[r] # revision'
        /\ ~Serves'
    BY <2>2 DEF RevisionsBehind, CatalogTypeOK, Catalogs, Serves
  <2>5. ReadsHold'
    BY <2>2, <2>4 DEF ReadsHold
  <2> QED BY <2>1, <2>3, <2>4, <2>5 DEF CatalogFresh
<1>9. ASSUME NEW w \in Writers, CutOff(w) PROVE CatalogInv'
  <2>1. CatalogTypeOK'
    BY <1>9 DEF CutOff, WGoto, CatalogTypeOK, reading
  <2>2. UNCHANGED <<revision, catalog, rpc, rrev>> /\ Untouched'
    BY <1>9 DEF CutOff, reading, Untouched
  <2> QED BY <2>1, <2>2 DEF RevisionsBehind, ReadsHold, CatalogFresh
<1>10. CASE UNCHANGED catalogVars
  BY <1>10 DEF catalogVars, CatalogTypeOK, RevisionsBehind, ReadsHold, CatalogFresh,
     Serves, Untouched
<1> QED BY <1>1, <1>2, <1>3, <1>4, <1>5, <1>6, <1>7, <1>8, <1>9, <1>10 DEF CatalogNext

\* The catalog that serves the turns is what the tables hold, all of one edition,
\* except between a commit and its bump of the revision (IntentService).
THEOREM CatalogIsFresh == CatalogSpec => []CatalogFresh
<1>1. CatalogInit => CatalogInv
  <2> SUFFICES ASSUME CatalogInit PROVE CatalogInv
    OBVIOUS
  <2>1. CatalogTypeOK
    BY DEF CatalogInit, CatalogTypeOK, NoIntents, Editions
  <2>2. catalog = NoCatalog /\ \A r \in Readers : rpc[r] = "idle"
    BY DEF CatalogInit
  <2> QED BY <2>1, <2>2 DEF CatalogInv, RevisionsBehind, ReadsHold, CatalogFresh, Serves
<1>2. CatalogInv => CatalogFresh
  BY DEF CatalogInv
<1> QED BY <1>1, <1>2, CatalogInvKept, PTL DEF CatalogSpec
=============================================================================
