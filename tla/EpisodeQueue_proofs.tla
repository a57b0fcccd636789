------------------------ MODULE EpisodeQueue_proofs ------------------------
(***************************************************************************)
(* The invariants of EpisodeQueue hold for every number of turns, every    *)
(* set of names and every number of failures.                              *)
(***************************************************************************)
EXTENDS EpisodeQueue, TLAPS

\* A turn that has not stored its episode has no row yet.
StoredOnce == \A e \in Episodes : turn[e] # "done" => row[e].state = "absent"

\* The worker reads an episode that no other step closes.
Reading == {"settings", "model", "apply", "finish", "off", "giveUp", "retry"}
ReadsUnread == pc \in Reading => row[cur].state = "unread"

\* A failure is on the way to the row: the model failed once more than the row
\* counts, and the worker gives up only at the last attempt.
FailureUnderWay ==
  /\ pc = "retry" =>
       row[cur].attempts + 1 < MaxAttempts /\ row[cur].attempts + 1 <= failures[cur]
  /\ pc = "giveUp" => failures[cur] >= MaxAttempts

\* What the worker is about to close without a reason was read.
ReadUnderWay == pc = "finish" => cur \in whole

\* Facts of an answer are on the way only between its first and its last one.
BegunUnderWay == begun => pc \in {"apply", "finish"}

\* An episode that is still open was sighted only by passes that failed or broke
\* off, apart from the sighting the worker is at.
Sighting(e) == begun /\ cur = e /\ cuts[e] < MaxCuts
SightingUnderWay ==
  \A e \in Episodes :
    row[e].state # "done" /\ ~Sighting(e) => taught[e] <= faults + cuts[e]

Inv ==
  /\ TypeOK /\ TriesCounted /\ ClosedMeansRead /\ SightedOnce /\ WordsOutliveTheWait
  /\ StoredOnce /\ ReadsUnread /\ FailureUnderWay /\ ReadUnderWay
  /\ BegunUnderWay /\ SightingUnderWay

-----------------------------------------------------------------------------
USE DEF MaxAttempts, Episodes, Row, outside, worker, history, Reading

\* Nothing left to write is a list of facts.
LEMMA NoFacts == <<>> \in Seq(Names)
OBVIOUS

\* A bound on what was sighted stays one when more failed or broke off.
LEMMA BoundsStay ==
  ASSUME NEW t \in Nat, NEW a \in Nat, NEW b \in Nat, NEW c \in Nat, NEW d \in Nat,
         a <= c, b <= d
  PROVE  (t <= a + b => t <= c + d) /\ (t <= 1 + a + b => t <= 1 + c + d)
OBVIOUS

\* What is sighted and about to be counted is within a bound that grew by one.
LEMMA BoundsGrow ==
  ASSUME NEW t \in Nat, NEW a \in Nat, NEW b \in Nat, NEW c \in Nat, NEW d \in Nat,
         t <= 1 + a + b, c + d >= 1 + a + b
  PROVE  t <= c + d /\ t <= 1 + c + d
OBVIOUS

\* One failure more is counted for one episode.
LEMMA OneMore ==
  ASSUME NEW S, NEW f \in [S -> Nat], NEW s \in S
  PROVE  LET g == [f EXCEPT ![s] = @ + 1] IN
         g \in [S -> Nat] /\ g[s] = f[s] + 1 /\ \A r \in S : g[r] >= f[r]
OBVIOUS

\* What was tried often enough stays so.
LEMMA StillTried ==
  ASSUME NEW a \in Nat, NEW n \in Nat, NEW m \in Nat, m >= n
  PROVE  (a <= n => a <= m) /\ (n >= MaxAttempts => m >= MaxAttempts)
OBVIOUS

\* The failure that is not the last leaves room for one more attempt.
LEMMA TriedOnceMore ==
  ASSUME NEW a \in 0..2, NEW n \in Nat, a <= n
  PROVE  /\ a + 1 >= MaxAttempts => n + 1 >= MaxAttempts
         /\ ~(a + 1 >= MaxAttempts) => a + 1 < MaxAttempts /\ a + 1 <= n + 1
OBVIOUS

\* A sighting raises a bounded count by one.
LEMMA OneSighting ==
  ASSUME NEW t \in Nat, NEW a \in Nat, NEW b \in Nat
  PROVE  t <= a + b => t + 1 <= 1 + a + b
OBVIOUS

\* A failure that is still allowed makes room for one sighting more.
LEMMA OneFault ==
  ASSUME NEW m \in Nat, NEW x \in 0..m, x < m
  PROVE  /\ x + 1 \in 0..m /\ x + 1 >= x
         /\ \A c \in Nat : c >= c /\ x + 1 + c >= 1 + x + c
OBVIOUS

\* The invariant holds before the first turn.
LEMMA Initially == Init => Inv
<1> SUFFICES ASSUME Init PROVE Inv
  OBVIOUS
<1>1. TypeOK
  <2>1. /\ enabled \in BOOLEAN /\ begun \in BOOLEAN
        /\ pc = "next" /\ cur = 0 /\ facts \in Seq(Names)
    BY NoFacts DEF Init
  <2>2. /\ turn \in [Episodes -> {"handled", "stores", "done"}] /\ row \in [Episodes -> Rows]
        /\ old \subseteq Episodes /\ name \in [Names -> {"unknown", "opened", "named", "dangling"}]
    BY DEF Init, Rows
  <2>3. /\ failures \in [Episodes -> Nat] /\ taught \in [Episodes -> Nat]
        /\ cuts \in [Episodes -> Nat] /\ whole \subseteq Episodes /\ faults \in 0..MaxFaults
    BY TurnsAssumption DEF Init
  <2> QED
    BY <2>1, <2>2, <2>3 DEF TypeOK
<1>2. TriesCounted /\ ClosedMeansRead /\ WordsOutliveTheWait /\ StoredOnce
  BY DEF Init, TriesCounted, ClosedMeansRead, WordsOutliveTheWait, StoredOnce
<1>3. ReadsUnread /\ FailureUnderWay /\ ReadUnderWay /\ BegunUnderWay
  BY DEF Init, ReadsUnread, FailureUnderWay, ReadUnderWay, BegunUnderWay
<1>4. SightedOnce /\ SightingUnderWay
  BY DEF Init, SightedOnce, SightingUnderWay
<1> QED
  BY <1>1, <1>2, <1>3, <1>4 DEF Inv

\* What the steps of the worker do to a row leaves it a row.
LEMMA RowStays ==
  ASSUME NEW q \in Rows
  PROVE  /\ [q EXCEPT !.waits = FALSE] \in Rows
         /\ \A reason \in {"none", "off", "failed"} :
              [q EXCEPT !.state = "done", !.error = reason, !.waits = FALSE] \in Rows
         /\ q.attempts + 1 < MaxAttempts =>
              [q EXCEPT !.attempts = @ + 1, !.waits = TRUE, !.error = "failed"] \in Rows
         /\ [q EXCEPT !.words = FALSE, !.error = "none"] \in Rows
<1>1. [q EXCEPT !.waits = FALSE] \in Rows
  BY DEF Rows
<1>2. ASSUME NEW reason \in {"none", "off", "failed"}
      PROVE  [q EXCEPT !.state = "done", !.error = reason, !.waits = FALSE] \in Rows
  BY DEF Rows
<1>3. ASSUME q.attempts + 1 < MaxAttempts
      PROVE  [q EXCEPT !.attempts = @ + 1, !.waits = TRUE, !.error = "failed"] \in Rows
  <2>1. q.attempts + 1 \in 0..(MaxAttempts - 1)
    BY <1>3 DEF Rows
  <2> QED
    BY <2>1 DEF Rows
<1>4. [q EXCEPT !.words = FALSE, !.error = "none"] \in Rows
  BY DEF Rows
<1> QED
  BY <1>1, <1>2, <1>3, <1>4

\* Changing one row keeps the rows well typed and leaves the others alone.
LEMMA OneRow ==
  ASSUME row \in [Episodes -> Rows], NEW e \in Episodes, NEW r \in Rows,
         row' = [row EXCEPT ![e] = r]
  PROVE  /\ row' \in [Episodes -> Rows]
         /\ row'[e] = r
         /\ \A f \in Episodes : f # e => row'[f] = row[f]
OBVIOUS

\* A step of the turns keeps the types when it keeps those of the two it changes.
LEMMA TypesStay ==
  ASSUME TypeOK, row' \in [Episodes -> Rows], turn' \in [Episodes -> {"handled", "stores", "done"}],
         UNCHANGED <<enabled, old, name, pc, cur, facts, begun, failures, taught, cuts,
                     whole, faults>>
  PROVE  TypeOK'
BY DEF TypeOK

\* A step that writes no fact and reopens no episode keeps the sightings.
LEMMA SightingsStay ==
  ASSUME taught \in [Episodes -> Nat], cuts \in [Episodes -> Nat],
         faults \in Nat, faults' \in Nat, faults' >= faults,
         SightedOnce, SightingUnderWay, taught' = taught, cuts' = cuts,
         \A f \in Episodes :
           row'[f].state # "done" /\ ~Sighting(f)' => row[f].state # "done" /\ ~Sighting(f)
  PROVE  SightedOnce' /\ SightingUnderWay'
<1>1. ASSUME NEW f \in Episodes
      PROVE  taught'[f] <= 1 + faults' + cuts'[f]
  <2>1. taught[f] \in Nat /\ cuts[f] \in Nat /\ taught[f] <= 1 + faults + cuts[f]
    BY DEF SightedOnce
  <2> QED
    BY <2>1
<1>2. ASSUME NEW f \in Episodes, row'[f].state # "done", ~Sighting(f)'
      PROVE  taught'[f] <= faults' + cuts'[f]
  <2>1. taught[f] \in Nat /\ cuts[f] \in Nat /\ taught[f] <= faults + cuts[f]
    BY <1>2 DEF SightingUnderWay
  <2> QED
    BY <2>1
<1> QED
  BY <1>1, <1>2 DEF SightedOnce, SightingUnderWay

\* The steps outside the worker keep the invariant: none of them touches the
\* episode the worker reads.
LEMMA OutsideKeeps ==
  ASSUME Inv,
         \/ \E e \in Episodes : ReadSetting(e) \/ Enqueue(e) \/ WaitOver(e) \/ GrowOld(e)
                                \/ LoseEpisode(e)
         \/ \E x \in Names : DeleteConcept(x) \/ WriteConcept(x)
         \/ Toggle
  PROVE  Inv'
<1> USE TurnsAssumption DEF Inv, TypeOK, TriesCounted, ClosedMeansRead,
        WordsOutliveTheWait, StoredOnce, ReadsUnread, FailureUnderWay, ReadUnderWay,
        SightedOnce, BegunUnderWay, Sighting, SightingUnderWay
<1>1. ASSUME NEW e \in Episodes, ReadSetting(e) PROVE Inv'
  BY <1>1 DEF ReadSetting
<1>2. ASSUME NEW e \in Episodes, Enqueue(e) PROVE Inv'
  <2> DEFINE r == Row("unread")
  <2>1. r \in Rows /\ row' = [row EXCEPT ![e] = r] /\ turn' = [turn EXCEPT ![e] = "done"]
    BY <1>2 DEF Enqueue, Rows
  <2>2. /\ r.state = "unread" /\ r.words /\ r.attempts = 0 /\ r.error = "none"
        /\ row[e].state = "absent"
    BY <1>2 DEF Enqueue
  <2> HIDE DEF r
  <2>3. /\ row' \in [Episodes -> Rows] /\ row'[e] = r
        /\ \A f \in Episodes : f # e => row'[f] = row[f]
    BY <2>1, OneRow
  <2>4. UNCHANGED <<enabled, old, name, pc, cur, facts, begun, failures, taught, cuts, whole, faults>>
    BY <1>2 DEF Enqueue
  <2>5. pc \in Reading => cur \in Episodes /\ cur # e
    BY <2>2
  <2>6. TypeOK'
    <3>1. turn' \in [Episodes -> {"handled", "stores", "done"}]
      BY <2>1
    <3> QED
      BY Zenon, <2>3, <2>4, <3>1, TypesStay
  <2>7. TriesCounted' /\ ClosedMeansRead' /\ WordsOutliveTheWait' /\ StoredOnce'
    <3>1. failures' = failures /\ whole' = whole
      BY Zenon, <2>4
    <3>2. ASSUME NEW f \in Episodes
          PROVE  /\ row'[f].attempts <= failures'[f]
                 /\ row'[f].state = "done" =>
                      row[f].state = "done" /\ row'[f] = row[f]
                 /\ row'[f].state = "unread" => row'[f].words
      <4>1. failures[f] \in Nat
        OBVIOUS
      <4>2. CASE f = e
        BY <2>2, <2>3, <3>1, <4>1, <4>2
      <4>3. CASE f # e
        <5>1. row'[f] = row[f]
          BY <2>3, <4>3
        <5> QED
          BY <3>1, <5>1
      <4> QED
        BY <4>2, <4>3
    <3>3. TriesCounted' /\ WordsOutliveTheWait' /\ ClosedMeansRead'
      BY Zenon, <3>1, <3>2
    <3>4. StoredOnce'
      BY <2>1, <2>3
    <3> QED
      BY <3>3, <3>4
  <2>8. ReadsUnread' /\ FailureUnderWay' /\ ReadUnderWay' /\ BegunUnderWay'
    BY <2>3, <2>4, <2>5
  <2>9. SightedOnce' /\ SightingUnderWay'
    BY <2>2, <2>3, <2>4
  <2> QED
    BY <2>6, <2>7, <2>8, <2>9
<1>3. ASSUME NEW e \in Episodes, WaitOver(e) PROVE Inv'
  <2> DEFINE r == [row[e] EXCEPT !.waits = FALSE]
  <2>1. r \in Rows /\ row' = [row EXCEPT ![e] = r]
    BY <1>3, RowStays DEF WaitOver
  <2>2. /\ r.state = row[e].state /\ r.words = row[e].words
        /\ r.attempts = row[e].attempts /\ r.error = row[e].error
    BY <1>3 DEF Rows
  <2> HIDE DEF r
  <2>3. /\ row' \in [Episodes -> Rows] /\ row'[e] = r
        /\ \A f \in Episodes : f # e => row'[f] = row[f]
    BY <2>1, OneRow
  <2>4. \A f \in Episodes :
          /\ row'[f].state = row[f].state /\ row'[f].words = row[f].words
          /\ row'[f].attempts = row[f].attempts /\ row'[f].error = row[f].error
    BY <2>2, <2>3
  <2>5. UNCHANGED <<enabled, turn, old, name, pc, cur, facts, begun, failures, taught, cuts, whole, faults>>
    BY <1>3 DEF WaitOver
  <2>6. TypeOK'
    BY <2>3, <2>5
  <2>7. TriesCounted' /\ ClosedMeansRead' /\ WordsOutliveTheWait' /\ StoredOnce'
    BY ZenonT(60), <2>4, <2>5
  <2>8. ReadsUnread' /\ FailureUnderWay' /\ ReadUnderWay' /\ BegunUnderWay'
    BY <2>4, <2>5
  <2>9. SightedOnce' /\ SightingUnderWay'
    BY <2>4, <2>5
  <2> QED
    BY <2>6, <2>7, <2>8, <2>9
<1>4. ASSUME NEW e \in Episodes, GrowOld(e) PROVE Inv'
  BY <1>4 DEF GrowOld
<1>5. ASSUME NEW e \in Episodes, LoseEpisode(e) PROVE Inv'
  <2>1. UNCHANGED <<enabled, row, old, name, pc, cur, facts, begun, failures, taught, cuts, whole>>
    BY <1>5 DEF LoseEpisode
  <2>2. faults' \in 0..MaxFaults /\ faults' >= faults /\ turn' = [turn EXCEPT ![e] = "done"]
    BY <1>5 DEF LoseEpisode
  <2>3. TypeOK' /\ StoredOnce'
    BY <2>1, <2>2
  <2>4. SightedOnce' /\ SightingUnderWay'
    <3>1. /\ taught \in [Episodes -> Nat] /\ cuts \in [Episodes -> Nat]
          /\ faults \in Nat /\ faults' \in Nat /\ faults' >= faults
          /\ taught' = taught /\ cuts' = cuts
      <4>1. /\ taught \in [Episodes -> Nat] /\ cuts \in [Episodes -> Nat]
            /\ taught' = taught /\ cuts' = cuts
        BY Zenon, <2>1
      <4>2. faults \in Nat /\ faults' \in Nat /\ faults' >= faults
        BY <2>2
      <4> QED
        BY <4>1, <4>2
    <3>2. SightedOnce /\ SightingUnderWay
      BY DEF Inv
    <3> QED
      BY <2>1, <3>1, <3>2, SightingsStay
  <2> QED
    BY <2>1, <2>3, <2>4
<1>6. ASSUME NEW x \in Names, DeleteConcept(x) PROVE Inv'
  BY <1>6 DEF DeleteConcept
<1>7. ASSUME NEW x \in Names, WriteConcept(x) PROVE Inv'
  BY <1>7 DEF WriteConcept
<1>8. CASE Toggle
  BY <1>8 DEF Toggle
<1> QED
  BY <1>1, <1>2, <1>3, <1>4, <1>5, <1>6, <1>7, <1>8

\* Closing the episode the worker reads keeps the invariant when a close
\* without a reason follows a read, and one for a failure the last attempt.
LEMMA DoneKeeps ==
  ASSUME Inv, NEW reason \in {"none", "off", "failed"}, pc \in Reading, Done(reason),
         pc' \in {"next", "maintain"}, cur' = 0, facts' \in Seq(Names), begun' = FALSE,
         UNCHANGED <<enabled, turn, old, name, failures, taught, cuts, whole, faults>>,
         reason = "none" => cur \in whole,
         reason = "failed" => failures[cur] >= MaxAttempts
  PROVE  Inv'
<1> USE TurnsAssumption DEF Inv, TypeOK, TriesCounted, ClosedMeansRead,
        WordsOutliveTheWait, StoredOnce, ReadsUnread, FailureUnderWay, ReadUnderWay,
        SightedOnce, BegunUnderWay, Sighting, SightingUnderWay
<1> DEFINE r == [row[cur] EXCEPT !.state = "done", !.error = reason, !.waits = FALSE]
<1>1. cur \in Episodes /\ row[cur].state = "unread"
  OBVIOUS
<1>2. r \in Rows /\ row' = [row EXCEPT ![cur] = r]
  BY <1>1, RowStays DEF Done
<1>3. /\ r.state = "done" /\ r.words = row[cur].words
      /\ r.attempts = row[cur].attempts /\ r.error = reason
  BY <1>1 DEF Rows
<1> HIDE DEF r
<1>4. /\ row' \in [Episodes -> Rows] /\ row'[cur] = r
      /\ \A f \in Episodes : f # cur => row'[f] = row[f]
  BY <1>1, <1>2, OneRow
<1>5. TypeOK'
  BY <1>4
<1>6. TriesCounted' /\ ClosedMeansRead' /\ WordsOutliveTheWait' /\ StoredOnce'
  BY ZenonT(60), <1>1, <1>3, <1>4
<1>7. ReadsUnread' /\ FailureUnderWay' /\ ReadUnderWay' /\ BegunUnderWay'
  OBVIOUS
<1>8. SightedOnce' /\ SightingUnderWay'
  BY <1>1, <1>3, <1>4
<1> QED
  BY <1>5, <1>6, <1>7, <1>8

\* Every step of the turns, the editor, the worker and of a failure keeps it.
LEMMA Inductive == Inv /\ [Next]_vars => Inv'
<1> SUFFICES ASSUME Inv, [Next]_vars PROVE Inv'
  OBVIOUS
<1>1. ASSUME \/ \E e \in Episodes : ReadSetting(e) \/ Enqueue(e) \/ WaitOver(e) \/ GrowOld(e)
                                    \/ LoseEpisode(e)
             \/ \E x \in Names : DeleteConcept(x) \/ WriteConcept(x)
             \/ Toggle
      PROVE  Inv'
  BY <1>1, OutsideKeeps
<1>2. CASE NextEpisode
  <2> USE TurnsAssumption DEF Inv, TypeOK, TriesCounted, ClosedMeansRead,
        WordsOutliveTheWait, StoredOnce, ReadsUnread, FailureUnderWay, ReadUnderWay,
        SightedOnce, BegunUnderWay, Sighting, SightingUnderWay
  <2> QED
    BY <1>2 DEF NextEpisode, Ready
<1>3. CASE ReadSettings
  <2> USE TurnsAssumption DEF Inv, TypeOK, TriesCounted, ClosedMeansRead,
        WordsOutliveTheWait, StoredOnce, ReadsUnread, FailureUnderWay, ReadUnderWay,
        SightedOnce, BegunUnderWay, Sighting, SightingUnderWay
  <2> QED
    BY <1>3 DEF ReadSettings
<1>4. CASE AskModel
  <2>0. ASSUME failures \in [Episodes -> Nat], cur \in Episodes,
               failures' = [failures EXCEPT ![cur] = @ + 1]
        PROVE  /\ failures' \in [Episodes -> Nat] /\ failures'[cur] = failures[cur] + 1
               /\ \A f \in Episodes : failures'[f] >= failures[f]
    BY <2>0, OneMore
  <2> USE TurnsAssumption DEF Inv, TypeOK, TriesCounted, ClosedMeansRead,
        WordsOutliveTheWait, StoredOnce, ReadsUnread, FailureUnderWay, ReadUnderWay,
        SightedOnce, BegunUnderWay, Sighting, SightingUnderWay
  <2>1. cur \in Episodes /\ row[cur] \in Rows /\ begun = FALSE
        /\ UNCHANGED <<enabled, turn, row, old, name, cur, begun, taught, cuts, faults>>
    BY <1>4 DEF AskModel
  <2>2. CASE /\ pc' = "apply" /\ UNCHANGED <<failures, whole>>
             /\ \E answer \in Answers \ {<<>>} : facts' = answer
    <3>1. facts' \in Seq(Names) /\ facts' # <<>>
      <4>1. PICK n \in 0..MaxFacts : facts' \in [1..n -> Names] /\ facts' # <<>>
        BY <2>2 DEF Answers
      <4> QED
        BY <4>1
    <3> QED
      BY <1>4, <2>1, <2>2, <3>1 DEF AskModel
  <2>3. CASE pc' = "finish" /\ whole' = whole \cup {cur} /\ UNCHANGED <<facts, failures>>
    BY <1>4, <2>1, <2>3 DEF AskModel
  <2>4. CASE /\ pc' = IF row[cur].attempts + 1 >= MaxAttempts THEN "giveUp" ELSE "retry"
             /\ failures' = [failures EXCEPT ![cur] = @ + 1]
             /\ UNCHANGED <<facts, whole>>
    <3>1. /\ failures' \in [Episodes -> Nat] /\ failures'[cur] = failures[cur] + 1
          /\ \A f \in Episodes : failures'[f] >= failures[f]
      BY <2>0, <2>1, <2>4
    <3>2. row[cur].attempts \in 0..2 /\ row[cur].attempts <= failures[cur]
      BY <2>1 DEF Rows
    <3>3. TypeOK'
      BY <2>1, <2>4, <3>1, <1>4 DEF AskModel
    <3>4. TriesCounted'
      <4>1. ASSUME NEW f \in Episodes
            PROVE  /\ row'[f].attempts <= failures'[f]
                   /\ row'[f].state = "done" /\ row'[f].error = "failed" =>
                        failures'[f] >= MaxAttempts
        <5>1. /\ row[f].attempts \in Nat /\ failures[f] \in Nat /\ failures'[f] \in Nat
              /\ failures'[f] >= failures[f] /\ row' = row
          BY <2>1, <3>1 DEF Rows
        <5>2. /\ row[f].attempts <= failures[f]
              /\ row[f].state = "done" /\ row[f].error = "failed" => failures[f] >= MaxAttempts
          OBVIOUS
        <5> QED
          BY <5>1, <5>2, StillTried
      <4> QED
        BY <4>1
    <3>5. ClosedMeansRead' /\ WordsOutliveTheWait' /\ StoredOnce' /\ ReadUnderWay'
      BY <2>1, <2>4
    <3>6. ReadsUnread' /\ BegunUnderWay'
      BY <2>1, <1>4 DEF AskModel
    <3>7. SightedOnce' /\ SightingUnderWay'
      BY <2>1
    <3>8. FailureUnderWay'
      <4>1. failures[cur] \in Nat /\ row' = row /\ cur' = cur
        BY <2>1
      <4>2. /\ row[cur].attempts + 1 >= MaxAttempts => failures[cur] + 1 >= MaxAttempts
            /\ ~(row[cur].attempts + 1 >= MaxAttempts) =>
                 row[cur].attempts + 1 < MaxAttempts /\ row[cur].attempts + 1 <= failures[cur] + 1
        BY <3>2, <4>1, TriedOnceMore
      <4>3. CASE row[cur].attempts + 1 >= MaxAttempts
        <5>1. pc' = "giveUp"
          BY <2>4, <4>3
        <5> QED
          BY <3>1, <4>1, <4>3, <4>2, <5>1
      <4>4. CASE ~(row[cur].attempts + 1 >= MaxAttempts)
        <5>1. pc' = "retry"
          BY <2>4, <4>4
        <5> QED
          BY <3>1, <4>1, <4>4, <4>2, <5>1
      <4> QED
        BY <4>3, <4>4
    <3> QED
      BY <3>3, <3>4, <3>5, <3>6, <3>7, <3>8
  <2> QED
    BY <1>4, <2>2, <2>3, <2>4 DEF AskModel
<1>5. CASE WriteFact
  <2>0. ASSUME taught \in [Episodes -> Nat], cur \in Episodes
        PROVE  /\ taught' \in [Episodes -> Nat]
               /\ \A f \in Episodes : f # cur => taught'[f] = taught[f]
               /\ taught'[cur] = IF ~begun /\ Counted THEN taught[cur] + 1 ELSE taught[cur]
    <3>1. CASE ~begun /\ Counted
      <4>1. taught' = [taught EXCEPT ![cur] = taught[cur] + 1]
        BY <1>5, <3>1 DEF WriteFact
      <4> QED
        BY <2>0, <3>1, <4>1
    <3>2. CASE ~(~begun /\ Counted)
      <4>1. taught' = taught
        BY <1>5, <3>2 DEF WriteFact
      <4> QED
        BY <2>0, <3>2, <4>1
    <3> QED
      BY <3>1, <3>2
  <2> USE TurnsAssumption DEF Inv, TypeOK, TriesCounted, ClosedMeansRead,
        WordsOutliveTheWait, StoredOnce, ReadsUnread, FailureUnderWay, ReadUnderWay,
        SightedOnce, BegunUnderWay, Sighting, SightingUnderWay
  <2>1. /\ UNCHANGED <<enabled, turn, row, old, cur, failures, cuts, faults>>
        /\ pc = "apply" /\ pc' \in {"apply", "finish"} /\ begun' = TRUE
        /\ cur \in Episodes /\ row[cur].state = "unread"
        /\ facts \in Seq(Names) /\ facts # <<>> /\ facts' = Tail(facts)
        /\ pc' = "apply" => facts' # <<>>
        /\ pc' = "finish" => whole' = whole \cup {cur}
        /\ whole' \in {whole, whole \cup {cur}}
    BY <1>5 DEF WriteFact
  <2>2. Subject \in Names /\ facts' \in Seq(Names)
    BY <2>1 DEF Subject
  <2>3. name' \in [Names -> {"unknown", "opened", "named", "dangling"}]
    <3>1. name' = [name EXCEPT ![Subject] = IF @ = "unknown" THEN "opened" ELSE "named"]
      BY <1>5 DEF WriteFact, Reach
    <3> QED
      BY <2>2, <3>1
  <2>4. /\ taught' \in [Episodes -> Nat]
        /\ \A f \in Episodes : f # cur => taught'[f] = taught[f]
        /\ taught'[cur] = IF ~begun /\ Counted THEN taught[cur] + 1 ELSE taught[cur]
    BY <2>0, <2>1
  <2>5. TypeOK'
    BY <2>1, <2>2, <2>3, <2>4
  <2>6. TriesCounted' /\ ClosedMeansRead' /\ WordsOutliveTheWait' /\ StoredOnce'
    BY <2>1
  <2>7. ReadsUnread' /\ FailureUnderWay' /\ ReadUnderWay' /\ BegunUnderWay'
    BY <2>1
  <2>8. ASSUME NEW f \in Episodes
        PROVE  /\ taught'[f] <= 1 + faults' + cuts'[f]
               /\ row'[f].state # "done" /\ ~Sighting(f)' => taught'[f] <= faults' + cuts'[f]
    <3>1. /\ taught[f] \in Nat /\ cuts[f] \in Nat /\ faults \in Nat
          /\ taught[f] <= 1 + faults + cuts[f]
      OBVIOUS
    <3>2. CASE f # cur
      <4>1. row[f].state # "done" => taught[f] <= faults + cuts[f]
        BY <3>2
      <4> QED
        BY <2>1, <2>4, <3>1, <3>2, <4>1
    <3>3. CASE f = cur /\ Counted
      <4>1. ~begun => taught[f] <= faults + cuts[f]
        BY <2>1, <3>3
      <4>2. Sighting(f)'
        <5>1. begun' = TRUE /\ cur' = cur /\ cuts' = cuts
          BY <2>1
        <5> QED
          BY <3>3, <5>1 DEF Counted
      <4>3. taught'[f] <= 1 + faults + cuts[f]
        <5>1. begun => taught'[f] = taught[f]
          BY <2>4, <3>3
        <5>2. ~begun => taught'[f] = taught[f] + 1
          BY <2>4, <3>3
        <5>3. CASE begun
          BY <3>1, <5>1, <5>3
        <5>4. CASE ~begun
          <6>1. taught[f] + 1 <= 1 + faults + cuts[f]
            BY <3>1, <4>1, <5>4, OneSighting
          <6> QED
            BY <5>2, <5>4, <6>1
        <5> QED
          BY <5>3, <5>4
      <4> QED
        BY <2>1, <4>2, <4>3
    <3>4. CASE f = cur /\ ~Counted
      <4>1. taught[f] <= faults + cuts[f]
        BY <2>1, <3>4 DEF Counted
      <4> QED
        BY <2>1, <2>4, <3>1, <3>4, <4>1
    <3> QED
      BY <3>2, <3>3, <3>4
  <2>9. SightedOnce' /\ SightingUnderWay'
    BY <2>8
  <2> QED
    BY <2>5, <2>6, <2>7, <2>9
<1>12. CASE MissSubject \/ Stop
  <2> USE TurnsAssumption DEF Inv, TypeOK, TriesCounted, ClosedMeansRead,
        WordsOutliveTheWait, StoredOnce, ReadsUnread, FailureUnderWay, ReadUnderWay,
        SightedOnce, BegunUnderWay, Sighting, SightingUnderWay
  <2>1. /\ UNCHANGED <<enabled, turn, row, old, failures, taught, whole>>
        /\ pc' = "next" /\ cur' = 0 /\ facts' = <<>> /\ begun' = FALSE
    BY <1>12 DEF MissSubject, Stop, Sleep
  <2>2. name' \in [Names -> {"unknown", "opened", "named", "dangling"}]
    <3>1. pc = "apply" => Subject \in Names
      BY DEF Subject
    <3>2. \/ UNCHANGED name
          \/ pc = "apply" /\ name' = [name EXCEPT ![Subject] = "dangling"]
          \/ /\ pc = "apply"
             /\ name' = [name EXCEPT ![Subject] = IF @ = "unknown" THEN "opened" ELSE "named"]
      BY <1>12 DEF MissSubject, Stop, Reach
    <3> QED
      BY <3>1, <3>2
  <2>3. /\ faults' \in 0..MaxFaults /\ faults' >= faults
        /\ cuts' \in [Episodes -> Nat]
        /\ \A f \in Episodes : cuts'[f] >= cuts[f]
        /\ \A f \in Episodes : Sighting(f) => faults' + cuts'[f] >= 1 + faults + cuts[f]
    <3>1. CASE Stop
      <4>1. faults < MaxFaults /\ faults' = faults + 1 /\ cuts' = cuts
        BY <3>1 DEF Stop
      <4>2. faults \in 0..MaxFaults /\ MaxFaults \in Nat /\ cuts \in [Episodes -> Nat]
        OBVIOUS
      <4>3. /\ faults' \in 0..MaxFaults /\ faults' >= faults
            /\ \A c \in Nat : c >= c /\ faults' + c >= 1 + faults + c
        BY <4>1, <4>2, OneFault
      <4>4. ASSUME NEW f \in Episodes
            PROVE  cuts'[f] >= cuts[f] /\ faults' + cuts'[f] >= 1 + faults + cuts[f]
        <5>1. cuts[f] \in Nat /\ cuts'[f] = cuts[f]
          BY <4>1, <4>2
        <5> QED
          BY <4>3, <5>1
      <4> QED
        BY <4>1, <4>2, <4>3, <4>4
    <3>2. CASE MissSubject /\ begun /\ Counted
      <4>1. /\ cur \in Episodes /\ cuts' = [cuts EXCEPT ![cur] = @ + 1] /\ faults' = faults
        BY <3>2 DEF MissSubject
      <4>2. \A f \in Episodes : cuts[f] \in Nat
        OBVIOUS
      <4>3. cuts'[cur] = cuts[cur] + 1 /\ \A f \in Episodes : f # cur => cuts'[f] = cuts[f]
        BY <4>1, <4>2
      <4>4. cuts' \in [Episodes -> Nat]
        BY <4>1, <4>2
      <4>5. \A f \in Episodes : Sighting(f) => f = cur
        OBVIOUS
      <4>6. faults \in Nat /\ faults' \in 0..MaxFaults
        BY <4>1
      <4>7. faults' + cuts'[cur] >= 1 + faults + cuts[cur]
        BY <4>1, <4>2, <4>3, <4>6
      <4>8. \A f \in Episodes : cuts'[f] >= cuts[f]
        BY <4>1, <4>2, <4>3
      <4> QED
        BY <4>1, <4>4, <4>5, <4>6, <4>7, <4>8
    <3>3. CASE MissSubject /\ ~(begun /\ Counted)
      BY <3>3 DEF MissSubject, Counted
    <3> QED
      BY <1>12, <3>1, <3>2, <3>3
  <2>4. TypeOK'
    BY <2>1, <2>2, <2>3, NoFacts
  <2>5. TriesCounted' /\ ClosedMeansRead' /\ WordsOutliveTheWait' /\ StoredOnce'
    BY <2>1
  <2>6. ReadsUnread' /\ FailureUnderWay' /\ ReadUnderWay' /\ BegunUnderWay'
    BY <2>1
  <2>7. ASSUME NEW f \in Episodes
        PROVE  /\ taught'[f] <= 1 + faults' + cuts'[f]
               /\ row'[f].state # "done" => taught'[f] <= faults' + cuts'[f]
    <3>1. /\ taught[f] \in Nat /\ cuts[f] \in Nat /\ cuts'[f] \in Nat
          /\ faults \in Nat /\ faults' \in Nat /\ faults' >= faults /\ cuts'[f] >= cuts[f]
          /\ taught'[f] = taught[f] /\ taught[f] <= 1 + faults + cuts[f]
      BY <2>1, <2>3
    <3>2. CASE Sighting(f)
      <4>1. faults' + cuts'[f] >= 1 + faults + cuts[f]
        BY Zenon, <2>3, <3>2
      <4>2. taught'[f] <= faults' + cuts'[f] /\ taught'[f] <= 1 + faults' + cuts'[f]
        <5>1. taught'[f] \in Nat /\ taught'[f] <= 1 + faults + cuts[f]
          BY Zenon, <3>1
        <5> QED
          BY Zenon, <3>1, <4>1, <5>1, BoundsGrow
      <4> QED
        BY Zenon, <4>2
    <3>3. CASE ~Sighting(f)
      <4>1. row'[f].state # "done" => taught[f] <= faults + cuts[f]
        BY <2>1, <3>3
      <4>2. /\ taught'[f] <= 1 + faults' + cuts'[f]
            /\ taught[f] <= faults + cuts[f] => taught'[f] <= faults' + cuts'[f]
        BY <3>1, BoundsStay
      <4> QED
        BY <4>1, <4>2
    <3> QED
      BY <3>2, <3>3
  <2>8. SightedOnce' /\ SightingUnderWay'
    BY <2>7
  <2> QED
    BY <2>4, <2>5, <2>6, <2>8
<1>6. CASE Finish
  BY <1>6, NoFacts, DoneKeeps DEF Finish, Sleep, Inv, ReadUnderWay
<1>7. CASE FinishOff
  BY <1>7, DoneKeeps DEF FinishOff, Inv, TypeOK, BegunUnderWay
<1>8. CASE GiveUp
  BY <1>8, NoFacts, DoneKeeps DEF GiveUp, Sleep, Inv, FailureUnderWay
<1>9. CASE Retry
  <2> USE TurnsAssumption DEF Inv, TypeOK, TriesCounted, ClosedMeansRead,
        WordsOutliveTheWait, StoredOnce, ReadsUnread, FailureUnderWay, ReadUnderWay,
        SightedOnce, BegunUnderWay, Sighting, SightingUnderWay
  <2> DEFINE r == [row[cur] EXCEPT !.attempts = @ + 1, !.waits = TRUE, !.error = "failed"]
  <2>1. cur \in Episodes /\ row[cur].state = "unread" /\ row[cur] \in Rows
        /\ row[cur].attempts + 1 <= failures[cur]
        /\ row[cur].attempts + 1 < MaxAttempts
    BY <1>9 DEF Retry
  <2>2. r \in Rows /\ row' = [row EXCEPT ![cur] = r]
    <3>1. r \in Rows
      BY <2>1, RowStays
    <3>2. row' = [row EXCEPT ![cur] =
            [row[cur] EXCEPT !.attempts = @ + 1, !.waits = TRUE, !.error = "failed"]]
      BY <1>9, <2>1 DEF Retry
    <3> QED
      BY <3>1, <3>2
  <2>3. /\ r.state = "unread" /\ r.words = row[cur].words
        /\ r.attempts <= failures[cur]
    BY <2>1 DEF Rows
  <2> HIDE DEF r
  <2>4. /\ row' \in [Episodes -> Rows] /\ row'[cur] = r
        /\ \A f \in Episodes : f # cur => row'[f] = row[f]
    BY <2>1, <2>2, OneRow
  <2>5. /\ UNCHANGED <<enabled, turn, old, name, failures, taught, cuts, whole, faults>>
        /\ pc' = "next" /\ cur' = 0 /\ facts' = <<>> /\ begun' = FALSE
    BY <1>9 DEF Retry, Sleep
  <2>6. TypeOK'
    BY <2>4, <2>5, NoFacts
  <2>7. TriesCounted' /\ ClosedMeansRead' /\ WordsOutliveTheWait' /\ StoredOnce'
    BY <2>1, <2>3, <2>4, <2>5
  <2>8. ReadsUnread' /\ FailureUnderWay' /\ ReadUnderWay' /\ BegunUnderWay'
    BY <2>5
  <2>9. SightedOnce' /\ SightingUnderWay'
    BY <1>9, <2>1, <2>3, <2>4, <2>5 DEF Retry
  <2> QED
    BY <2>6, <2>7, <2>8, <2>9
<1>10. CASE Prune
  <2> USE TurnsAssumption DEF Inv, TypeOK, TriesCounted, ClosedMeansRead,
        WordsOutliveTheWait, StoredOnce, ReadsUnread, FailureUnderWay, ReadUnderWay,
        SightedOnce, BegunUnderWay, Sighting, SightingUnderWay
  <2>1. /\ UNCHANGED <<enabled, turn, old, name, failures, taught, cuts, whole, faults>>
        /\ pc' = "next" /\ cur' = 0 /\ facts' = <<>> /\ begun' = FALSE
    BY <1>10 DEF Prune, Sleep
  <2>2. ASSUME NEW f \in Episodes
        PROVE  /\ row'[f] \in Rows /\ row'[f].state = row[f].state
               /\ row'[f].attempts = row[f].attempts
               /\ row'[f].words \/ row'[f].state # "done"
                    => row'[f].error = row[f].error /\ row'[f].words = row[f].words
               /\ row'[f].error \in {row[f].error, "none"}
    <3>1. row[f] \in Rows
      OBVIOUS
    <3>2. CASE f \in old /\ row[f].words /\ row[f].state = "done"
      <4>1. row'[f] = [row[f] EXCEPT !.words = FALSE, !.error = "none"]
        BY <1>10, <3>2 DEF Prune
      <4>2. row'[f] \in Rows
        <5>1. [row[f] EXCEPT !.words = FALSE, !.error = "none"] \in Rows
          BY <3>1, RowStays
        <5> QED
          BY <4>1, <5>1
      <4>3. /\ row'[f].state = row[f].state /\ row'[f].attempts = row[f].attempts
            /\ row'[f].error = "none"
        BY <3>1, <4>1 DEF Rows
      <4>4. ~row'[f].words
        <5>1. "words" \in DOMAIN row[f]
          BY <3>1 DEF Rows
        <5>2. row'[f].words = FALSE
          BY <4>1, <5>1
        <5> QED
          BY <5>2
      <4> QED
        BY <3>2, <4>2, <4>3, <4>4
    <3>3. CASE ~(f \in old /\ row[f].words /\ row[f].state = "done")
      BY <1>10, <3>1, <3>3 DEF Prune
    <3> QED
      BY <3>2, <3>3
  <2>3. row' \in [Episodes -> Rows]
    BY <1>10, <2>2 DEF Prune
  <2>4. TypeOK'
    BY <2>1, <2>3, NoFacts
  <2>5. TriesCounted' /\ ClosedMeansRead' /\ WordsOutliveTheWait' /\ StoredOnce'
    BY <2>1, <2>2
  <2>6. ReadsUnread' /\ FailureUnderWay' /\ ReadUnderWay' /\ BegunUnderWay'
    BY <2>1
  <2>7. SightedOnce' /\ SightingUnderWay'
    BY <1>10, <2>1, <2>2 DEF Prune
  <2> QED
    BY <2>4, <2>5, <2>6, <2>7
<1>11. CASE UNCHANGED vars
  BY <1>11 DEF vars, Inv, TypeOK, TriesCounted, ClosedMeansRead,
        WordsOutliveTheWait, StoredOnce, ReadsUnread, FailureUnderWay, ReadUnderWay,
        SightedOnce, BegunUnderWay, Sighting, SightingUnderWay
<1> QED
  BY <1>1, <1>2, <1>3, <1>4, <1>5, <1>6, <1>7, <1>8, <1>9, <1>10, <1>11, <1>12 DEF Next, Work

LEMMA Invariance == Spec => []Inv
BY Initially, Inductive, PTL DEF Spec

\* The queue keeps its types, and no row ever counts MAX_INGEST_ATTEMPTS
\* attempts: the last one closes it (service.rs:338-345).
THEOREM QueueTyped == Spec => []TypeOK
BY Invariance, PTL DEF Inv

\* For every number of turns and failures, an episode is left behind for a
\* failure only after the model failed on it MAX_INGEST_ATTEMPTS times.
THEOREM GivesUpAfterAllTries == Spec => []TriesCounted
BY Invariance, PTL DEF Inv

\* No interleaving of turns, edits, failures and restarts closes an episode
\* without a reason unless it was read.
THEOREM ClosesWhatItRead == Spec => []ClosedMeansRead
BY Invariance, PTL DEF Inv

\* The facts of a turn are sighted once more at most than something failed or a
\* pass broke off at a concept that was gone: retries of the model never make the
\* memory surer of what it heard once.
THEOREM SightedByFailuresOnly == Spec => []SightedOnce
BY Invariance, PTL DEF Inv

\* The retention never takes the words of a turn the worker has still to read.
THEOREM WordsStay == Spec => []WordsOutliveTheWait
BY Invariance, PTL DEF Inv
=============================================================================
