------------------------ MODULE MessageReading_proofs ------------------------
(***************************************************************************)
(* What a command runs with, where its values came from, which intent the  *)
(* router may choose and what the events of a turn tell, for any catalog,  *)
(* any list and whatever the models answer.                                *)
(***************************************************************************)
EXTENDS MessageReading, FiniteSetTheorems, TLAPS

\* A reader answers every entity, with a value or with none.
LEMMA ReadsWhole ==
  \A i, l, v :
    v \in ModelReads(i, l) \/ v \in LayaReads(i, l) \/ v = NoValues => DOMAIN v = Entities
<1> TAKE i, l, v
<1>1. CASE v \in ModelReads(i, l)
  <2>1. PICK a, m, p : v = [app |-> a, mode |-> m, place |-> p]
    BY <1>1 DEF ModelReads
  <2> QED BY <2>1 DEF Entities
<1>2. CASE v = NoValues
  BY <1>2 DEF NoValues
<1>3. CASE v \in LayaReads(i, l) /\ v # NoValues
  <2>1. PICK a, m : v = [app |-> a, mode |-> m, place |-> None]
    BY <1>3 DEF LayaReads
  <2> QED BY <2>1 DEF Entities
<1> QED BY <1>1, <1>2, <1>3

\* A proven value is laid over what was read, and no entity is lost.
LEMMA OverlayHolds ==
  ASSUME NEW v, DOMAIN v = Entities
  PROVE  /\ DOMAIN OverlayProven(v) = Entities
         /\ proven # None => OverlayProven(v)[ProvenEntity] = proven
BY DEF OverlayProven, ProvenEntity, Entities

\* The entry a list reads is one of its own, and an entry reads as itself.
LEMMA MatchInList ==
  ASSUME NEW v, NEW l
  PROVE  /\ MatchValue(v, l) \in l \cup {None}
         /\ v \in Entries /\ v \in l => MatchValue(v, l) = v
BY ReadingAssumption DEF MatchValue, BestMatch, Named

\* The values have every entity; after the match those of a list are of it.
ValuesInv ==
  /\ DOMAIN values = Entities /\ DOMAIN origin = Entities
  /\ pc \in {"resolved", "run", "running"} /\ rules /\ chosen \in ScriptEntity =>
       values["app"] \in list \cup {None}

ReadingInv == ValuesInv /\ CommandWhole /\ ProvenValueStands /\ OriginsTrue

\* What is settled has every entity, the proven value and true origins.
LEMMA Settled ==
  ASSUME NEW v, DOMAIN v = Entities, Settle(v),
         UNCHANGED <<proven, rules, chosen>>
  PROVE  /\ pc' = "match" /\ DOMAIN values' = Entities /\ DOMAIN origin' = Entities
         /\ ProvenValueStands' /\ OriginsTrue'
<1>1. /\ pc' = "match" /\ values' = OverlayProven(v)
      /\ origin' = [e \in Entities |-> OriginOf(e, OverlayProven(v))]
  BY DEF Settle, Goto
<1>2. /\ DOMAIN values' = Entities
      /\ proven # None => values'[ProvenEntity] = proven
  BY <1>1, OverlayHolds
<1>3. DOMAIN origin' = Entities
  BY <1>1
<1>4. ProvenEntity' = ProvenEntity
  BY DEF ProvenEntity
<1>5. ProvenValueStands'
  BY <1>2, <1>4 DEF ProvenValueStands
<1>6. ASSUME NEW e \in Entities, values'[e] # None
      PROVE  /\ origin'[e] # None /\ origin'[e] \notin {"list", "vectors"}
             /\ origin'[e] = "proof" => values'[e] = proven
  <2>1. origin'[e] = IF proven # None /\ e = ProvenEntity THEN "proof" ELSE "model"
    BY <1>1, <1>6 DEF OriginOf
  <2> QED BY <1>2, <2>1, ReadingAssumption
<1>7. OriginsTrue'
  BY <1>6 DEF OriginsTrue
<1> QED BY <1>1, <1>2, <1>3, <1>5, <1>7

\* The stages before the values, and after the end, hold nothing the properties
\* are about.
LEMMA Elsewhere ==
  ASSUME pc' \notin {"match", "resolved", "run", "running"},
         DOMAIN values' = Entities, DOMAIN origin' = Entities
  PROVE  ReadingInv'
BY DEF ReadingInv, ValuesInv, CommandWhole, ProvenValueStands, OriginsTrue

LEMMA MatchKeeps == ReadingInv /\ Match => ReadingInv'
<1> SUFFICES ASSUME ReadingInv, Match PROVE ReadingInv'
  OBVIOUS
<1>1. PICK useRules \in BOOLEAN, useVectors \in BOOLEAN :
        LET old == values["app"]
            new == IF chosen \in ScriptEntity /\ useRules THEN MatchValue(old, list) ELSE old
            found == IF chosen \in ScriptEntity /\ useVectors /\ new = None THEN list ELSE {}
        IN  /\ rules' = useRules
            /\ \/ /\ values' = [values EXCEPT !["app"] = new]
                  /\ origin' = [origin EXCEPT !["app"] = MatchedOrigin(old, new)]
               \/ \E entry \in found :
                    /\ values' = [values EXCEPT !["app"] = entry]
                    /\ origin' = [origin EXCEPT !["app"] = "vectors"]
  BY DEF Match
<1>2. /\ pc = "match" /\ pc' = "resolved" /\ UNCHANGED <<chosen, proven, list>>
      /\ ProvenEntity' = ProvenEntity
  BY DEF Match, Goto, routed, ProvenEntity
<1> DEFINE old == values["app"]
           new == IF chosen \in ScriptEntity /\ useRules THEN MatchValue(old, list) ELSE old
<1>3. /\ DOMAIN values = Entities /\ DOMAIN origin = Entities /\ "app" \in Entities
      /\ \A e \in Entities : values[e] # None =>
           /\ origin[e] # None
           /\ origin[e] \in {"list", "vectors"} => values[e] \in list
           /\ origin[e] = "proof" => values[e] = proven
      /\ proven # None => values[ProvenEntity] = proven
  BY <1>2 DEF ReadingInv, ValuesInv, OriginsTrue, ProvenValueStands, Entities
<1>4. new \in list \cup {None} \/ new = old
  BY MatchInList
<1>5. chosen \in ScriptEntity /\ useRules => new \in list \cup {None}
  BY MatchInList
<1>6. CASE /\ values' = [values EXCEPT !["app"] = new]
           /\ origin' = [origin EXCEPT !["app"] = MatchedOrigin(old, new)]
  <2> HIDE DEF new
  <2>1. /\ values'["app"] = new /\ origin'["app"] = MatchedOrigin(old, new)
        /\ \A e \in Entities \ {"app"} : values'[e] = values[e] /\ origin'[e] = origin[e]
        /\ DOMAIN values' = Entities /\ DOMAIN origin' = Entities
    BY <1>3, <1>6
  <2>2. ValuesInv'
    BY <1>1, <1>2, <1>5, <2>1 DEF ValuesInv
  <2>3. ProvenValueStands'
    <3>1. CASE proven # None /\ ProvenEntity = "app"
      <4>1. old = proven /\ proven \in Entries
        BY <1>3, <3>1 DEF ProvenEntity
      <4>2. proven \in list => new = proven
        BY <4>1, MatchInList DEF new
      <4>3. ~useRules => new = proven
        BY <4>1 DEF new
      <4> QED BY <1>1, <1>2, <2>1, <3>1, <4>2, <4>3 DEF ProvenValueStands
    <3>2. CASE proven # None /\ ProvenEntity # "app"
      <4>1. ProvenEntity \in Entities \ {"app"}
        BY <3>2 DEF ProvenEntity, Entities
      <4> QED BY <1>2, <1>3, <2>1, <3>2, <4>1 DEF ProvenValueStands
    <3> QED BY <1>2, <3>1, <3>2 DEF ProvenValueStands
  <2>4. OriginsTrue'
    <3>1. ASSUME new # None
          PROVE  /\ MatchedOrigin(old, new) # None
                 /\ MatchedOrigin(old, new) \in {"list", "vectors"} => new \in list
                 /\ MatchedOrigin(old, new) = "proof" => new = proven
      BY <1>3, <1>4, <3>1, ReadingAssumption DEF MatchedOrigin
    <3> QED BY <1>2, <1>3, <2>1, <3>1 DEF OriginsTrue
  <2>5. CommandWhole'
    BY <1>2 DEF CommandWhole
  <2> QED BY <2>2, <2>3, <2>4, <2>5 DEF ReadingInv
<1>7. ASSUME NEW entry \in list, new = None,
             values' = [values EXCEPT !["app"] = entry],
             origin' = [origin EXCEPT !["app"] = "vectors"]
      PROVE  ReadingInv'
  <2>1. /\ values'["app"] = entry /\ origin'["app"] = "vectors"
        /\ \A e \in Entities \ {"app"} : values'[e] = values[e] /\ origin'[e] = origin[e]
        /\ DOMAIN values' = Entities /\ DOMAIN origin' = Entities
    BY <1>3, <1>7
  <2>2. ValuesInv'
    BY <1>2, <2>1 DEF ValuesInv
  <2>3. ProvenValueStands'
    <3>1. CASE proven # None /\ ProvenEntity = "app"
      <4>1. old = proven /\ proven \in Entries
        BY <1>3, <3>1 DEF ProvenEntity
      <4>2. useRules /\ proven \notin list
        BY <1>7, <3>1, <4>1, MatchInList
      <4> QED BY <1>1, <1>2, <3>1, <4>2 DEF ProvenValueStands
    <3>2. CASE proven # None /\ ProvenEntity # "app"
      <4>1. ProvenEntity \in Entities \ {"app"}
        BY <3>2 DEF ProvenEntity, Entities
      <4> QED BY <1>2, <1>3, <2>1, <3>2, <4>1 DEF ProvenValueStands
    <3> QED BY <1>2, <3>1, <3>2 DEF ProvenValueStands
  <2>4. OriginsTrue'
    BY <1>2, <1>3, <1>7, <2>1, ReadingAssumption DEF OriginsTrue
  <2>5. CommandWhole'
    BY <1>2 DEF CommandWhole
  <2> QED BY <2>2, <2>3, <2>4, <2>5 DEF ReadingInv
<1> QED BY <1>1, <1>6, <1>7

\* A settled reading begins the match with what the properties ask for.
LEMMA SettledKeeps ==
  ASSUME NEW v, DOMAIN v = Entities, Settle(v), UNCHANGED <<proven, rules, chosen>>
  PROVE  ReadingInv'
BY Settled DEF ReadingInv, ValuesInv, CommandWhole

LEMMA ExtractKeeps == ReadingInv /\ Extract => ReadingInv'
<1> SUFFICES ASSUME ReadingInv, Extract PROVE ReadingInv'
  OBVIOUS
<1>1. UNCHANGED <<proven, rules, chosen>>
  BY DEF Extract
<1>2. PICK l :
        \/ \E v \in ModelReads(chosen, l) : Settle(v)
        \/ Settle(NoValues)
        \/ \E v \in LayaReads(chosen, l) :
             Settle(v) \/ (values' = v /\ Goto("spans") /\ UNCHANGED origin)
  BY DEF Extract
<1>3. CASE \E v \in ModelReads(chosen, l) : Settle(v)
  BY <1>1, <1>3, ReadsWhole, SettledKeeps
<1>4. CASE Settle(NoValues)
  BY <1>1, <1>4, ReadsWhole, SettledKeeps
<1>5. ASSUME NEW v \in LayaReads(chosen, l),
             Settle(v) \/ (values' = v /\ Goto("spans") /\ UNCHANGED origin)
      PROVE  ReadingInv'
  <2>1. DOMAIN v = Entities
    BY ReadsWhole
  <2>2. CASE Settle(v)
    BY <1>1, <2>1, <2>2, SettledKeeps
  <2>3. CASE values' = v /\ Goto("spans") /\ UNCHANGED origin
    <3>1. DOMAIN origin' = Entities
      BY <2>3 DEF ReadingInv, ValuesInv
    <3> QED BY <2>1, <2>3, <3>1, Elsewhere DEF Goto
  <2> QED BY <1>5, <2>2, <2>3
<1> QED BY <1>2, <1>3, <1>4, <1>5

LEMMA SpansKeeps == ReadingInv /\ Spans => ReadingInv'
<1> SUFFICES ASSUME ReadingInv, Spans PROVE ReadingInv'
  OBVIOUS
<1>1. UNCHANGED <<proven, rules, chosen>>
  BY DEF Spans, routed
<1>2. PICK s \in ModelReads(chosen, list) :
        LET merged == [e \in Entities |-> IF e \in Unread(values) THEN s[e] ELSE values[e]]
        IN  \/ \E v \in ModelReads(chosen, list) : Settle(IF v = NoValues THEN merged ELSE v)
            \/ Settle(merged)
  BY DEF Spans
<1> DEFINE merged == [e \in Entities |-> IF e \in Unread(values) THEN s[e] ELSE values[e]]
<1>3. DOMAIN merged = Entities
  OBVIOUS
<1> HIDE DEF merged
<1>4. CASE Settle(merged)
  BY <1>1, <1>3, <1>4, SettledKeeps
<1>5. ASSUME NEW v \in ModelReads(chosen, list), Settle(IF v = NoValues THEN merged ELSE v)
      PROVE  ReadingInv'
  <2>1. DOMAIN (IF v = NoValues THEN merged ELSE v) = Entities
    BY <1>3, ReadsWhole
  <2> QED BY <1>1, <1>5, <2>1, SettledKeeps
<1> QED BY <1>2, <1>4, <1>5 DEF merged

\* A command that is about to run has passed both checks of the report.
LEMMA ReportKeeps == ReadingInv /\ Report => ReadingInv'
<1> SUFFICES ASSUME ReadingInv, Report PROVE ReadingInv'
  OBVIOUS
<1>1. pc = "resolved" /\ UNCHANGED <<chosen, proven, rules, list, values, origin>>
  BY DEF Report, routed, read
<1>2. CASE pc' = "answered"
  BY <1>1, <1>2, Elsewhere DEF ReadingInv, ValuesInv
<1>3. CASE pc' = "run" /\ Missing = {} /\ Unreadable = {}
  <2>1. /\ \A e \in EntitiesOf(chosen) : values[e] = None => e \notin Required
        /\ \A e \in Entities : values[e] # Chain
    BY <1>3 DEF Missing, Unreadable
  <2>2. EntitiesOf(chosen)' = EntitiesOf(chosen) /\ ProvenEntity' = ProvenEntity
    BY <1>1 DEF EntitiesOf, ProvenEntity
  <2>3. ValuesInv'
    BY <1>1, <1>3 DEF ReadingInv, ValuesInv
  <2>4. CommandWhole'
    BY <1>1, <1>3, <2>1, <2>2 DEF ReadingInv, ValuesInv, CommandWhole
  <2>5. ProvenValueStands'
    BY <1>1, <1>3, <2>2 DEF ReadingInv, ProvenValueStands
  <2>6. OriginsTrue'
    BY <1>1, <1>3 DEF ReadingInv, OriginsTrue
  <2> QED BY <2>3, <2>4, <2>5, <2>6 DEF ReadingInv
<1> QED BY <1>2, <1>3 DEF Report, Ask, Answer, Goto

\* The start and the end of the command change no value.
LEMMA StartKeeps == ReadingInv /\ Start => ReadingInv'
<1> SUFFICES ASSUME ReadingInv, Start PROVE ReadingInv'
  OBVIOUS
<1>1. /\ pc = "run" /\ pc' \in {"running", "answered"}
      /\ UNCHANGED <<chosen, proven, rules, list, values, origin>>
  BY DEF Start, Answer, Goto, routed, read
<1>2. EntitiesOf(chosen)' = EntitiesOf(chosen) /\ ProvenEntity' = ProvenEntity
  BY <1>1 DEF EntitiesOf, ProvenEntity
<1>3. ValuesInv'
  BY <1>1 DEF ReadingInv, ValuesInv
<1>4. CommandWhole'
  BY <1>1, <1>2 DEF ReadingInv, CommandWhole
<1>5. ProvenValueStands'
  BY <1>1, <1>2 DEF ReadingInv, ProvenValueStands
<1>6. OriginsTrue'
  BY <1>1 DEF ReadingInv, OriginsTrue
<1> QED BY <1>3, <1>4, <1>5, <1>6 DEF ReadingInv

\* Every other step leaves the values alone and reaches no stage that uses them.
LEMMA OthersKeep ==
  ReadingInv /\ (Resolve \/ Prove \/ Retrieve \/ Decide \/ Finish \/ Need \/ Write
                 \/ Unmatched \/ Drop) => ReadingInv'
<1> SUFFICES ASSUME ReadingInv,
                    Resolve \/ Prove \/ Retrieve \/ Decide \/ Finish \/ Need \/ Write
                      \/ Unmatched \/ Drop
             PROVE  ReadingInv'
  OBVIOUS
<1>1. UNCHANGED <<values, origin>>
  BY DEF Resolve, Prove, Retrieve, Decide, Finish, Need, Write, Unmatched, Drop, read
<1>2. pc' \notin {"match", "resolved", "run", "running"}
  <2>1. CASE Resolve \/ Prove
    BY <2>1 DEF Resolve, Prove, Goto, Answer
  <2>2. CASE Retrieve \/ Decide
    BY <2>2 DEF Retrieve, Decide, Goto
  <2>3. CASE Finish
    BY <2>3 DEF Finish, Fail, Answer, Goto
  <2>4. CASE Need \/ Write \/ Unmatched \/ Drop
    BY <2>4 DEF Need, Write, Unmatched, Drop, Answer, Goto
  <2> QED BY <2>1, <2>2, <2>3, <2>4
<1> QED BY <1>1, <1>2, Elsewhere DEF ReadingInv, ValuesInv

LEMMA ReadingInvKept == ReadingInv /\ [Next]_vars => ReadingInv'
<1> SUFFICES ASSUME ReadingInv, [Next]_vars PROVE ReadingInv'
  OBVIOUS
<1>1. CASE Next
  BY <1>1, ExtractKeeps, SpansKeeps, MatchKeeps, ReportKeeps, StartKeeps, OthersKeep
     DEF Next, Step
<1>2. CASE UNCHANGED vars
  BY <1>2 DEF vars, ReadingInv, ValuesInv, CommandWhole, ProvenValueStands, OriginsTrue,
     EntitiesOf, ProvenEntity
<1> QED BY <1>1, <1>2

LEMMA ReadingInvInitially == Init => ReadingInv
BY DEF Init, ReadingInv, ValuesInv, CommandWhole, ProvenValueStands, OriginsTrue, NoValues

LEMMA ReadingHolds == Spec => []ReadingInv
BY ReadingInvInitially, ReadingInvKept, PTL DEF Spec

\* A command runs only whole: with every value it needs, none that can end it,
\* and the value of a script's list one of that list, whatever was read before
\* (read, resolve_intent and match_script_values).
THEOREM CommandsAreWhole == Spec => []CommandWhole
<1>1. ReadingInv => CommandWhole
  BY DEF ReadingInv
<1> QED BY <1>1, ReadingHolds, PTL

\* A value the deterministic pass proved is what the command runs with, unless
\* the list that proved it dropped it since (route_message).
THEOREM ProvenValuesStand == Spec => []ProvenValueStands
<1>1. ReadingInv => ProvenValueStands
  BY DEF ReadingInv
<1> QED BY <1>1, ReadingHolds, PTL

\* Where a turn says that a value came from is where it came from
\* (origins_with and record_origins).
THEOREM OriginsAreTrue == Spec => []OriginsTrue
<1>1. ReadingInv => OriginsTrue
  BY DEF ReadingInv
<1> QED BY <1>1, ReadingHolds, PTL

-----------------------------------------------------------------------------
\* Which intent.

Scores == [Intents -> 0..MaxScore]

LEMMA NoScoresTyped == MaxScore \in Nat /\ NoScores \in Scores
<1>1. MaxScore \in Nat
  BY ReadingAssumption
<1> QED BY <1>1 DEF NoScores, Scores

\* Of two intents with a score one is before the other, and the order is one.
LEMMA ScoresOrder ==
  ASSUME NEW s \in Scores, NEW i \in Intents, NEW j \in Intents
  PROVE  /\ i # j => Better(s, i, j) \/ Better(s, j, i)
         /\ ~Better(s, i, i)
         /\ \A k \in Intents : Better(s, i, j) /\ Better(s, j, k) => Better(s, i, k)
<1>1. \A k \in Intents : s[k] \in Nat /\ k \in Nat
  BY NoScoresTyped, RouterAssumption DEF Scores
<1> QED BY <1>1 DEF Better

\* The number of intents before one is its place: below the number of all, and
\* less than that of every intent it is before.
LEMMA PlaceOf ==
  ASSUME NEW s \in Scores, NEW i \in Scored(s)
  PROVE  /\ IsFiniteSet(Scored(s)) /\ Cardinality(Scored(s)) \in Nat
         /\ Ahead(s, i) \in 0..(Cardinality(Scored(s)) - 1)
         /\ \A j \in Scored(s) : Better(s, i, j) => Ahead(s, i) < Ahead(s, j)
<1> DEFINE Before(j) == {k \in Scored(s) : Better(s, k, j)}
<1>1. Scored(s) \subseteq Intents
  BY DEF Scored
<1>2. IsFiniteSet(Scored(s)) /\ Cardinality(Scored(s)) \in Nat
  BY <1>1, RouterAssumption, FS_Subset, FS_CardinalityType
<1>3. \A j \in Scored(s) : IsFiniteSet(Before(j)) /\ Cardinality(Before(j)) \in Nat
  BY <1>2, FS_Subset, FS_CardinalityType
<1>4. i \notin Before(i)
  BY <1>1, ScoresOrder
<1>5. Cardinality(Before(i)) < Cardinality(Scored(s))
  <2>1. Before(i) \in SUBSET Scored(s) /\ Before(i) # Scored(s)
    BY <1>4
  <2>2. /\ Cardinality(Before(i)) <= Cardinality(Scored(s))
        /\ Cardinality(Scored(s)) = Cardinality(Before(i)) => Scored(s) = Before(i)
    BY <1>2, <2>1, FS_Subset
  <2> QED BY <1>2, <1>3, <2>1, <2>2
<1>6. ASSUME NEW j \in Scored(s), Better(s, i, j)
      PROVE  Cardinality(Before(i)) < Cardinality(Before(j))
  <2>1. Before(i) \in SUBSET Before(j)
    BY <1>1, <1>6, ScoresOrder
  <2>2. Before(i) # Before(j)
    BY <1>4, <1>6
  <2>3. /\ Cardinality(Before(i)) <= Cardinality(Before(j))
        /\ Cardinality(Before(j)) = Cardinality(Before(i)) => Before(j) = Before(i)
    BY <1>3, <2>1, FS_Subset
  <2> QED BY <1>3, <2>2, <2>3
<1>7. \A j \in Scored(s) : Ahead(s, j) = Cardinality(Before(j))
  BY DEF Ahead
<1> HIDE DEF Before
<1>8. Ahead(s, i) \in 0..(Cardinality(Scored(s)) - 1)
  BY <1>2, <1>3, <1>5, <1>7
<1> QED BY <1>2, <1>6, <1>7, <1>8

\* Every place of the ranking is taken: the short list holds intents that have
\* a score, each once, the better one first.
LEMMA ShortRanks ==
  ASSUME NEW s \in Scores
  PROVE  /\ Short(s) \in Seq(Scored(s))
         /\ \A n \in DOMAIN Short(s) : Short(s)[n] \in Scored(s)
         /\ \A m, n \in DOMAIN Short(s) : m < n => Better(s, Short(s)[m], Short(s)[n])
<1> DEFINE found == Cardinality(Scored(s))
           size == IF found < TopK THEN found ELSE TopK
           place == [i \in Scored(s) |-> Ahead(s, i)]
<1>1. /\ IsFiniteSet(Scored(s)) /\ found \in Nat /\ Scored(s) \subseteq Intents
      /\ \A i \in Scored(s) : Ahead(s, i) \in 0..(found - 1)
      /\ \A i, j \in Scored(s) : Better(s, i, j) => Ahead(s, i) < Ahead(s, j)
  <2>1. Scored(s) \subseteq Intents
    BY DEF Scored
  <2>2. IsFiniteSet(Scored(s)) /\ found \in Nat
    BY <2>1, RouterAssumption, FS_Subset, FS_CardinalityType
  <2> QED BY <2>1, <2>2, PlaceOf
<1>2. place \in Injection(Scored(s), 0..(found - 1))
  <2>1. ASSUME NEW i \in Scored(s), NEW j \in Scored(s), i # j PROVE Ahead(s, i) # Ahead(s, j)
    <3>1. Better(s, i, j) \/ Better(s, j, i)
      BY <1>1, <2>1, ScoresOrder
    <3> QED BY <1>1, <3>1
  <2> QED BY <1>1, <2>1 DEF Injection, IsInjective
<1>3. IsFiniteSet(0..(found - 1)) /\ Cardinality(0..(found - 1)) = found
  BY <1>1, FS_Interval
<1>4. place \in Surjection(Scored(s), 0..(found - 1))
  BY <1>1, <1>2, <1>3, FS_Injection
<1>5. size \in Nat /\ size <= found
  BY <1>1, RouterAssumption
<1>6. Short(s) = [n \in 1..size |-> CHOOSE i \in Scored(s) : Ahead(s, i) = n - 1]
  BY DEF Short
<1> HIDE DEF size
<1>7. DOMAIN Short(s) = 1..size /\ Len(Short(s)) = size
  BY <1>5, <1>6
<1>8. ASSUME NEW n \in 1..size
      PROVE  Short(s)[n] \in Scored(s) /\ Ahead(s, Short(s)[n]) = n - 1
  <2>1. n - 1 \in 0..(found - 1)
    BY <1>1, <1>5
  <2>2. \E i \in Scored(s) : Ahead(s, i) = n - 1
    BY <1>4, <2>1 DEF Surjection
  <2> QED BY <1>6, <2>2
<1>9. ASSUME NEW m \in 1..size, NEW n \in 1..size, m < n
      PROVE  Better(s, Short(s)[m], Short(s)[n])
  <2>1. Short(s)[m] # Short(s)[n] /\ ~(Ahead(s, Short(s)[n]) < Ahead(s, Short(s)[m]))
    BY <1>5, <1>8, <1>9
  <2> QED BY <1>1, <1>8, <2>1, ScoresOrder
<1>10. Short(s) \in Seq(Scored(s))
  BY <1>5, <1>6, <1>8
<1> QED BY <1>5, <1>7, <1>8, <1>9, <1>10

\* The message is one of those that are read, and the router kept its rules.
RouteInv == TypeOK /\ msg \in Messages /\ RouteHolds

\* What the decision may come to is an intent of the short list, by a reader
\* that the scores let decide; or none, by a reader that may refuse.
LEMMA DecisionsHold ==
  ASSUME NEW s \in Scores, NEW d \in Decisions(s)
  PROVE  /\ d.chosen \in ToSet(Short(s)) \cup {None}
         /\ d.by \in {"model", "scores", "rerank", "laya"}
         /\ d.chosen # None /\ d.by # "model" => Clear(s, Short(s))
         /\ d.chosen = None /\ Clear(s, Short(s)) => d.by \in {"model", "laya"}
<1>1. ToSet(Short(s)) \subseteq Intents
  BY ShortRanks DEF ToSet, Scored
<1>2. Clear(s, Short(s)) => Short(s)[1] \in ToSet(Short(s))
  <2>1. Short(s) # <<>> => 1 \in DOMAIN Short(s)
    BY ShortRanks
  <2> QED BY <2>1 DEF Clear, ToSet
<1>3. None \notin ToSet(Short(s))
  BY <1>1, RouterAssumption
<1>4. CASE d \in Generative(s, Short(s))
  BY <1>4 DEF Generative, Choice
<1>5. CASE d \in Rerank(s, Short(s))
  BY <1>3, <1>5 DEF Rerank, Choice
<1>6. CASE d \in DecideLaya(s, Short(s))
  BY <1>6 DEF DecideLaya, Choice
<1>7. CASE d = ByScore(s, Short(s))
  BY <1>2, <1>3, <1>7 DEF ByScore, Choice
<1> QED BY <1>4, <1>5, <1>6, <1>7 DEF Decisions

\* Away from the two stages the rules of the router speak of they hold.
LEMMA NoRoute ==
  ASSUME pc \notin {"extract", "fallback"}
  PROVE  RouteHolds
BY DEF RouteHolds

LEMMA ResolveRoutes == RouteInv /\ Resolve => RouteInv'
<1> SUFFICES ASSUME RouteInv, Resolve PROVE RouteInv'
  OBVIOUS
<1>1. UNCHANGED <<msg, score, list, values, origin>>
  BY DEF Resolve, read
<1>2. /\ pc' \in {"extract", "unmatched", "prove", "answered"}
      /\ pc' = "extract" => by' = "engine"
      /\ chosen' \in Intents \cup {None}
  BY DEF Resolve, Goto, Answer, RouteInv, TypeOK
<1>3. TypeOK'
  BY <1>1, <1>2 DEF RouteInv, TypeOK, Ended
<1>4. RouteHolds'
  BY <1>2 DEF RouteHolds
<1> QED BY <1>1, <1>3, <1>4 DEF RouteInv

LEMMA ProveRoutes == RouteInv /\ Prove => RouteInv'
<1> SUFFICES ASSUME RouteInv, Prove PROVE RouteInv'
  OBVIOUS
<1>1. UNCHANGED <<msg, score, list, values, origin>>
  BY DEF Prove, read
<1>2. ASSUME NEW lists, NEW p \in Proofs(msg, lists) PROVE p.chosen \in Intents
  <2>1. msg.spells \subseteq Intents /\ msg.action \subseteq Intents
    BY ReadingAssumption DEF RouteInv
  <2> QED BY <1>2, <2>1 DEF Proofs, Naming, Plan
<1>3. /\ pc' \in {"extract", "retrieve"}
      /\ pc' = "extract" => by' = "proof"
      /\ chosen' \in Intents \cup {None}
  BY <1>2 DEF Prove, Goto, RouteInv, TypeOK
<1>4. TypeOK'
  BY <1>1, <1>3 DEF RouteInv, TypeOK
<1>5. RouteHolds'
  BY <1>3 DEF RouteHolds
<1> QED BY <1>1, <1>4, <1>5 DEF RouteInv

LEMMA RetrieveRoutes == RouteInv /\ Retrieve => RouteInv'
<1> SUFFICES ASSUME RouteInv, Retrieve PROVE RouteInv'
  OBVIOUS
<1>1. UNCHANGED <<msg, chosen, list, values, origin>>
  BY DEF Retrieve, read
<1>2. /\ score' \in Scores /\ pc' \in {"fallback", "decide"}
      /\ pc' = "fallback" => Short(score') = <<>>
  BY DEF Retrieve, Goto, Scores
<1>3. TypeOK'
  BY <1>1, <1>2 DEF RouteInv, TypeOK, Scores
<1>4. RouteHolds'
  BY <1>2 DEF RouteHolds, Clear
<1> QED BY <1>1, <1>3, <1>4 DEF RouteInv

LEMMA DecideRoutes == RouteInv /\ Decide => RouteInv'
<1> SUFFICES ASSUME RouteInv, Decide PROVE RouteInv'
  OBVIOUS
<1>1. UNCHANGED <<msg, score, list, values, origin>>
  BY DEF Decide, read
<1>2. score \in Scores
  BY DEF RouteInv, TypeOK, Scores
<1>3. PICK d \in Decisions(score) :
        /\ chosen' = d.chosen /\ by' = d.by
        /\ pc' = IF d.chosen = None THEN "fallback" ELSE "extract"
  BY DEF Decide, Goto
<1>4. /\ d.chosen \in ToSet(Short(score)) \cup {None}
      /\ d.by \in {"model", "scores", "rerank", "laya"}
      /\ d.chosen # None /\ d.by # "model" => Clear(score, Short(score))
      /\ d.chosen = None /\ Clear(score, Short(score)) => d.by \in {"model", "laya"}
  BY <1>2, DecisionsHold
<1>5. ToSet(Short(score)) \subseteq Intents
  BY <1>2, ShortRanks DEF ToSet, Scored
<1>6. TypeOK'
  BY <1>1, <1>3, <1>4, <1>5 DEF RouteInv, TypeOK
<1>7. RouteHolds'
  <2>1. Short(score') = Short(score) /\ Clear(score', Short(score')) = Clear(score, Short(score))
    BY <1>1
  <2> QED BY <1>3, <1>4, <2>1 DEF RouteHolds
<1> QED BY <1>1, <1>6, <1>7 DEF RouteInv

\* The readings keep what they read of the list and of every entity.
LEMMA ReadingRoutes == ReadingInv' /\ RouteInv /\ (Extract \/ Spans \/ Match) => RouteInv'
<1> SUFFICES ASSUME ReadingInv', RouteInv, Extract \/ Spans \/ Match PROVE RouteInv'
  OBVIOUS
<1>1. UNCHANGED <<msg, chosen>> /\ DOMAIN values' = Entities /\ DOMAIN origin' = Entities
  BY DEF Extract, Spans, Match, routed, ReadingInv, ValuesInv
<1>2. list' \subseteq Entries
  BY DEF Extract, Spans, Match, RouteInv, TypeOK
<1>3. score' \in Scores
  BY NoScoresTyped DEF Extract, Spans, Match, routed, RouteInv, TypeOK, Scores
<1>4. pc' \in {"match", "spans", "resolved"}
  BY DEF Extract, Spans, Match, Settle, Goto
<1>5. TypeOK'
  BY <1>1, <1>2, <1>3, <1>4 DEF RouteInv, TypeOK, Scores
<1>6. RouteHolds'
  BY <1>4 DEF RouteHolds
<1> QED BY <1>1, <1>5, <1>6 DEF RouteInv

LEMMA LaterRoutes ==
  RouteInv /\ (Report \/ Start \/ Finish \/ Need \/ Write \/ Unmatched \/ Drop) => RouteInv'
<1> SUFFICES ASSUME RouteInv, Report \/ Start \/ Finish \/ Need \/ Write \/ Unmatched \/ Drop
             PROVE  RouteInv'
  OBVIOUS
<1>1. UNCHANGED <<msg, chosen, list, values, origin>>
  BY DEF Report, Start, Finish, Need, Write, Unmatched, Drop, routed, read
<1>2. score' \in Scores
  BY NoScoresTyped DEF Report, Start, Finish, Need, Write, Unmatched, Drop, routed,
     RouteInv, TypeOK, Scores
<1>3. pc' \in {"run", "running", "words", "script", "triage", "unmatched"} \cup Ended
  <2>1. CASE Report \/ Start
    BY <2>1 DEF Report, Start, Answer, Goto, Ended
  <2>2. CASE Finish
    BY <2>2 DEF Finish, Fail, Answer, Goto, Ended
  <2>3. CASE Need \/ Write \/ Unmatched \/ Drop
    BY <2>3 DEF Need, Write, Unmatched, Drop, Answer, Goto, Ended
  <2> QED BY <2>1, <2>2, <2>3
<1>4. TypeOK'
  BY <1>1, <1>2, <1>3 DEF RouteInv, TypeOK, Scores
<1>5. RouteHolds'
  BY <1>3 DEF RouteHolds, Ended
<1> QED BY <1>1, <1>4, <1>5 DEF RouteInv

LEMMA RouteInvKept == ReadingInv' /\ RouteInv /\ [Next]_vars => RouteInv'
<1> SUFFICES ASSUME ReadingInv', RouteInv, [Next]_vars PROVE RouteInv'
  OBVIOUS
<1>1. CASE Next
  BY <1>1, ResolveRoutes, ProveRoutes, RetrieveRoutes, DecideRoutes, ReadingRoutes, LaterRoutes
     DEF Next, Step
<1>2. CASE UNCHANGED vars
  BY <1>2 DEF vars, RouteInv, TypeOK, RouteHolds
<1> QED BY <1>1, <1>2

LEMMA RouteInvInitially == Init => RouteInv
<1> SUFFICES ASSUME Init PROVE RouteInv
  OBVIOUS
<1>1. score \in [Intents -> 0..MaxScore]
  BY NoScoresTyped DEF Init, Scores
<1>2. TypeOK
  BY <1>1 DEF Init, TypeOK, NoValues
<1>3. RouteHolds
  BY DEF Init, RouteHolds
<1> QED BY <1>2, <1>3 DEF Init, RouteInv

\* The variables of a reading have their types, the ranking and the chosen
\* intent those of the catalog (resolve_intent and route).
THEOREM ReadingIsTyped == Spec => []TypeOK
<1>1. RouteInv => TypeOK
  BY DEF RouteInv
<1> QED BY <1>1, ReadingHolds, RouteInvInitially, RouteInvKept, PTL DEF Spec

\* No reader wins a turn an intent the scores do not carry, or costs it one they
\* do, but the language model and a model that read the list (route).
THEOREM RouteIsHeld == Spec => []RouteHolds
<1>1. RouteInv => RouteHolds
  BY DEF RouteInv
<1> QED BY <1>1, ReadingHolds, RouteInvInitially, RouteInvKept, PTL DEF Spec

-----------------------------------------------------------------------------
\* What the turn tells.

\* The stages before the intent is reported, and those before the reply.
Unreported == {"resolve", "prove", "retrieve", "decide", "extract", "spans", "match",
               "resolved", "fallback", "words", "script", "triage", "unmatched"}
Unanswered == Unreported \cup {"run", "running"}
EventNames == {"resolved", "values", "not found", "started", "completed", "failed"}

\* Nothing is published before the intent is; a command that is about to start
\* has not been told of, only its intent has, and one that runs has been told to
\* start and no more.
EventsInv ==
  /\ events \in Seq(EventNames)
  /\ pc \in Unreported => events = <<>>
  /\ pc \in Unanswered => reply \notin {"ran", "exit code"}
  /\ pc \in {"run", "running"} =>
       (run = "full" => Happened("resolved")) /\ ~Happened("not found")
  /\ pc = "run" => ~Happened("started")
  /\ pc = "running" => run = "full" /\ Happened("started")
                       /\ ~Happened("completed") /\ ~Happened("failed")
  /\ EventsTellTurn

\* An event that is new is told once, after all that were told before.
LEMMA AppendTells ==
  ASSUME events \in Seq(EventNames), NEW e \in EventNames, events' = Append(events, e)
  PROVE  /\ events' \in Seq(EventNames)
         /\ \A x : Happened(x)' <=> Happened(x) \/ x = e
         /\ ~Happened(e) /\ (\A m, n \in DOMAIN events : events[m] = events[n] => m = n) =>
              \A m, n \in DOMAIN events' : events'[m] = events'[n] => m = n
<1>1. /\ events' \in Seq(EventNames) /\ Len(events) \in Nat
      /\ DOMAIN events = 1..Len(events) /\ DOMAIN events' = 1..(Len(events) + 1)
      /\ events'[Len(events) + 1] = e
      /\ \A n \in 1..Len(events) : events'[n] = events[n]
  OBVIOUS
<1>2. ASSUME NEW x PROVE Happened(x)' <=> Happened(x) \/ x = e
  BY <1>1 DEF Happened
<1>3. ASSUME ~Happened(e), \A m, n \in DOMAIN events : events[m] = events[n] => m = n,
             NEW m \in DOMAIN events', NEW n \in DOMAIN events', events'[m] = events'[n]
      PROVE  m = n
  <2>1. \A k \in 1..Len(events) : events[k] # e
    BY <1>1, <1>3 DEF Happened
  <2>2. CASE m = Len(events) + 1 \/ n = Len(events) + 1
    BY <1>1, <1>3, <2>1, <2>2
  <2>3. CASE m \in 1..Len(events) /\ n \in 1..Len(events)
    BY <1>1, <1>3, <2>3
  <2> QED BY <1>1, <2>2, <2>3
<1> QED BY <1>1, <1>2, <1>3

\* Nothing was told when no event is there.
LEMMA NoEvents ==
  <<>> \in Seq(EventNames) /\ DOMAIN <<>> = {}
OBVIOUS

\* Nothing told and no command quoted is the truth of an unreported turn.
LEMMA Silent ==
  ASSUME events' = <<>>, reply' \notin {"ran", "exit code"},
         pc' # "running", pc' = "run" => run' = "preview"
  PROVE  EventsInv'
<1>1. /\ \A x : ~Happened(x)'
      /\ \A m, n \in DOMAIN events' : events'[m] = events'[n] => m = n
  BY NoEvents DEF Happened
<1>2. EventsTellTurn'
  BY <1>1 DEF EventsTellTurn
<1> QED BY <1>1, <1>2, NoEvents DEF EventsInv

LEMMA EarlyTells ==
  EventsInv /\ (Prove \/ Retrieve \/ Decide \/ Extract \/ Spans \/ Match \/ Need \/ Write)
    => EventsInv'
<1> SUFFICES ASSUME EventsInv,
                    Prove \/ Retrieve \/ Decide \/ Extract \/ Spans \/ Match \/ Need \/ Write
             PROVE  EventsInv'
  OBVIOUS
<1>1. pc \in Unreported
  BY DEF Prove, Retrieve, Decide, Extract, Spans, Match, Need, Write, Unreported
<1>2. pc' \in Unreported
  <2>1. CASE Prove \/ Retrieve \/ Decide
    BY <2>1 DEF Prove, Retrieve, Decide, Goto, Unreported
  <2>2. CASE Extract \/ Spans \/ Match
    BY <2>2 DEF Extract, Spans, Match, Settle, Goto, Unreported
  <2>3. CASE Need \/ Write
    BY <2>3 DEF Need, Write, Goto, Unreported
  <2> QED BY <2>1, <2>2, <2>3
<1>3. events' = events
  BY DEF Prove, Retrieve, Decide, Extract, Spans, Match, Need, Write, said
<1>4. reply' \notin {"ran", "exit code"}
  <2>1. CASE Write
    BY <2>1, <1>1, ReadingAssumption DEF Write, EventsInv, Unanswered
  <2>2. CASE reply' = reply
    BY <2>2, <1>1 DEF EventsInv, Unanswered
  <2> QED BY <2>1, <2>2 DEF Prove, Retrieve, Decide, Extract, Spans, Match, Need, said
<1>5. events' = <<>> /\ pc' \notin {"run", "running"}
  BY <1>1, <1>2, <1>3 DEF EventsInv, Unreported
<1> QED BY <1>4, <1>5, Silent

\* The one event of a turn that found no intent.
LEMMA RefusalTells ==
  ASSUME events = <<>>, events' = events \/ Publish("not found"), UNCHANGED run,
         pc' = "answered", reply' \notin {"ran", "exit code"}
  PROVE  EventsInv'
<1>1. CASE events' = events
  BY <1>1, Silent
<1>2. CASE events' = Append(events, "not found") /\ run = "full"
  <2>1. /\ events \in Seq(EventNames) /\ "not found" \in EventNames
        /\ \A x : ~Happened(x) /\ DOMAIN events = {}
    BY NoEvents DEF EventNames, Happened
  <2>2. /\ events' \in Seq(EventNames)
        /\ \A x : Happened(x)' <=> x = "not found"
        /\ \A m, n \in DOMAIN events' : events'[m] = events'[n] => m = n
    BY <1>2, <2>1, AppendTells
  <2>3. /\ ~Happened("resolved")' /\ ~Happened("values")' /\ ~Happened("started")'
        /\ ~Happened("completed")' /\ ~Happened("failed")' /\ run' = "full"
    <3>1. \A n \in DOMAIN events' : events'[n] = "not found"
      BY <2>2 DEF Happened
    <3> QED BY <1>2, <3>1 DEF Happened
  <2>4. EventsTellTurn'
    BY <2>2, <2>3 DEF EventsTellTurn
  <2> QED BY <2>2, <2>4 DEF EventsInv, Unreported, Unanswered
<1> QED BY <1>1, <1>2 DEF Publish

LEMMA ResolveTells == EventsInv /\ Resolve => EventsInv'
<1> SUFFICES ASSUME EventsInv, Resolve PROVE EventsInv'
  OBVIOUS
<1>1. events = <<>> /\ reply \notin {"ran", "exit code"} /\ UNCHANGED run
  BY DEF EventsInv, Resolve, Unreported, Unanswered
<1>2. CASE UNCHANGED said /\ pc' \in {"extract", "unmatched", "prove"}
  BY <1>1, <1>2, Silent DEF said
<1>3. CASE Answer("not read") /\ (events' = events \/ Publish("not found"))
  BY <1>1, <1>3, RefusalTells DEF Answer, Goto
<1> QED BY <1>2, <1>3 DEF Resolve, Goto

LEMMA UnmatchedTells == EventsInv /\ Unmatched => EventsInv'
<1> SUFFICES ASSUME EventsInv, Unmatched PROVE EventsInv'
  OBVIOUS
<1>1. events = <<>> /\ reply \notin {"ran", "exit code"}
  BY DEF EventsInv, Unmatched, Unreported, Unanswered
<1> QED BY <1>1, RefusalTells DEF Unmatched, Answer, Goto

LEMMA OneAndOne ==
  ASSUME NEW a, NEW b
  PROVE  <<a>> \o <<b>> = <<a, b>>
<1>1. <<a>> \o <<b>> = Append(<<a>>, b)
  OBVIOUS
<1>2. <<a, b>> = Append(<<a>>, b)
  OBVIOUS
<1> QED BY <1>1, <1>2

LEMMA ReportedEvents ==
  /\ \A e \in {<<"resolved">>, <<"resolved", "values">>} :
       /\ e \in Seq(EventNames)
       /\ \A n \in DOMAIN e : e[n] \in {"resolved", "values"}
       /\ \A m, n \in DOMAIN e : e[m] = e[n] => m = n
  /\ <<>> \o <<"resolved">> \o <<>> = <<"resolved">>
  /\ <<>> \o <<"resolved">> \o <<"values">> = <<"resolved", "values">>
<1>1. ASSUME NEW e, e = <<"resolved">>
      PROVE  /\ e \in Seq(EventNames)
             /\ \A n \in DOMAIN e : e[n] \in {"resolved", "values"}
             /\ \A m, n \in DOMAIN e : e[m] = e[n] => m = n
  BY <1>1 DEF EventNames
<1>2. ASSUME NEW e, e = <<"resolved", "values">>
      PROVE  /\ e \in Seq(EventNames)
             /\ \A n \in DOMAIN e : e[n] \in {"resolved", "values"}
             /\ \A m, n \in DOMAIN e : e[m] = e[n] => m = n
  BY <1>2 DEF EventNames
<1>3. <<>> \o <<"resolved">> \o <<>> = <<"resolved">>
  OBVIOUS
<1>4. <<>> \o <<"resolved">> \o <<"values">> = <<"resolved", "values">>
  <2>1. <<>> \o <<"resolved">> = <<"resolved">>
    OBVIOUS
  <2> QED BY <2>1, OneAndOne
<1> QED BY <1>1, <1>2, <1>3, <1>4

\* The intent is told, and then its values, if there are any.
LEMMA ReportTells == EventsInv /\ run \in {"full", "preview"} /\ Report => EventsInv'
<1> SUFFICES ASSUME EventsInv, run \in {"full", "preview"}, Report PROVE EventsInv'
  OBVIOUS
<1>1. /\ events = <<>> /\ reply \notin {"ran", "exit code"} /\ UNCHANGED run
      /\ reply' \notin {"ran", "exit code"} /\ pc' \in {"run", "answered"}
      /\ UNCHANGED chosen
  BY DEF EventsInv, Report, Answer, Goto, Unreported, Unanswered, routed
<1>2. CASE run = "preview" /\ events' = <<>>
  BY <1>1, <1>2, Silent
<1>3. CASE run = "full" /\ events' = IF EntitiesOf(chosen) = {} THEN <<"resolved">>
                                     ELSE <<"resolved", "values">>
  <2>1. /\ events' \in Seq(EventNames)
        /\ \A n \in DOMAIN events' : events'[n] \in {"resolved", "values"}
        /\ \A m, n \in DOMAIN events' : events'[m] = events'[n] => m = n
    BY <1>3, ReportedEvents
  <2>2. /\ ~Happened("not found")' /\ ~Happened("started")' /\ ~Happened("completed")'
        /\ ~Happened("failed")' /\ run' = "full"
    BY <1>1, <1>3, <2>1 DEF Happened
  <2>3. Happened("resolved")' /\ (Happened("values")' <=> EntitiesOf(chosen) # {})
    <3>1. CASE EntitiesOf(chosen) = {}
      <4>1. events' = <<"resolved">>
        BY <1>3, <3>1
      <4>2. DOMAIN events' = {1} /\ events'[1] = "resolved"
        BY <4>1
      <4> QED BY <3>1, <4>2 DEF Happened
    <3>2. CASE EntitiesOf(chosen) # {}
      <4>1. events' = <<"resolved", "values">>
        BY <1>3, <3>2
      <4>2. DOMAIN events' = {1, 2} /\ events'[1] = "resolved" /\ events'[2] = "values"
        BY <4>1
      <4> QED BY <3>2, <4>2 DEF Happened
    <3> QED BY <3>1, <3>2
  <2>4. EventsTellTurn'
    BY <1>1, <2>1, <2>2, <2>3 DEF EventsTellTurn, EntitiesOf
  <2> QED BY <1>1, <2>1, <2>2, <2>3, <2>4 DEF EventsInv, Unreported, Unanswered
<1>4. run = "full" => events' = IF EntitiesOf(chosen) = {} THEN <<"resolved">>
                                ELSE <<"resolved", "values">>
  BY <1>1, ReportedEvents DEF Report
<1>5. run = "preview" => events' = <<>>
  BY <1>1 DEF Report
<1> QED BY <1>2, <1>3, <1>4, <1>5

LEMMA StartTells == EventsInv /\ Start => EventsInv'
<1> SUFFICES ASSUME EventsInv, Start PROVE EventsInv'
  OBVIOUS
<1>1. /\ events \in Seq(EventNames) /\ EventsTellTurn /\ ~Happened("not found")
      /\ (run = "full" => Happened("resolved")) /\ ~Happened("started")
      /\ reply \notin {"ran", "exit code"}
      /\ UNCHANGED <<run, chosen>>
  BY DEF EventsInv, Start, Unanswered, routed
<1>2. CASE (Answer("execution is off") \/ Answer("preview")) /\ UNCHANGED events
  <2>1. /\ pc' = "answered" /\ reply' \notin {"ran", "exit code"} /\ UNCHANGED events
        /\ \A x : Happened(x)' <=> Happened(x)
    BY <1>2 DEF Answer, Goto, Happened
  <2>2. EventsTellTurn'
    BY <1>1, <2>1 DEF EventsTellTurn, EntitiesOf
  <2> QED BY <1>1, <2>1, <2>2 DEF EventsInv, Unreported, Unanswered
<1>3. CASE Starts /\ pc' = "running" /\ events' = Append(events, "started") /\ UNCHANGED reply
  <2>1. /\ events' \in Seq(EventNames)
        /\ \A x : Happened(x)' <=> Happened(x) \/ x = "started"
        /\ \A m, n \in DOMAIN events' : events'[m] = events'[n] => m = n
    BY <1>1, <1>3, AppendTells DEF EventsTellTurn, EventNames
  <2>2. EventsTellTurn' /\ run = "full" /\ ~Happened("completed") /\ ~Happened("failed")
    BY <1>1, <1>3, <2>1 DEF EventsTellTurn, Starts, EntitiesOf
  <2> QED BY <1>1, <1>3, <2>1, <2>2 DEF EventsInv, Unreported, Unanswered
<1> QED BY <1>2, <1>3 DEF Start, Goto

\* The end of a command is told once, and quoted only when it completed.
LEMMA FinishTells == EventsInv /\ Finish => EventsInv'
<1> SUFFICES ASSUME EventsInv, Finish PROVE EventsInv'
  OBVIOUS
<1>1. /\ events \in Seq(EventNames) /\ EventsTellTurn /\ ~Happened("not found")
      /\ Happened("started") /\ ~Happened("completed") /\ ~Happened("failed")
      /\ Happened("resolved") /\ run = "full" /\ UNCHANGED <<run, chosen>>
      /\ pc' = "answered"
  BY DEF EventsInv, Finish, Fail, Answer, Goto, routed
<1>2. PICK e \in {"completed", "failed"} :
        /\ events' = Append(events, e)
        /\ reply' \in {"ran", "exit code"} <=> e = "completed"
  BY DEF Finish, Fail, Answer
<1>3. /\ events' \in Seq(EventNames)
      /\ \A x : Happened(x)' <=> Happened(x) \/ x = e
      /\ \A m, n \in DOMAIN events' : events'[m] = events'[n] => m = n
  BY <1>1, <1>2, AppendTells DEF EventsTellTurn, EventNames
<1>4. EventsTellTurn'
  BY <1>1, <1>2, <1>3 DEF EventsTellTurn, EntitiesOf
<1> QED BY <1>1, <1>3, <1>4 DEF EventsInv, Unreported, Unanswered

LEMMA DropTells == EventsInv /\ Drop => EventsInv'
<1> SUFFICES ASSUME EventsInv, Drop PROVE EventsInv'
  OBVIOUS
<1>1. UNCHANGED <<events, reply, run, chosen>> /\ pc' = "dropped"
  BY DEF Drop, said, Goto, routed
<1>2. \A x : Happened(x)' <=> Happened(x)
  BY <1>1 DEF Happened
<1>3. EventsTellTurn'
  BY <1>1, <1>2 DEF EventsInv, EventsTellTurn, EntitiesOf
<1> QED BY <1>1, <1>3 DEF EventsInv, Unreported, Unanswered

TellingInv == run \in {"full", "preview"} /\ EventsInv

LEMMA TellingInvKept == TellingInv /\ [Next]_vars => TellingInv'
<1> SUFFICES ASSUME TellingInv, [Next]_vars PROVE TellingInv'
  OBVIOUS
<1>1. CASE Next
  <2>1. UNCHANGED run
    BY <1>1 DEF Next, Step, Drop, Resolve, Prove, Retrieve, Decide, Extract, Spans, Match,
       Report, Start, Finish, Need, Write, Unmatched
  <2>2. EventsInv'
    BY <1>1, EarlyTells, ResolveTells, UnmatchedTells, ReportTells, StartTells, FinishTells,
       DropTells DEF Next, Step, TellingInv
  <2> QED BY <2>1, <2>2 DEF TellingInv
<1>2. CASE UNCHANGED vars
  BY <1>2 DEF vars, TellingInv, EventsInv, EventsTellTurn, Happened, EntitiesOf
<1> QED BY <1>1, <1>2

LEMMA TellingInvInitially == Init => TellingInv
<1> SUFFICES ASSUME Init PROVE TellingInv
  OBVIOUS
<1>1. events = <<>> /\ reply \notin {"ran", "exit code"} /\ pc = "resolve"
  BY ReadingAssumption DEF Init
<1>2. /\ \A x : ~Happened(x)
      /\ \A m, n \in DOMAIN events : events[m] = events[n] => m = n
  BY <1>1, NoEvents DEF Happened
<1>3. EventsTellTurn
  BY <1>1, <1>2 DEF EventsTellTurn
<1>4. EventsInv
  BY <1>1, <1>2, <1>3, NoEvents DEF EventsInv
<1> QED BY <1>4 DEF Init, TellingInv

\* The events of a turn tell what it did: the values of every intent with entities
\* are reported, a command that started ends, and the reply quotes a command only
\* if it completed (handle_message and its callers).
THEOREM EventsAreTold == Spec => []EventsTellTurn
<1>1. TellingInv => EventsTellTurn
  BY DEF TellingInv, EventsInv
<1> QED BY <1>1, TellingInvInitially, TellingInvKept, PTL DEF Spec
=============================================================================
