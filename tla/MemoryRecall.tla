---------------------------- MODULE MemoryRecall ----------------------------
(***************************************************************************)
(* What the memory tells: the seed of a turn, a search, one concept and    *)
(* the report of the linter (librarian/store.rs, librarian/service.rs and  *)
(* server/librarian.rs).                                                   *)
(*                                                                         *)
(* A reading is several database calls in no transaction, and a call that  *)
(* writes runs beside it, so the rows change between two reads of one      *)
(* reading.  One call writes at a time here: calls that overlap are the    *)
(* subject of MemoryStore.  The facts are those of one relation, its name  *)
(* works as the word of a value does, the words that name a concept stay,  *)
(* and a line of a seed has room for the facts of its concept.             *)
(***************************************************************************)
EXTENDS Integers, Sequences, FiniteSets, SequencesExt

CONSTANTS
  Concepts,
  WordsOf,      \* the words of the key, the title and the body of a concept
  Twins,        \* the pairs of concepts that share a name
  Sayings,      \* the values of a fact, each one word
  Filler,       \* a word of a text that names nothing
  Questions,    \* the texts a reading is for, each a sequence of words
  FirstFacts,   \* what the facts may say when the reading begins
  MaxFacts,     \* bound on the facts
  MaxWrites,    \* bound on the calls that write
  SeedLimit,    \* context_nodes
  FoundLimit,   \* MAX_QUERY_LIMIT: the most concepts of a search or a report
  MaxTerms,     \* MAX_SEARCH_TERMS: the most words of a text that are looked for
  SearchCandidates  \* SEARCH_CANDIDATES: how many named concepts are read at least

ASSUME RecallAssumption ==
  /\ MaxFacts \in Nat /\ MaxWrites \in Nat /\ SeedLimit \in Nat /\ FoundLimit \in Nat
  /\ MaxTerms \in Nat /\ SearchCandidates \in Nat
  /\ "none" \notin Concepts /\ Concepts \cap 1..MaxFacts = {}
  /\ \A c \in Concepts : IsFiniteSet(WordsOf[c])

VARIABLES
  there,     \* memory_node: the concepts that have a row
  gone,      \* the concepts that had one
  changed,   \* updated_at of each concept
  said,      \* memory_edge
  pending,   \* the statements the writing call has left
  wrote,     \* how many calls wrote
  recall,    \* the reading
  steady     \* the concepts and facts no statement changed since it began

recallVars == <<there, gone, changed, said, pending, wrote, recall, steady>>

FactIds == 1..MaxFacts
NoFact == [of |-> "none", says |-> "none", open |-> FALSE, sure |-> FALSE]
GoneFact == [NoFact EXCEPT !.says = "gone"]
Rows == [of : Concepts \cup {"none"}, says : Sayings \cup {"none", "gone"},
         open : BOOLEAN, sure : BOOLEAN]
IsRow(f) == said[f].of \in Concepts
OwnFacts(c) == {f \in FactIds : said[f].of = c}
OpenFacts(c) == {f \in OwnFacts(c) : said[f].open}

\* No relation of a concept has two values when a reading begins.
ASSUME FirstFactsAssumption ==
  \A facts \in FirstFacts :
    /\ facts \in [FactIds -> Rows]
    /\ \A f, g \in FactIds :
         facts[f].open /\ facts[g].open /\ facts[f].of = facts[g].of => f = g

\* The field missed is a ghost: what the words name and the search did not read.
NoReading == [step |-> "idle", what |-> "none", limit |-> 0, terms |-> {}, found |-> {},
              missed |-> {}, left |-> {}, shut |-> {}, bare |-> {}, lines |-> {}, told |-> {}]

\* Long ago is time 0; the concepts of the first memory changed then or lately.
MemoryInit ==
  /\ said \in FirstFacts
  /\ there \in {S \in SUBSET Concepts : \A c \in Concepts \ S : OwnFacts(c) = {}}
  /\ gone = {} /\ changed \in [Concepts -> {0, 1}]
  /\ pending = <<>> /\ wrote = 0
  /\ recall = NoReading /\ steady = {}

-----------------------------------------------------------------------------
\* The calls that write, each a list of statements.  No other call writes, so
\* what a call reads on its way is what it finds when it begins.

TouchConcept(c) == [do |-> "touch", at |-> c]
CloseFact(f) == [do |-> "close", at |-> f]
MoveFact(f, c) == [do |-> "move", at |-> f, into |-> c]
ClosingAll(S) == [n \in 1..Cardinality(S) |-> CloseFact(SetToSeq(S)[n])]
MovingAll(S, c) == [n \in 1..Cardinality(S) |-> MoveFact(SetToSeq(S)[n], c)]

CloseThenInsert(c, f, v, sure) ==
  ClosingAll(OpenFacts(c))
    \o <<[do |-> "insert", at |-> f, row |-> [of |-> c, says |-> v, open |-> TRUE, sure |-> sure]]>>

\* A turn or an editor teaches one fact; one the concept holds is confirmed.
LearnFact ==
  \E c \in Concepts \ gone, v \in Sayings, sure \in BOOLEAN :
    LET same == {f \in OpenFacts(c) : said[f].says = v} IN
    \/ \E f \in same : pending' = <<TouchConcept(c), [do |-> "confirm", at |-> f]>>
    \/ /\ same = {}
       /\ \E f \in FactIds :
            /\ said[f] = NoFact /\ \A g \in 1..(f - 1) : said[g] # NoFact
            /\ pending' = <<TouchConcept(c)>> \o CloseThenInsert(c, f, v, sure)

\* The value that was valid later wins, and the target when they say the same.
MergeConcepts ==
  \E c \in there : \E d \in there \ {c} :
    \E lost \in {{}} \cup {{f} : f \in OpenFacts(c) \cup OpenFacts(d)} :
      /\ (lost = {}) = (OpenFacts(c) = {} \/ OpenFacts(d) = {})
      /\ (\E e \in OpenFacts(c), f \in OpenFacts(d) : said[e].says = said[f].says)
           => lost = OpenFacts(c)
      /\ pending' = ClosingAll(lost) \o MovingAll(OwnFacts(c), d) \o <<[do |-> "drop", at |-> c]>>

DeleteConcept ==
  \E c \in there : pending' = <<[do |-> "drop", at |-> c], [do |-> "forget", at |-> c]>>

RetireOne == \E f \in FactIds : said[f].open /\ pending' = <<CloseFact(f)>>

BeginWrite ==
  /\ pending = <<>> /\ wrote < MaxWrites /\ wrote' = wrote + 1
  /\ LearnFact \/ MergeConcepts \/ DeleteConcept \/ RetireOne
  /\ UNCHANGED <<there, gone, changed, said, recall, steady>>

\* The next statement of the call.
Statement ==
  /\ pending # <<>>
  /\ LET s == Head(pending) IN
     /\ there' = CASE s.do = "touch" -> there \cup {s.at}
                   [] s.do = "drop" -> there \ {s.at}
                   [] OTHER -> there
     /\ gone' = IF s.do = "drop" THEN gone \cup {s.at} ELSE gone
     /\ changed' = IF s.do = "touch" THEN [changed EXCEPT ![s.at] = 1 + wrote] ELSE changed
     /\ said' = CASE s.do = "close" -> [said EXCEPT ![s.at].open = FALSE]
                  [] s.do = "confirm" -> [said EXCEPT ![s.at].sure = TRUE]
                  [] s.do = "move" -> [said EXCEPT ![s.at].of = s.into]
                  [] s.do = "insert" -> [said EXCEPT ![s.at] = s.row]
                  [] s.do = "forget" ->
                       [f \in FactIds |-> IF said[f].of = s.at THEN GoneFact ELSE said[f]]
                  [] OTHER -> said
  /\ pending' = Tail(pending)
  /\ steady' = steady \ ({f \in FactIds : said'[f] # said[f]}
                           \cup {c \in Concepts : (c \in there) # (c \in there')})
  /\ UNCHANGED <<wrote, recall>>

\* A call that fails leaves what it has written.
StopWriting ==
  /\ pending # <<>> /\ pending' = <<>>
  /\ UNCHANGED <<there, gone, changed, said, wrote, recall, steady>>

-----------------------------------------------------------------------------
\* Reading.

Recalling(step) == recall.step = step
Writes == <<there, gone, changed, said, pending, wrote, steady>>
Candidate(c, named) == [concept |-> c, named |-> named, changed |-> changed[c]]

\* The first words of a text that are not filler, each once.
SearchTerms(text) ==
  {text[n] : n \in {k \in DOMAIN text :
     text[k] # Filler /\ Cardinality({text[j] : j \in 1..k} \ {Filler}) <= MaxTerms}}
Seen == {x.concept : x \in recall.found}

\* The n best of S: who is left out is not better than who is in.
TopOf(S, n, better) ==
  {T \in SUBSET S : /\ Cardinality(T) = (IF Cardinality(S) < n THEN Cardinality(S) ELSE n)
                    /\ \A x \in S \ T, y \in T : <<x, y>> \notin better}

Later == {p \in Concepts \X Concepts : changed[p[1]] > changed[p[2]]}

\* How many concepts a reading may ask for: a client chooses for a query.
LimitsOf(what) ==
  CASE what = "seed" -> {SeedLimit}
    [] what = "query" -> 1..FoundLimit
    [] OTHER -> {FoundLimit}

\* An empty text reads the concepts changed last; a text of filler finds none.
\* A memory that is off seeds nothing.
AskMemory ==
  /\ Recalling("idle")
  /\ \E what \in {"seed", "query", "lint"}, text \in Questions, on \in BOOLEAN :
     \E limit \in LimitsOf(what) :
       LET terms == SearchTerms(text)
           first == CASE what = "seed" /\ (~on \/ SeedLimit = 0) -> "told"
                      [] what # "lint" /\ terms # {} -> "nodes"
                      [] what = "query" /\ text # <<>> -> "told"
                      [] OTHER -> "recent"
       IN  /\ what = "lint" => text = <<>>
           /\ what # "seed" => on
           /\ recall' = [NoReading EXCEPT !.step = first, !.what = what, !.limit = limit,
                                           !.terms = terms]
  /\ steady' = there \cup {f \in FactIds : IsRow(f)}
  /\ UNCHANGED <<there, gone, changed, said, pending, wrote>>

\* named_nodes: the concepts whose own words the text names, the latest of them
\* where they are many, then those of the facts it names, whose rows are read one
\* by one.
CandidateLimit ==
  LET limit == IF recall.what = "seed" THEN 2 * recall.limit ELSE recall.limit IN
  IF limit < SearchCandidates THEN SearchCandidates ELSE limit

ReadNodes ==
  /\ Recalling("nodes")
  /\ LET named == {c \in there : WordsOf[c] \cap recall.terms # {}} IN
     \E T \in TopOf(named, CandidateLimit, Later) :
       recall' = [recall EXCEPT !.step = "edges", !.missed = named \ T,
         !.found = {Candidate(c, Cardinality(WordsOf[c] \cap recall.terms)) : c \in T}]
  /\ UNCHANGED Writes

ReadEdges ==
  /\ Recalling("edges")
  /\ recall' = [recall EXCEPT !.step = "named",
       !.left = {said[f].of : f \in {g \in FactIds : IsRow(g) /\ said[g].says \in recall.terms}}
                  \ Seen]
  /\ UNCHANGED Writes

ReadNamed ==
  /\ Recalling("named")
  /\ \E c \in recall.left :
       recall' = [recall EXCEPT !.left = @ \ {c},
                    !.found = @ \cup (IF c \in there THEN {Candidate(c, 1)} ELSE {})]
  /\ UNCHANGED Writes

\* A search keeps the best named; a seed goes on to the concepts changed last.
BetterNamed ==
  {p \in recall.found \X recall.found :
     p[1].named > p[2].named \/ (p[1].named = p[2].named /\ p[1].changed > p[2].changed)}
EndNamed ==
  /\ Recalling("named") /\ recall.left = {}
  /\ \/ /\ recall.what = "seed" /\ recall' = [recall EXCEPT !.step = "recent"]
     \/ /\ recall.what = "query"
        /\ \E T \in TopOf(recall.found, recall.limit, BetterNamed) :
             recall' = [recall EXCEPT !.step = "facts", !.found = T]
  /\ UNCHANGED Writes

\* list_nodes, for a seed, a search for nothing, or the linter.
ReadRecent ==
  /\ Recalling("recent")
  /\ \E T \in TopOf(there, recall.limit, Later) :
       recall' = [recall EXCEPT
         !.found = @ \cup {Candidate(c, 0) : c \in T \ Seen},
         !.step = IF recall.what = "lint" THEN "count" ELSE "facts",
         !.left = IF recall.what = "lint" THEN T ELSE {}]
  /\ UNCHANGED Writes

-----------------------------------------------------------------------------
\* Facts, and what is told of them.

\* seed_score, in thirtieths: the words that name the concept, how lately it
\* changed, and its surest fact.
FullyNamed == 3
SeedScore(x) ==
  10 * (IF x.named < FullyNamed THEN x.named ELSE FullyNamed)
    + (IF x.changed > 0 THEN 9 ELSE 0)
    + (IF \E f \in OpenFacts(x.concept) : said[f].sure THEN 15 ELSE 0)

Told(concepts) ==
  {[concept |-> said[f].of, fact |-> f, current |-> said[f].open] :
     f \in {g \in FactIds : said[g].of \in concepts}}
Concise(told) == IF recall.what = "seed" THEN {t \in told : t.current} ELSE told

\* Seeded fault: a read per concept.
ReadFactsApart ==
  /\ Recalling("facts")
  /\ IF recall.found = {}
     THEN recall' = [recall EXCEPT !.step = "told"]
     ELSE \E x \in recall.found :
            recall' = [recall EXCEPT !.found = @ \ {x}, !.lines = @ \cup {x.concept},
                                     !.told = @ \cup Concise(Told({x.concept}))]
  /\ UNCHANGED Writes

\* facts_of_many: one read for all of them.  A seed then keeps the best ranked.
ReadFacts ==
  /\ Recalling("facts")
  /\ LET ranked == {p \in recall.found \X recall.found : SeedScore(p[1]) > SeedScore(p[2])} IN
     \E T \in (IF recall.what = "seed" THEN TopOf(recall.found, recall.limit, ranked)
               ELSE {recall.found}) :
       LET lines == {x.concept : x \in T} IN
       recall' = [recall EXCEPT !.step = "told", !.lines = lines,
                                !.told = Concise(Told(lines))]
  /\ UNCHANGED Writes

\* The linter counts the facts of each concept,
CountFacts ==
  /\ Recalling("count")
  /\ \E c \in recall.left :
       recall' = [recall EXCEPT !.left = @ \ {c},
                    !.bare = IF OwnFacts(c) = {} THEN @ \cup {c} ELSE @]
  /\ UNCHANGED Writes

\* reads the facts that were closed,
ReadClosed ==
  /\ Recalling("count") /\ recall.left = {}
  /\ recall' = [recall EXCEPT !.step = "twins",
       !.shut = {f \in FactIds : IsRow(f) /\ ~said[f].open}]
  /\ UNCHANGED Writes

\* and tells the concepts that share a name, and then those without a fact, each
\* with the facts it has by then.
ReadTwins ==
  /\ Recalling("twins")
  /\ LET twins == {c \in Seen : \E d \in Seen : {c, d} \in Twins} IN
     recall' = [recall EXCEPT !.step = "orphans", !.told = Told(twins)]
  /\ UNCHANGED Writes

ReadOrphans ==
  /\ Recalling("orphans")
  /\ recall' = [recall EXCEPT !.step = "told", !.told = @ \cup Told(recall.bare)]
  /\ UNCHANGED Writes

RecallNext ==
  \/ BeginWrite \/ Statement \/ StopWriting
  \/ AskMemory \/ ReadNodes \/ ReadEdges \/ ReadNamed \/ EndNamed \/ ReadRecent
  \/ ReadFacts \/ CountFacts \/ ReadClosed \/ ReadTwins \/ ReadOrphans
RecallSpec == MemoryInit /\ [][RecallNext]_recallVars
-----------------------------------------------------------------------------
\* Properties.

ToldTrue == {t \in recall.told : t.current}
WordsNamed(c) == Cardinality(WordsOf[c] \cap recall.terms)

\* No fact is told of two concepts and no two values of a relation of one.
NothingTwice ==
  /\ \A t, u \in recall.told : t.fact = u.fact => t = u
  /\ \A t, u \in ToldTrue : t.concept = u.concept => t = u

\* A fact nobody touched while the memory was read is told as it stands.
StillFactsTold ==
  \A f \in steady \cap FactIds : said[f].of \in recall.lines =>
    (said[f].open <=> \E t \in ToldTrue : t.fact = f /\ t.concept = said[f].of)

\* A concept the text names in full gives way only to concepts it names, unless
\* so many that it names changed after it that the search did not read it.
FullyNamedFirst ==
  \A c \in steady \cap Concepts : WordsNamed(c) >= FullyNamed =>
    \/ c \in recall.lines \/ c \in recall.missed
    \/ \A x \in recall.found : x.concept \in recall.lines => x.named > 0

\* Whatever is learned, retired, merged or deleted while the memory is read, one
\* reading agrees with itself and with all that stood still (facts_of_many,
\* seed_score), and a report of the linter never lists a fact as closed and tells
\* it as true (lint).
RecallAgrees ==
  Recalling("told") =>
    IF recall.what = "lint"
    THEN {t.fact : t \in ToldTrue} \cap recall.shut = {}
    ELSE NothingTwice /\ StillFactsTold /\ FullyNamedFirst
=============================================================================
