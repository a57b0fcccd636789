---------------------------- MODULE IntentRouter ----------------------------
(***************************************************************************)
(* The layered router (resolver/router/mod.rs and fastpath.rs): which      *)
(* intent of the catalog it may choose for a message, and by which reader. *)
(*                                                                         *)
(* A message is a record: the intents one of whose phrases it repeats, the *)
(* intents whose action it holds, and the value its other words spell.  A  *)
(* score is a small number; the words and the vectors that make it up are  *)
(* left out, so a ranking is any function from intents to scores.          *)
(***************************************************************************)
EXTENDS Naturals, Sequences, FiniteSets, SequencesExt, TLC

CONSTANTS
  Intents,        \* positions in the catalog
  ScriptEntity,   \* the intents with an entity whose list a script prints
  ClosedValues,   \* the values each intent lists for its closed entity
  TopK,           \* how many of the ranking reach the decision
  Floor,          \* the least score of a match
  Margin,         \* how clear of the second the best match has to be
  None            \* no intent, no value, no reply

ASSUME RouterAssumption ==
  /\ Intents \subseteq Nat /\ IsFiniteSet(Intents)
  /\ ScriptEntity \subseteq Intents /\ None \notin Intents
  /\ TopK \in Nat \ {0} /\ Floor \in Nat \ {0} /\ Margin \in Nat

-----------------------------------------------------------------------------
\* The deterministic pass.

\* The intents whose lists the pass reads: those with a list entity whose
\* action the message holds.
Plan(msg) ==
  {i \in msg.action : i \in ScriptEntity \/ ClosedValues[i] # {}}

\* The values of the planned intent, by entity.  The configured values of the
\* closed entity are inserted first and the lists of the scripts after them;
\* the closed entity is asked for a list too, has no script, and its failed
\* list of no values takes the place of the configured one.
PlannedLists(i, lists) ==
  [app |-> IF i \in ScriptEntity THEN lists ELSE {}, mode |-> {}]

\* An intent is proven by a phrase no other intent has, or else by the value
\* of the one intent whose lists hold it.
Spelled(msg) == Cardinality(msg.spells) = 1
Naming(msg, lists) ==
  {i \in Plan(msg) :
     msg.names \in PlannedLists(i, lists).app \cup PlannedLists(i, lists).mode}

Proofs(msg, lists) ==
  IF Spelled(msg)
  THEN {[chosen |-> i, value |-> None] : i \in msg.spells}
  ELSE {[chosen |-> i, value |-> msg.names] :
          i \in {j \in Naming(msg, lists) : Naming(msg, lists) = {j}}}

-----------------------------------------------------------------------------
\* The ranking and the decision.

Better(score, i, j) == score[i] > score[j] \/ (score[i] = score[j] /\ i < j)

Scored(score) == {i \in Intents : score[i] > 0}

\* How many of the ranking are before an intent.
Ahead(score, i) == Cardinality({j \in Scored(score) : Better(score, j, i)})

\* The short list: the best of the ranking, the best first.
Short(score) ==
  LET found == Cardinality(Scored(score))
  IN  [n \in 1..(IF found < TopK THEN found ELSE TopK) |->
         CHOOSE i \in Scored(score) : Ahead(score, i) = n - 1]

\* The best match answers the message, and no other one does nearly as well.
Clear(score, short) ==
  /\ short # <<>>
  /\ score[short[1]] >= Floor
  /\ Len(short) > 1 => score[short[1]] >= score[short[2]] + Margin

Choice(by, i) == [by |-> by, chosen |-> i]

ByScore(score, short) ==
  Choice("scores", IF Clear(score, short) THEN short[1] ELSE None)

\* The language model reads the whole short list, and may choose none of it.
Generative(score, short) ==
  {Choice("model", i) : i \in ToSet(short) \cup {None}}

\* The reranker reads the short list of a message the scores do not refuse,
\* and always puts one of it first.
Rerank(score, short) ==
  IF Clear(score, short) THEN {Choice("rerank", i) : i \in ToSet(short)}
  ELSE {Choice("rerank", None)}

\* The built in decision model reads the part of it at the floor, and may
\* choose none.
DecideLaya(score, short) ==
  IF Clear(score, short)
  THEN {Choice("laya", i) : i \in {j \in ToSet(short) : score[j] >= Floor} \cup {None}}
  ELSE {Choice("laya", None)}

\* Seeded fault: a reader that does not answer costs the turn its intent.
DecisionsNoFallback(score) ==
  LET short == Short(score)
  IN  Generative(score, short) \cup Rerank(score, short) \cup DecideLaya(score, short)
        \cup {ByScore(score, short), Choice("scores", None)}

\* What the decision may come to, whichever reader the settings name: the
\* scores decide when they are the reader and when the reader does not answer.
Decisions(score) ==
  LET short == Short(score)
  IN  Generative(score, short) \cup Rerank(score, short) \cup DecideLaya(score, short)
        \cup {ByScore(score, short)}
=============================================================================
