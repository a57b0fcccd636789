----------------------------- MODULE ModelBatch -----------------------------
(***************************************************************************)
(* One pass of a built in model over many rows at once: the questions of   *)
(* the decision model (resolver/local/laya.rs), one per entity of an       *)
(* intent that offers a list, and the texts of the encoder and the         *)
(* reranker (resolver/local/encoder.rs).  The rows are padded to one       *)
(* length, laid out in one flat array, and read back by their place.       *)
(*                                                                         *)
(* A token is its row, what it is and which one; a text counts by its      *)
(* number of tokens.  What the model computes is outside: a token that may *)
(* attend to exactly its own row reads its true score, another reads       *)
(* noise.                                                                  *)
(***************************************************************************)
EXTENDS Naturals, Sequences, FiniteSets, SequencesExt, Picks

CONSTANTS
  OptionTokens, HeadMin, HeadKeep, OptionFloor,   \* of the sequence builder
  MaxLen, HeadMax,                                \* of the model
  Pad,
  MaxScore,      \* the scores are 0..MaxScore, and MaxScore + 1 is noise
  Offers,        \* the lists an entity may offer, each option by its length
  Instructions,  \* how long an instruction may be
  MessageLen,    \* how long the message is
  TextLens,      \* how long a text of the encoder may be
  MaxBatch       \* bound on the entities of an intent, and on the texts

ASSUME BatchAssumption ==
  /\ OptionTokens \in Nat /\ OptionFloor \in Nat \ {0}
  /\ HeadKeep \in Nat /\ HeadMin \in Nat /\ HeadKeep <= HeadMin
  /\ HeadMax \in Nat /\ HeadMin <= HeadMax
  /\ MaxLen \in Nat /\ HeadMax + 3 <= MaxLen
  /\ MaxScore \in Nat /\ MaxBatch \in Nat
  /\ \A list \in Offers : list \in Seq(Nat)
  /\ Instructions \subseteq Nat /\ MessageLen \in Nat /\ TextLens \subseteq Nat

VARIABLES
  pass,     \* what the pass does: "idle", "asked", "choices", "texts", "ran choices",
            \* "ran texts", "answered" or "failed"
  offers,   \* the list each entity of the intent offers
  batch,    \* the rows of the pass, each with the places of its markers
  score,    \* the true score of each option of each row
  out,      \* what the model wrote
  answer    \* the answer for each entity, or the vector of each text

batchVars == <<pass, offers, batch, score, out, answer>>

Least(a, b) == IF a <= b THEN a ELSE b
Most(a, b) == IF a <= b THEN b ELSE a
\* The sums of the first ones.
Sums(lens) == LET sum[k \in 0..Len(lens)] == IF k = 0 THEN 0 ELSE sum[k - 1] + lens[k] IN sum
Total(lens) == Sums(lens)[Len(lens)]
Prefix(s, n) == SubSeq(s, 1, Least(n, Len(s)))

-----------------------------------------------------------------------------
\* The sequence of one question.

Row(ids, markers) == [ids |-> ids, markers |-> markers]

\* A marker and the words of the option, cut evenly when all options together
\* leave too little of the head for the instruction.
OptionLens(q) ==
  LET whole == [k \in DOMAIN q.options |-> 1 + Least(q.options[k], OptionTokens)]
      per == Most(OptionFloor, (HeadMax - HeadMin) \div Len(q.options))
  IN  IF HeadMax < Total(whole) + HeadMin
      THEN [k \in DOMAIN whole |-> Least(whole[k], per)] ELSE whole

HeadLen(q) ==
  LET used == Total(OptionLens(q))
      left == IF used < HeadMax THEN HeadMax - used ELSE 0
  IN  Least(q.instruction, Most(HeadKeep, left))

\* Places are counted from zero.
MarkerAt(q, k) == 1 + HeadLen(q) + 1 + Sums(OptionLens(q))[k - 1]

Tokens(r, kind, n) == [p \in 1..n |-> <<r, kind, p>>]
OptionSeq(r, lens) ==
  FlattenSeq([k \in DOMAIN lens |-> <<<<r, "marker", k>>>> \o Tokens(r, "word", lens[k] - 1)])

BuildSequence(r, q) ==
  LET front == Tokens(r, "cls", 1) \o Tokens(r, "head", HeadLen(q)) \o Tokens(r, "sep", 1)
                 \o OptionSeq(r, OptionLens(q)) \o Tokens(r, "sep", 1)
      room == IF Len(front) + 1 < MaxLen THEN MaxLen - (Len(front) + 1) ELSE 0
      whole == front \o Tokens(r, "state", Least(MessageLen, room)) \o Tokens(r, "sep", 1)
      places == [k \in DOMAIN q.options |-> MarkerAt(q, k)]
  IN  Row(Prefix(whole, MaxLen), Picked(places, {k \in DOMAIN places : places[k] < MaxLen}))

-----------------------------------------------------------------------------
\* The batch: rows of one length, and as many slots for markers in each.

Longest(lens) ==
  LET all == {lens[r] : r \in DOMAIN lens} \cup {1}
  IN  CHOOSE n \in all : \A m \in all : m <= n
Length == Longest([r \in DOMAIN batch |-> Len(batch[r].ids)])
Width == Longest([r \in DOMAIN batch |-> Len(batch[r].markers)])

\* The row and the column of a place of a flat array of rows of n columns: they
\* are counted from zero there.
RowAt(place, n) == (place \div n) + 1
ColumnAt(place, n) == (place % n) + 1

Attention ==
  {p \in 0..(Len(batch) * Length - 1) : ColumnAt(p, Length) <= Len(batch[RowAt(p, Length)].ids)}
Ids == [p \in 0..(Len(batch) * Length - 1) |->
          IF p \in Attention THEN batch[RowAt(p, Length)].ids[ColumnAt(p, Length)] ELSE Pad]
Mask ==
  {p \in 0..(Len(batch) * Width - 1) : ColumnAt(p, Width) <= Len(batch[RowAt(p, Width)].markers)}
Positions == [p \in 0..(Len(batch) * Width - 1) |->
                IF p \in Mask THEN batch[RowAt(p, Width)].markers[ColumnAt(p, Width)] ELSE 0]

-----------------------------------------------------------------------------
\* The model.

Noise == MaxScore + 1

\* What the token at a place may attend to: the real tokens of its own row.
Attends(place) == {Ids[p] : p \in {x \in Attention : RowAt(x, Length) = RowAt(place, Length)}}

ScoreAt(slot, true) ==
  LET place == (RowAt(slot, Width) - 1) * Length + Positions[slot]
      token == Ids[place]
      r == RowAt(slot, Width)
  IN  IF slot \in Mask /\ token[1] = r /\ token[2] = "marker" /\ Attends(place) = ToSet(batch[r].ids)
      THEN true[r][token[3]] ELSE Noise

-----------------------------------------------------------------------------
\* The choices: one question for each entity that offers a list.

BatchInit ==
  /\ pass = "idle" /\ offers = <<>> /\ batch = <<>> /\ score = <<>> /\ out = <<>> /\ answer = <<>>

Asked == Picked([e \in DOMAIN offers |-> e], {e \in DOMAIN offers : offers[e] # <<>>})

AskChoices ==
  /\ pass = "idle"
  /\ \E n \in 1..MaxBatch : offers' \in [1..n -> Offers]
  /\ pass' = "asked"
  /\ UNCHANGED <<batch, score, out, answer>>

\* Nothing is asked of the model when no entity offers a list.
BuildChoices ==
  /\ pass = "asked"
  /\ \E len \in Instructions :
       batch' = [r \in DOMAIN Asked |->
                  BuildSequence(r, [instruction |-> len, options |-> offers[Asked[r]]])]
  /\ IF Asked = <<>> THEN pass' = "answered"
     ELSE IF \E r \in DOMAIN batch' : batch'[r].markers = <<>> THEN pass' = "failed"
     ELSE pass' = "choices"
  /\ UNCHANGED <<offers, score, out, answer>>

RunChoices ==
  /\ pass = "choices" /\ pass' = "ran choices"
  /\ score' \in [DOMAIN batch -> [1..Width -> 0..MaxScore]]
  /\ out' = [slot \in DOMAIN Positions |-> ScoreAt(slot, score')]
  /\ UNCHANGED <<offers, batch, answer>>

\* Seeded fault: the scores of a row begin after the options of those before.
PackedStart(r) == Total([x \in 1..(r - 1) |-> Len(batch[x].markers)])

RowStart(r) == (r - 1) * Width

\* The largest of the row's own scores, the first when two are equal.  The
\* temperature and the softmax keep the order of the scores.
Best(scores) ==
  CHOOSE n \in DOMAIN scores : \A m \in DOMAIN scores :
    scores[m] < scores[n] \/ (scores[m] = scores[n] /\ n <= m)

ChosenOption(r) == Best([k \in DOMAIN batch[r].markers |-> out[RowStart(r) + k - 1]])

\* The outcomes are read back to the entities in the order they were asked.
ReadChoices ==
  /\ pass = "ran choices" /\ pass' = "answered"
  /\ answer' = [e \in DOMAIN offers |->
                  IF offers[e] = <<>> THEN 0
                  ELSE ChosenOption(CHOOSE r \in DOMAIN Asked : Asked[r] = e)]
  /\ UNCHANGED <<offers, batch, score, out>>

-----------------------------------------------------------------------------
\* The texts: alone for a vector, or each in a pair with the message for a
\* score, which the tokenizer makes one row either way.

EncodeTexts ==
  /\ pass = "idle" /\ pass' = "texts"
  /\ \E n \in 1..MaxBatch : \E lens \in [1..n -> TextLens] :
       batch' = [r \in 1..n |-> Row(Tokens(r, "cls", 1) \o Tokens(r, "word", lens[r]), <<>>)]
  /\ UNCHANGED <<offers, score, out, answer>>

\* What a token is read as depends on the tokens it attends to.
RunTexts ==
  /\ pass = "texts" /\ pass' = "ran texts"
  /\ out' = [place \in DOMAIN Ids |-> [token |-> Ids[place], within |-> Attends(place)]]
  /\ UNCHANGED <<offers, batch, score, answer>>

\* A text is read from the state of its first token.
PoolTexts ==
  /\ pass = "ran texts" /\ pass' = "answered"
  /\ answer' = [r \in DOMAIN batch |-> out[(r - 1) * Length]]
  /\ UNCHANGED <<offers, batch, score, out>>

\* No model, no device that can run it, or an inference that fails.
FailPass ==
  /\ pass \in {"choices", "texts"} /\ pass' = "failed"
  /\ UNCHANGED <<offers, batch, score, out, answer>>

BatchNext ==
  \/ AskChoices \/ BuildChoices \/ RunChoices \/ ReadChoices
  \/ EncodeTexts \/ RunTexts \/ PoolTexts \/ FailPass
BatchSpec == BatchInit /\ [][BatchNext]_batchVars
-----------------------------------------------------------------------------
\* Properties.

\* The options of a list that can be given a marker at all.
FitsHead(list) == HeadKeep + Len(list) * OptionFloor <= HeadMax

\* The best of the options that were read of an entity, asked in row r.
BestOfOwn(e, r) ==
  \E read \in 1..Len(offers[e]) :
    /\ FitsHead(offers[e]) => read = Len(offers[e])
    /\ answer[e] = Best([k \in 1..read |-> score[r][k]])

\* Each entity is given the best of its own list, and each text the state of
\* its own first token among its own tokens, whatever longer or shorter rows
\* share the pass.  A list of more options than fit is judged by its first ones
\* (answer_choices, build_sequence, Batch::read, pool).
OwnAnswers ==
  /\ (pass = "answered" /\ offers # <<>>) => \A e \in DOMAIN answer :
       IF offers[e] = <<>> THEN answer[e] = 0
       ELSE BestOfOwn(e, CHOOSE r \in DOMAIN Asked : Asked[r] = e)
  /\ (pass = "answered" /\ offers = <<>>) => \A r \in DOMAIN answer :
       answer[r] = [token |-> <<r, "cls", 1>>, within |-> ToSet(batch[r].ids)]
=============================================================================
