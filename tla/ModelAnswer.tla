----------------------------- MODULE ModelAnswer ----------------------------
(***************************************************************************)
(* One question to the language model and what the daemon reads out of its *)
(* answer: a choice among letters (resolver/prompt.rs and probability.rs), *)
(* the choice between words and a script, the script, and plain words      *)
(* (resolver/answer.rs).                                                   *)
(*                                                                         *)
(* The server keeps the answer inside the schema, and stops it wherever    *)
(* the tokens or the connection end, so what is read may be any beginning  *)
(* of what the model meant to write.  A token is a brace, a key with its   *)
(* quotes, a quote, a comma, a letter, or a word.                          *)
(***************************************************************************)
EXTENDS Integers, Sequences, FiniteSets, SequencesExt

CONSTANTS
  MaxOptions,    \* the letters there are
  Counts,        \* bound: how many intents a decision may have to choose from
  MaxRating,     \* the roughest a script may be rated
  NoAnswer

ASSUME ChoiceAssumption ==
  MaxOptions \in Nat \ {0} /\ Counts \subseteq Nat /\ MaxRating \in Nat \ {0}

VARIABLES
  ask,       \* the stage: "idle", "writing", "written", "lost" or "read"
  kind,      \* what is asked for: "choice", "need", "script" or "words"
  options,   \* the options of a choice: the intents and "none of these"
  meant,     \* the fields the model means to write, or its plain words
  follows,   \* whether the server keeps it inside the schema
  thought,   \* the tokens of the reasoning before the answer
  upto,      \* how many tokens of the answer were written
  got      \* what the daemon read out of it

answerReadVars == <<ask, kind, options, meant, follows, thought, upto, got>>

Letter(n) == <<"letter", n>>
Quote == <<"quote">>
IsLetter(token) == token[1] = "letter"

-----------------------------------------------------------------------------
\* What the model may write.

Word == <<"word">>
Sentences == {<<>>, <<Word>>, <<Word, Word>>}

\* Fields in the order they are written, each with its tokens.
Field(key, tokens) == [key |-> key, tokens |-> tokens]
Text(key, s) == Field(key, <<Quote>> \o s \o <<Quote>>)
Choice(k) == Text("choice", <<Letter(k)>>)
Rating(r) == Field("rating", <<<<"number", r>>>>)

\* A reason may hold a letter in its words, or be one.
Reasons(n) == Sentences \cup {<<Letter(k)>> : k \in 1..n} \cup {<<Letter(k), Word>> : k \in 1..n}
Needs == {<<<<"answer">>>>, <<<<"script">>>>}

\* The fields the schema of each question asks for.
Schema(what, n) ==
  CASE what = "choice" -> {<<Choice(k), Text("reason", s)>> : k \in 1..n, s \in Reasons(n)}
    [] what = "need" -> {<<Text("answer", s), Text("choice", c)>> : s \in Sentences, c \in Needs}
    [] what = "script" ->
         {<<Rating(r), Text("script", s), Text("summary", t)>> :
            r \in 0..MaxRating, s \in Sentences, t \in Sentences}

\* What a server that ignores the schema may let the model write: fields that
\* are missing or come in another order, or a number outside its range.
Loose(what, n) ==
  CASE what = "choice" -> {<<Text("reason", s), Choice(k)>> : k \in 1..n, s \in Reasons(n)}
    [] what = "need" -> {<<Text("choice", c)>> : c \in Needs}
    [] what = "script" ->
         {<<Text("script", s)>> : s \in Sentences}
           \cup {<<Text("script", s), Rating(r)>> :
                   s \in Sentences, r \in (0 - 1)..(MaxRating + 1)}

\* The tokens of one object with these fields, three at most.
FieldTokens(fields, n) ==
  IF n \notin DOMAIN fields THEN <<>>
  ELSE (IF n = 1 THEN <<>> ELSE <<<<"comma">>>>) \o <<<<"key", fields[n].key>>>> \o fields[n].tokens
ObjectTokens(fields) ==
  <<<<"open">>>> \o FieldTokens(fields, 1) \o FieldTokens(fields, 2) \o FieldTokens(fields, 3) \o <<<<"close">>>>

Whole == IF kind = "words" THEN meant ELSE ObjectTokens(meant)
Content == SubSeq(Whole, 1, upto)

-----------------------------------------------------------------------------
\* How an answer is read.

\* An object that was cut is no object.
Complete(tokens) == tokens # <<>> /\ Last(tokens) = <<"close">>
Has(key) == \E n \in DOMAIN meant : meant[n].key = key
Bare(tokens) == IF tokens[1] = Quote THEN SubSeq(tokens, 2, Len(tokens) - 1) ELSE tokens
Value(key) ==
  IF Has(key) THEN Bare(meant[CHOOSE n \in DOMAIN meant : meant[n].key = key].tokens) ELSE <<>>

\* Where a letter stands in quotes.
QuotedAt(tokens, k) ==
  {p \in 2..(Len(tokens) - 1) :
     tokens[p - 1] = Quote /\ tokens[p] = Letter(k) /\ tokens[p + 1] = Quote}
Shown(tokens) == {k \in 1..options : QuotedAt(tokens, k) # {}}

\* Seeded fault: the first letter of the list that is quoted at all.
FirstListedLetter(tokens) ==
  IF Shown(tokens) = {} THEN NoAnswer
  ELSE CHOOSE k \in Shown(tokens) : \A j \in Shown(tokens) : k <= j

FirstQuotedLetter(tokens) ==
  IF Shown(tokens) = {} THEN NoAnswer
  ELSE CHOOSE k \in Shown(tokens) : \E p \in QuotedAt(tokens, k) :
         \A j \in Shown(tokens) : \A q \in QuotedAt(tokens, j) : p <= q

ParseChoice(tokens) ==
  IF Complete(tokens) /\ Has("choice") /\ Value("choice")[1][2] \in 1..options
  THEN Value("choice")[1][2] ELSE FirstQuotedLetter(tokens)

ParseNeed(tokens) ==
  IF ~Complete(tokens) \/ ~Has("choice") THEN NoAnswer
  ELSE IF Value("choice") = <<<<"script">>>> THEN Value("choice")
  ELSE IF Value("answer") = <<>> THEN NoAnswer ELSE Value("answer")

InRange(rating) == IF rating < 0 THEN 0 ELSE IF rating > MaxRating THEN MaxRating ELSE rating

\* A script needs a body; what else is missing is empty or zero.
ParseScript(tokens) ==
  IF ~Complete(tokens) \/ Value("script") = <<>> THEN NoAnswer
  ELSE [script |-> Value("script"), summary |-> Value("summary"),
        rating |-> IF Has("rating") THEN InRange(Value("rating")[1][2]) ELSE 0]

ParseWords(tokens) == IF tokens = <<>> THEN NoAnswer ELSE SubSeq(meant, 1, Len(tokens))

\* The confidence of a choice is read at the first token that is one letter,
\* of the reasoning and the answer.  The letters weighed there are the options.
LogTokens(tokens) == thought \o tokens
ReadAt(tokens) ==
  LET at == {p \in DOMAIN LogTokens(tokens) : IsLetter(LogTokens(tokens)[p])}
  IN  IF at = {} THEN 0 ELSE CHOOSE p \in at : \A q \in at : p <= q

\* The intent a letter stands for; the last letter is "none of these".
MatchIntent(k) == IF k \in 1..(options - 1) THEN <<"intent", k>> ELSE <<"unmatched">>

Parsed(answer) == [answer |-> answer, at |-> 0, turn |-> NoAnswer]
Parse(tokens) ==
  CASE kind = "choice" ->
         [answer |-> ParseChoice(tokens), at |-> ReadAt(tokens),
          turn |-> IF ParseChoice(tokens) = NoAnswer THEN NoAnswer
                   ELSE MatchIntent(ParseChoice(tokens))]
    [] kind = "need" -> Parsed(ParseNeed(tokens))
    [] kind = "script" -> Parsed(ParseScript(tokens))
    [] kind = "words" -> Parsed(ParseWords(tokens))

-----------------------------------------------------------------------------
AnswerReadInit ==
  /\ ask = "idle" /\ kind = "words" /\ options = 0 /\ meant = <<>> /\ follows = TRUE
  /\ thought = <<>> /\ upto = 0 /\ got = NoAnswer

\* The intents of the catalog or of the short list become letters, and one more
\* stands for none of them.  Too many letters are no question at all.
AskChoice ==
  /\ ask = "idle" /\ kind' = "choice"
  /\ \E n \in Counts :
       /\ options' = n + 1
       /\ IF n + 1 > MaxOptions
          THEN ask' = "read" /\ UNCHANGED <<meant, follows, thought>>
          ELSE /\ ask' = "writing" /\ follows' \in BOOLEAN
               /\ meant' \in (IF follows' THEN Schema("choice", n + 1) ELSE Loose("choice", n + 1))
               /\ thought' \in {<<>>, <<Word>>, <<Letter(1), Word>>}
  /\ UNCHANGED <<upto, got>>

AskReport ==
  /\ ask = "idle" /\ ask' = "writing"
  /\ kind' \in {"need", "script"} /\ follows' \in BOOLEAN
  /\ meant' \in (IF follows' THEN Schema(kind', 0) ELSE Loose(kind', 0))
  /\ UNCHANGED <<options, thought, upto, got>>

AskWords ==
  /\ ask = "idle" /\ ask' = "writing" /\ kind' = "words" /\ meant' \in Sentences
  /\ UNCHANGED <<options, follows, thought, upto, got>>

WriteToken ==
  /\ ask = "writing" /\ upto < Len(Whole) /\ upto' = upto + 1
  /\ UNCHANGED <<ask, kind, options, meant, follows, thought, got>>

\* The answer ends: it is whole, its tokens are used up, or the server closed
\* the connection.
EndAnswer ==
  /\ ask = "writing" /\ ask' = "written"
  /\ UNCHANGED <<kind, options, meant, follows, thought, upto, got>>

\* An error of the connection, a status that is not a success, or the timeout
\* loses what was written.
LoseAnswer ==
  /\ ask = "writing" /\ ask' = "lost"
  /\ UNCHANGED <<kind, options, meant, follows, thought, upto, got>>

ReadAnswer ==
  /\ ask = "written" /\ ask' = "read"
  /\ got' = Parse(Content)
  /\ UNCHANGED <<kind, options, meant, follows, thought, upto>>

AnswerReadNext ==
  \/ AskChoice \/ AskReport \/ AskWords
  \/ WriteToken \/ EndAnswer \/ LoseAnswer \/ ReadAnswer
AnswerReadSpec == AnswerReadInit /\ [][AnswerReadNext]_answerReadVars
-----------------------------------------------------------------------------
\* Properties.

\* However an answer is cut, the turn does what the whole answer asks for or
\* nothing: it names the same intent, asks for a script only when the model
\* did, and proposes no part of a script and no script without its rating.
\* Plain words are shown as far as they came (parse_choice, parse_triage,
\* parse_script).  The confidence of a choice is the one the model gave its
\* letter, unless it reasoned in letters before.
LettersThought == \E p \in DOMAIN thought : IsLetter(thought[p])
CutChangesNothing ==
  (ask = "read" /\ got # NoAnswer /\ follows) =>
    /\ kind # "words" => got.answer \in {NoAnswer, Parse(Whole).answer}
    /\ kind = "choice" => got.turn \in {NoAnswer, Parse(Whole).turn}
    /\ kind = "words" /\ got.answer # NoAnswer => IsPrefix(got.answer, meant)
    /\ kind = "choice" /\ got.answer # NoAnswer /\ ~LettersThought =>
         LogTokens(Whole)[got.at] = Letter(got.answer)
=============================================================================
