---------------------------- MODULE LabelReading ----------------------------
(***************************************************************************)
(* The intent and the values of a message read by labels: the built in     *)
(* span finder alone, the language model alone, or the language model for  *)
(* the intent and the span finder for its values (resolver/gliner/mod.rs,  *)
(* resolver/gliner/scoring.rs, resolver/service.rs, resolver/values.rs).   *)
(*                                                                         *)
(* A text is its words and whether it is spelled in another case.  What    *)
(* the model finds is any best hit for each label it was asked, a score    *)
(* and a span of the message.  A script may list other entries between     *)
(* two runs.                                                               *)
(***************************************************************************)
EXTENDS Integers, Sequences, FiniteSets, SequencesExt, Picks

CONSTANTS
  Words,       \* the words there are
  IntentLists, \* the intents there may be, in the order of their names
  Heard,       \* the messages, as words
  Listings,    \* what the script of an entity may print
  Articles,    \* the words that name nothing
  LabelLimit,  \* more labels than this and the phrases are left out
  OfferLimit,  \* a longer list is not offered
  FullScore,   \* the highest score
  Scores,      \* the scores the model gives a hit
  Threshold,   \* below this score no intent is chosen
  NoText

\* Labels and values, the entities of an intent, and the intents.
LabelTexts == [words : Seq(Words), loud : BOOLEAN]
EntityForms ==
  [called : LabelTexts, kind : {"closed", "script", "open"}, configured : Seq(LabelTexts)]
IntentForms == [name : LabelTexts, phrases : Seq(LabelTexts), entities : Seq(EntityForms)]

ASSUME LabelsAssumption ==
  /\ LabelLimit \in Nat /\ OfferLimit \in Nat
  /\ FullScore \in Nat \ {0} /\ Scores \subseteq 1..FullScore /\ Threshold \in 1..FullScore
  /\ \A list \in IntentLists : list \in Seq(IntentForms) /\ list # <<>>
  /\ \A words \in Heard : words \in Seq(Words)
  /\ \A list \in Listings : list \in Seq(LabelTexts)
  /\ NoText \notin LabelTexts

VARIABLES
  labelStep,   \* "idle", "labels", "named", "spans", "words", "read", "done",
               \* "refused" or "failed"
  readBy,      \* the configured readers: "gliner", "hybrid" or "llama"
  intentList, message,
  labelsRead,       \* the labels the model reads
  chosen,      \* the position of the intent
  prints,      \* what the script prints now
  listed,      \* the list the values are read against
  values       \* the value of each entity of the intent

labelVars == <<labelStep, readBy, intentList, message, labelsRead, chosen, prints, listed, values>>

TextOf(words) == [words |-> words, loud |-> FALSE]
SameLabel(a, b) == a.words = b.words
ChosenIntent == intentList[chosen]
OfKind(kind) == {e \in DOMAIN ChosenIntent.entities : ChosenIntent.entities[e].kind = kind}

-----------------------------------------------------------------------------
\* The labels of a read.

EntityLabels(intent) ==
  FlattenSeq([e \in DOMAIN intent.entities |->
    <<intent.entities[e].called>>
      \o (IF intent.entities[e].kind = "closed" THEN intent.entities[e].configured ELSE <<>>)])
SureLabels(intent) == <<intent.name>> \o EntityLabels(intent)
ScoreLabels(intent) == <<intent.name>> \o intent.phrases \o EntityLabels(intent)

\* Two spellings of one label are one label.
Dedup(labels) ==
  Picked(labels, {k \in DOMAIN labels : \A j \in 1..(k - 1) : ~SameLabel(labels[j], labels[k])})

LabelsFor(intents) ==
  LET all == Dedup(FlattenSeq([k \in DOMAIN intents |-> ScoreLabels(intents[k])]))
      sure == Dedup(FlattenSeq([k \in DOMAIN intents |-> SureLabels(intents[k])]))
  IN  IF Len(all) <= LabelLimit THEN all ELSE sure

OfferedBy(list) == IF Len(list) > OfferLimit THEN <<>> ELSE list

\* The values an entity is chosen from; an open entity and a long list have none.
OptionsOf(entity) ==
  CASE entity.kind = "closed" -> entity.configured
    [] entity.kind = "script" -> OfferedBy(listed)
    [] entity.kind = "open" -> <<>>

ValueLabels ==
  EntityLabels(ChosenIntent) \o (IF OfKind("script") = {} THEN <<>> ELSE OfferedBy(listed))

-----------------------------------------------------------------------------
\* The score of an intent.

\* The best hit of each label the model found something for.
MessageSpans == {TextOf(message), TextOf(SubSeq(message, Len(message), Len(message)))}
Hits(labels, spans) ==
  UNION {[found -> [score : Scores, span : spans]] :
           found \in SUBSET {label.words : label \in ToSet(labels)}}
HitScore(hits, label) ==
  IF label.words \in DOMAIN hits THEN hits[label.words].score ELSE 0

Highest(S) == CHOOSE n \in S : \A m \in S : m <= n

ReadScore(intent, hits) ==
  Highest({HitScore(hits, label) : label \in ToSet(ScoreLabels(intent))})

\* The share of the words of a label the message holds, articles aside.
WordsIn(words, set) == Picked(words, {n \in DOMAIN words : words[n] \in set})
NamingWords(label) == WordsIn(label.words, Words \ Articles)
HeldWords(label) == WordsIn(NamingWords(label), ToSet(message))
WordScore(intent) ==
  Highest({0} \cup {(FullScore * Len(HeldWords(label))) \div Len(NamingWords(label)) :
             label \in {l \in {intent.name} \cup ToSet(intent.phrases) : NamingWords(l) # <<>>}})

\* Seeded fault: the words count only where the model read nothing.
ScoreIfUnread(intent, hits) ==
  IF ReadScore(intent, hits) > 0 THEN ReadScore(intent, hits) ELSE WordScore(intent)

IntentScore(intent, hits) == Highest({ReadScore(intent, hits), WordScore(intent)})

\* The first intent by its name among those with the best score.
BestIntent(hits) ==
  CHOOSE k \in DOMAIN intentList : \A j \in DOMAIN intentList :
    \/ IntentScore(intentList[j], hits) < IntentScore(intentList[k], hits)
    \/ IntentScore(intentList[j], hits) = IntentScore(intentList[k], hits) /\ k <= j

-----------------------------------------------------------------------------
\* The value of an entity.

Windows(words) == {SubSeq(words, i, j) : i \in DOMAIN words, j \in DOMAIN words} \ {<<>>}
Saying(choices, texts) == {k \in DOMAIN choices : choices[k].words \in texts}
FirstAt(s, at) == IF at = {} THEN NoText ELSE s[CHOOSE k \in at : \A j \in at : k <= j]
LastAt(s, at) == IF at = {} THEN NoText ELSE s[CHOOSE k \in at : \A j \in at : j <= k]

\* A repetition of the message is no value; nor is a long sentence, and there is none.
ReadsAsValue(text) == text.words # <<>> /\ text.words # message

\* A choice the model found, else one the message names; else the span of the
\* label of the entity.
SpanValue(entity, hits) ==
  LET choices == OptionsOf(entity)
      best == Highest({0} \cup {HitScore(hits, value) : value \in ToSet(choices)})
      found == LastAt(choices, {k \in DOMAIN choices : best > 0 /\ HitScore(hits, choices[k]) = best})
      said == FirstAt(choices, Saying(choices, Windows(message)))
      label == entity.called.words
  IN  IF choices # <<>> THEN (IF found # NoText THEN found ELSE said)
      ELSE IF label \in DOMAIN hits /\ ReadsAsValue(hits[label].span) THEN hits[label].span
      ELSE NoText

\* What the language model answers for an entity: a choice in the spelling of
\* the list, or a text that reads as a value.
ParsedValue(entity, text) ==
  IF text = NoText THEN NoText
  ELSE IF OptionsOf(entity) # <<>>
       THEN FirstAt(OptionsOf(entity), Saying(OptionsOf(entity), {text.words}))
  ELSE IF ReadsAsValue(text) THEN text ELSE NoText

\* The surest rule reads an entry: all its words, their beginning, or its words
\* among others; then the longer shared beginning, then the shorter entry.
RuleOf(mention, entry) ==
  IF mention = entry.words THEN 1
  ELSE IF IsPrefix(mention, entry.words) THEN 2
  ELSE IF ToSet(entry.words) \subseteq ToSet(mention) THEN 3 ELSE 4
SharedStart(mention, entry) ==
  Cardinality({n \in DOMAIN mention \cap DOMAIN entry.words :
                 SubSeq(mention, 1, n) = SubSeq(entry.words, 1, n)})
NoWorse(m, entry, n, other) ==
  \/ RuleOf(m, entry) < RuleOf(n, other)
  \/ /\ RuleOf(m, entry) = RuleOf(n, other)
     /\ \/ SharedStart(m, entry) > SharedStart(n, other)
        \/ SharedStart(m, entry) = SharedStart(n, other) /\ Len(entry.words) <= Len(other.words)
BestOf(mentions, list) ==
  LET fits == {f \in mentions \X (DOMAIN list) : RuleOf(f[1], list[f[2]]) < 4}
      best == CHOOSE f \in fits : \A g \in fits : NoWorse(f[1], list[f[2]], g[1], list[g[2]])
  IN  IF fits = {} THEN NoText ELSE list[best[2]]

\* The windows of the message that hold no word of the name of the intent.
Mentions ==
  {w \in Windows(message) : Len(w) <= 3 /\ ToSet(w) \cap ToSet(ChosenIntent.name.words) = {}}

\* The words that were read name an entry, else the words of the message do.
Listed(value, list) ==
  IF value # NoText /\ BestOf({value.words}, list) # NoText
  THEN BestOf({value.words}, list) ELSE BestOf(Mentions, list)

-----------------------------------------------------------------------------
LabelsInit ==
  /\ labelStep = "idle" /\ readBy = "gliner" /\ labelsRead = <<>> /\ chosen = 1
  /\ intentList \in IntentLists /\ message \in Heard
  /\ prints \in Listings /\ listed = <<>> /\ values = <<>>

AskLabels ==
  /\ labelStep = "idle" /\ readBy' = "gliner"
  /\ labelsRead' = LabelsFor(intentList) /\ labelStep' = "labels"
  /\ UNCHANGED <<intentList, message, chosen, prints, listed, values>>

\* One read of the model scores every intent; its spans do not count.
ScoreIntents ==
  /\ labelStep = "labels"
  /\ \E hits \in Hits(labelsRead, {TextOf(message)}) :
       LET best == BestIntent(hits)
       IN  IF IntentScore(intentList[best], hits) < Threshold
           THEN labelStep' = "refused" /\ UNCHANGED chosen
           ELSE labelStep' = "named" /\ chosen' = best
  /\ labelsRead' = <<>>
  /\ UNCHANGED <<readBy, intentList, message, prints, listed, values>>

\* The language model names an intent.
NameIntent ==
  /\ labelStep = "idle" /\ readBy' \in {"hybrid", "llama"}
  /\ chosen' \in DOMAIN intentList /\ labelStep' = "named"
  /\ UNCHANGED <<intentList, message, labelsRead, prints, listed, values>>

NoValues == [e \in DOMAIN ChosenIntent.entities |-> NoText]

TakeList ==
  /\ labelStep = "named" /\ listed' = prints /\ values' = NoValues
  /\ labelStep' = (IF readBy = "llama" THEN "words" ELSE "spans")
  /\ UNCHANGED <<readBy, intentList, message, labelsRead, chosen, prints>>

\* The second read has the labels of one intent.  Where the span finder reads
\* no value, the language model reads them.
ReadSpans ==
  /\ labelStep = "spans"
  /\ \E hits \in Hits(ValueLabels, MessageSpans) :
       values' = [e \in DOMAIN ChosenIntent.entities |-> SpanValue(ChosenIntent.entities[e], hits)]
  /\ labelStep' = (IF readBy = "hybrid" /\ values' = NoValues /\ NoValues # <<>>
                   THEN "words" ELSE "read")
  /\ UNCHANGED <<readBy, intentList, message, labelsRead, chosen, prints, listed>>

\* The model cannot be read.  The turn fails, or the language model reads.
FailToRead ==
  /\ labelStep \in {"labels", "spans"}
  /\ labelStep' = (IF readBy = "hybrid" THEN "words" ELSE "failed")
  /\ labelsRead' = <<>>
  /\ UNCHANGED <<readBy, intentList, message, chosen, prints, listed, values>>

\* A request that fails leaves the values empty.
ReadWords ==
  /\ labelStep = "words" /\ labelStep' = "read"
  /\ \E said \in [DOMAIN ChosenIntent.entities -> MessageSpans \cup ToSet(listed) \cup {NoText}] :
       values' = [e \in DOMAIN ChosenIntent.entities |-> ParsedValue(ChosenIntent.entities[e], said[e])]
  /\ UNCHANGED <<readBy, intentList, message, labelsRead, chosen, prints, listed>>

\* The span finder reads the list once more before it reads the entry.
MatchEntries ==
  /\ labelStep = "read" /\ labelStep' = "done"
  /\ listed' = (IF readBy = "gliner" THEN prints ELSE listed)
  /\ values' = [e \in DOMAIN values |->
                  IF e \in OfKind("script") THEN Listed(values[e], listed') ELSE values[e]]
  /\ UNCHANGED <<readBy, intentList, message, labelsRead, chosen, prints>>

\* What is installed changes, or the script fails and prints nothing.
PrintOther ==
  /\ labelStep \in {"named", "read"} /\ prints' \in Listings
  /\ UNCHANGED <<labelStep, readBy, intentList, message, labelsRead, chosen, listed, values>>

LabelsNext ==
  \/ AskLabels \/ ScoreIntents \/ NameIntent \/ TakeList \/ ReadSpans \/ FailToRead
  \/ ReadWords \/ MatchEntries \/ PrintOther
LabelsSpec == LabelsInit /\ [][LabelsNext]_labelVars
-----------------------------------------------------------------------------
\* Properties.

AllHeld(label) == NamingWords(label) # <<>> /\ HeldWords(label) = NamingWords(label)

\* However long the catalog is, the model is asked no label twice, and every
\* name, entity and configured value (labels_for).
LabelsAsked ==
  labelStep = "labels" =>
    /\ \A i, j \in DOMAIN labelsRead : SameLabel(labelsRead[i], labelsRead[j]) => i = j
    /\ \A k \in DOMAIN intentList : \A label \in ToSet(SureLabels(intentList[k])) :
         \E i \in DOMAIN labelsRead : SameLabel(labelsRead[i], label)

\* A message that holds every word of a name or of a phrase is never refused,
\* whatever the model read (score_intents).
WordsNameIntent ==
  labelStep = "refused" =>
    \A k \in DOMAIN intentList :
      \A label \in {intentList[k].name} \cup ToSet(intentList[k].phrases) : ~AllHeld(label)

\* Whoever read the values, and whatever failed or changed in between: a choice
\* is one of the configured values, an entry is one of the list as it was last
\* read, no value repeats the message, and an entry the message names is not
\* lost (read_values, parse_values, match_script_values).
ValuesHold ==
  labelStep = "done" =>
    \A e \in DOMAIN values :
      LET entity == ChosenIntent.entities[e]
      IN  /\ entity.kind = "closed" /\ entity.configured # <<>> =>
               values[e] \in ToSet(entity.configured) \cup {NoText}
          /\ entity.kind = "open" => values[e] = NoText \/ values[e].words # message
          /\ entity.kind = "script" =>
               /\ values[e] \in ToSet(listed) \cup {NoText}
               /\ (\E entry \in ToSet(listed) : entry.words \in Mentions) => values[e] # NoText

\* What a turn reads by labels is its own intentList's, its lists' and its message's.
LabelsReadTurn == LabelsAsked /\ WordsNameIntent /\ ValuesHold
=============================================================================
