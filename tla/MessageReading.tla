--------------------------- MODULE MessageReading ---------------------------
(***************************************************************************)
(* One message from its text to its reply: handling.rs around              *)
(* ResolverService::resolve (resolver/service.rs).                         *)
(*                                                                         *)
(* A reading asks one model after another, and each may answer anything    *)
(* its schema allows, or nothing.  What the user may change meanwhile is   *)
(* read when it is needed, so a setting or the list of a script is chosen  *)
(* by the step that reads it: a list may differ between two reads.  An     *)
(* intent has up to three entities: `app` takes an entry of the list of a  *)
(* script, `mode` one of the values it is configured with, `place` any     *)
(* words.                                                                  *)
(***************************************************************************)
EXTENDS IntentRouter

CONSTANTS
  Entries,         \* what the script may list
  Near,            \* words that name the entry NearEntry without being it
  NearEntry,
  OpenEntity,      \* the intents with a `place`
  Required,        \* the entities a command needs; the others it may lack
  MaxScore,
  LabelBudget,     \* the longest list offered to a model
  Messages         \* the messages, as IntentRouter reads them

ASSUME ReadingAssumption ==
  /\ OpenEntity \subseteq Intents /\ NearEntry \in Entries
  /\ Near \notin Entries /\ None \notin Entries
  /\ None \notin {"proof", "model", "list", "vectors", "ran", "exit code"}
  /\ MaxScore \in Nat
  /\ \A m \in Messages : m.spells \subseteq Intents /\ m.action \subseteq Intents

VARIABLES
  pc,        \* the stage of the reading
  run,       \* "full", or "preview" from the settings page
  msg,
  score,     \* the ranking, while the router decides
  chosen,    \* the intent, or None
  by,        \* what decided it
  proven,    \* the value the deterministic pass proved, or None
  rules,     \* whether the rules of the matcher read the lists of this turn
  list,      \* the list of the script, as the extraction read it
  values,    \* the value of each entity
  origin,    \* where the turn says each value came from
  events,    \* what it published, without the stages and the output lines
  reply

vars == <<pc, run, msg, score, chosen, by, proven, rules, list, values, origin, events, reply>>

Entities == {"app", "mode", "place"}
EntitiesOf(i) ==
  (IF i \in ScriptEntity THEN {"app"} ELSE {})
    \cup (IF ClosedValues[i] # {} THEN {"mode"} ELSE {})
    \cup (IF i \in OpenEntity THEN {"place"} ELSE {})

Words == "words"          \* words that name no entry
Chain == "chain"          \* words with a character that ends a command
NoValues == [e \in Entities |-> None]
NoScores == [i \in Intents |-> 0]
Ended == {"answered", "dropped"}

Init ==
  /\ pc = "resolve" /\ run \in {"full", "preview"} /\ msg \in Messages
  /\ score = NoScores /\ chosen = None /\ by = None /\ proven = None
  /\ rules = TRUE /\ list = {} /\ values = NoValues /\ origin = NoValues
  /\ events = <<>> /\ reply = None

Goto(step) == pc' = step
Publish(event) == events' = IF run = "full" THEN Append(events, event) ELSE events
Answer(text) == Goto("answered") /\ reply' = text

routed == <<score, chosen, by, proven>>
read == <<rules, list, values, origin>>
said == <<events, reply>>

-----------------------------------------------------------------------------
\* Which intent.

\* The engine of the settings reads the message.  A language model or the
\* built in model chooses an intent or none; one that answers without a choice,
\* is not there or is not ready ends the turn, as does a catalog that cannot be
\* read or is empty.
Resolve ==
  /\ pc = "resolve"
  /\ \/ \E i \in Intents : chosen' = i /\ by' = "engine" /\ Goto("extract") /\ UNCHANGED said
     \/ by' = "engine" /\ Goto("unmatched") /\ UNCHANGED <<chosen, said>>
     \/ Goto("prove") /\ UNCHANGED <<chosen, by, said>>
     \/ /\ Answer("not read") /\ UNCHANGED <<chosen, by>>
        /\ events' = events \/ Publish("not found")
  /\ UNCHANGED <<run, msg, score, proven, read>>

\* The deterministic pass, which is a setting.
Prove ==
  /\ pc = "prove"
  /\ \/ \E lists \in SUBSET Entries :
          \/ \E p \in Proofs(msg, lists) :
               /\ chosen' = p.chosen /\ proven' = p.value /\ by' = "proof"
               /\ Goto("extract")
          \/ /\ Proofs(msg, lists) = {} /\ by' = "no proof" /\ Goto("retrieve")
             /\ UNCHANGED <<chosen, proven>>
     \/ Goto("retrieve") /\ UNCHANGED <<chosen, proven, by>>
  /\ UNCHANGED <<run, msg, score, read, said>>

\* The words, with or without the vectors, rank the catalog.
Retrieve ==
  /\ pc = "retrieve"
  /\ score' \in [Intents -> 0..MaxScore]
  /\ Goto(IF Short(score') = <<>> THEN "fallback" ELSE "decide")
  /\ UNCHANGED <<run, msg, chosen, by, proven, read, said>>

Decide ==
  /\ pc = "decide"
  /\ \E d \in Decisions(score) :
       /\ chosen' = d.chosen /\ by' = d.by
       /\ Goto(IF d.chosen = None THEN "fallback" ELSE "extract")
  /\ UNCHANGED <<run, msg, score, proven, read, said>>

-----------------------------------------------------------------------------
\* Which values.

Offered(l) == IF Cardinality(l) <= LabelBudget THEN l ELSE {}

\* What a span reader or the language model may answer for an intent: an entry
\* when the list is offered, words of the message when it is not.
ModelReads(i, l) ==
  LET app == IF i \notin ScriptEntity THEN {} ELSE IF Offered(l) # {} THEN Offered(l)
             ELSE Entries \cup {Near, Words, Chain}
      place == IF i \in OpenEntity THEN {Words, Chain} ELSE {}
  IN  {[app |-> a, mode |-> m, place |-> p] :
         a \in {None} \cup app, m \in {None} \cup ClosedValues[i], p \in {None} \cup place}

\* The built in decision model answers every entity that offers choices, or
\* reads nothing at all.
LayaReads(i, l) ==
  LET app == IF i \in ScriptEntity THEN Offered(l) ELSE {}
      answer(choices) == IF choices = {} THEN {None} ELSE choices
  IN  {NoValues} \cup {[app |-> a, mode |-> m, place |-> None] :
                        a \in answer(app), m \in answer(ClosedValues[i])}

\* The required words that no reader filled yet.
Unread(v) == {e \in EntitiesOf(chosen) \cap Required : e = "place" /\ v[e] = None}

ProvenEntity == IF proven \in Entries THEN "app" ELSE "mode"

\* Seeded fault: a value the pass proved gives way to one a model read.
OverlayGuessed(v) ==
  IF proven = None \/ v[ProvenEntity] # None THEN v ELSE [v EXCEPT ![ProvenEntity] = proven]

\* A proven value stands before any other reader's.
OverlayProven(v) ==
  IF proven = None THEN v ELSE [v EXCEPT ![ProvenEntity] = proven]

OriginOf(e, v) ==
  IF v[e] = None THEN None
  ELSE IF proven # None /\ e = ProvenEntity THEN "proof" ELSE "model"

Settle(v) ==
  /\ values' = OverlayProven(v)
  /\ origin' = [e \in Entities |-> OriginOf(e, OverlayProven(v))]
  /\ Goto("match")

\* The list of the script is read, and then the values: by a model, where the
\* language model is asked when the built in one finds none; by the lists
\* alone; or by the choice of the decision model, if the router is on.
Extract ==
  /\ pc = "extract"
  /\ \E l \in (IF chosen \in ScriptEntity THEN SUBSET Entries ELSE {{}}) :
       /\ list' = l
       /\ \/ \E v \in ModelReads(chosen, l) : Settle(v)
          \/ by # "engine" /\ Settle(NoValues)
          \/ \E v \in LayaReads(chosen, l) :
               /\ by # "engine"
               /\ IF Unread(v) = {} THEN Settle(v)
                  ELSE values' = v /\ Goto("spans") /\ UNCHANGED origin
  /\ score' = NoScores
  /\ UNCHANGED <<run, msg, chosen, by, proven, rules, said>>

\* The spans fill the words the choice has none for.  The language model is
\* asked, if the settings let it, when they do not: what it answers takes the
\* place of all that was read before, unless it answers nothing.
Spans ==
  /\ pc = "spans"
  /\ \E s \in ModelReads(chosen, list), asksModel \in BOOLEAN :
       LET merged == [e \in Entities |-> IF e \in Unread(values) THEN s[e] ELSE values[e]]
       IN  IF Unread(merged) # {} /\ asksModel
           THEN \E v \in ModelReads(chosen, list) : Settle(IF v = NoValues THEN merged ELSE v)
           ELSE Settle(merged)
  /\ UNCHANGED <<run, msg, routed, rules, list, said>>

\* The entry that words name.
Named(words) == IF words = Near THEN NearEntry ELSE words

BestMatch(words, l) == IF Named(words) \in l THEN Named(words) ELSE None

\* Seeded fault: words that name no entry are left for the command.
MatchValueLoosely(v, l) ==
  IF BestMatch(v, l) # None THEN BestMatch(v, l)
  ELSE IF BestMatch(msg.names, l) # None THEN BestMatch(msg.names, l) ELSE v

\* The words that were read name an entry, or else those of the message do;
\* what names none is dropped.
MatchValue(v, l) ==
  IF BestMatch(v, l) # None THEN BestMatch(v, l) ELSE BestMatch(msg.names, l)

\* Seeded fault: what the list read is reported as the model's own.
MatchedOriginKept(old, new) == origin["app"]

\* An origin is written for the entry the list gave, and only then.
MatchedOrigin(old, new) ==
  IF new # None /\ new # old THEN "list" ELSE origin["app"]

\* The list of the script reads the value, by the rules of the matcher, by
\* vectors, or by both.  The readers that are not the router's use the rules.
Match ==
  /\ pc = "match"
  /\ \E useRules \in BOOLEAN, useVectors \in BOOLEAN :
       LET old == values["app"]
           new == IF chosen \in ScriptEntity /\ useRules THEN MatchValue(old, list) ELSE old
           found == IF chosen \in ScriptEntity /\ useVectors /\ new = None THEN list ELSE {}
       IN  /\ useRules \/ useVectors
           /\ by = "engine" => useRules /\ ~useVectors
           /\ rules' = useRules
           /\ \/ /\ values' = [values EXCEPT !["app"] = new]
                 /\ origin' = [origin EXCEPT !["app"] = MatchedOrigin(old, new)]
              \/ \E entry \in found :
                   /\ values' = [values EXCEPT !["app"] = entry]
                   /\ origin' = [origin EXCEPT !["app"] = "vectors"]
  /\ Goto("resolved")
  /\ UNCHANGED <<run, msg, routed, list, said>>

-----------------------------------------------------------------------------
\* What the turn does with what it read.

Missing == {e \in EntitiesOf(chosen) \cap Required : values[e] = None}
Unreadable == {e \in Entities : values[e] = Chain}

\* The turn asks for the required values it could not read.
Ask == Missing # {}

\* The turn reports the intent and, of one with entities, what was read of each,
\* also where nothing was; it stops before a command that lacks a required value
\* or would run one that ends it.
Report ==
  /\ pc = "resolved"
  /\ events' = IF run = "preview" THEN events
               ELSE events \o <<"resolved">>
                      \o (IF EntitiesOf(chosen) = {} THEN <<>> ELSE <<"values">>)
  /\ IF Ask THEN Answer("ask")
     ELSE IF Unreadable # {} THEN Answer("refuse")
     ELSE Goto("run") /\ UNCHANGED reply
  /\ UNCHANGED <<run, msg, routed, read>>

\* A preview stops before the run.
Starts == run = "full"

\* The configuration may keep the daemon from running commands.
Start ==
  /\ pc = "run"
  /\ \/ Starts /\ Goto("running") /\ events' = Append(events, "started") /\ UNCHANGED reply
     \/ Starts /\ Answer("execution is off") /\ UNCHANGED events
     \/ ~Starts /\ Answer("preview") /\ UNCHANGED events
  /\ UNCHANGED <<run, msg, routed, read>>

\* Seeded fault: the end of a command that failed is not published.
FailQuietly == Answer("execution is off") /\ UNCHANGED events

\* A command that does not start or does not end in time is answered like one
\* the configuration kept from running.
Fail == Answer("execution is off") /\ events' = Append(events, "failed")

Finish ==
  /\ pc = "running"
  /\ \/ \E code \in {"ran", "exit code"} :
          Answer(code) /\ events' = Append(events, "completed")
     \/ Fail
  /\ UNCHANGED <<run, msg, routed, read>>

\* No intent: the fallback is off, answers in words, or writes a script, which
\* is a setting of its own.  The built in model reads which of the two the
\* message needs, and leaves it to the language model when it is not sure.
Need ==
  /\ pc = "fallback"
  /\ \E step \in {"unmatched", "words", "script", "triage"} : Goto(step)
  /\ score' = NoScores
  /\ UNCHANGED <<run, msg, chosen, by, proven, read, said>>

\* A model that does not answer, or answers nothing, leaves the refusal.
Write ==
  /\ \/ pc = "words" /\ reply' \in {None, "words"} /\ Goto("unmatched")
     \/ pc = "script" /\ reply' \in {None, "script"} /\ Goto("unmatched")
     \/ pc = "triage" /\ reply' \in {None, "words"} /\ Goto("unmatched")
     \/ pc = "triage" /\ Goto("script") /\ UNCHANGED reply
  /\ UNCHANGED <<run, msg, routed, read, events>>

Unmatched ==
  /\ pc = "unmatched"
  /\ Publish("not found")
  /\ Answer(IF reply = None THEN "no intent" ELSE reply)
  /\ UNCHANGED <<run, msg, routed, read>>

\* The client closes the connection, which kills a running command.
Drop ==
  /\ pc \notin Ended
  /\ Goto("dropped")
  /\ UNCHANGED <<run, msg, routed, read, said>>

\* Seeded fault: the wait for a command has no end.
StepWithoutTimeout ==
  \/ Resolve \/ Prove \/ Retrieve \/ Decide \/ Extract \/ Spans \/ Match \/ Report \/ Start
  \/ Need \/ Write \/ Unmatched

\* Every read of a model and every command has a time limit.
Step ==
  \/ Resolve \/ Prove \/ Retrieve \/ Decide \/ Extract \/ Spans \/ Match \/ Report \/ Start
  \/ Finish \/ Need \/ Write \/ Unmatched

Next == Step \/ Drop

Spec == Init /\ [][Next]_vars /\ WF_vars(Step)
-----------------------------------------------------------------------------
\* Properties.

TypeOK ==
  /\ pc \in {"resolve", "prove", "retrieve", "decide", "extract", "spans", "match", "resolved",
            "run", "running", "fallback", "words", "script", "triage", "unmatched"} \cup Ended
  /\ score \in [Intents -> 0..MaxScore]
  /\ chosen \in Intents \cup {None}
  /\ list \subseteq Entries
  /\ DOMAIN values = Entities /\ DOMAIN origin = Entities

Happened(event) == \E n \in DOMAIN events : events[n] = event

\* A command runs only with every value it needs, none of which can end it, and
\* with the rules on its value of a script's list is an entry of the list as
\* the turn read it last, whoever read or proved the value (match_script_values).
CommandWhole ==
  pc \in {"run", "running"} =>
    /\ \A e \in EntitiesOf(chosen) : values[e] = None => e \notin Required
    /\ \A e \in Entities : values[e] # Chain
    /\ rules /\ chosen \in ScriptEntity => values["app"] \in list \cup {None}

\* What the deterministic pass proved is what the command runs with, whatever a
\* model read, unless the list that proved it no longer holds it.
ProvenValueStands ==
  pc \in {"match", "resolved", "run", "running"} /\ proven # None =>
    \/ values[ProvenEntity] = proven
    \/ pc # "match" /\ rules /\ ProvenEntity = "app" /\ proven \notin list

\* Where the turn says a value came from is where it came from: every value has
\* an origin, what "the list" or "the vectors" read is an entry of the list of
\* this turn, and what was "proven" is the proven value.
OriginsTrue ==
  pc \in {"match", "resolved", "run", "running"} =>
    \A e \in Entities : values[e] # None =>
      /\ origin[e] # None
      /\ origin[e] \in {"list", "vectors"} => values[e] \in list
      /\ origin[e] = "proof" => values[e] = proven

\* A weak or ambiguous match is chosen only by the language model, and a match
\* the scores carry is refused only by a model that read it: a model that does
\* not answer costs the turn no intent and wins it none (router/mod.rs, route).
RouteHolds ==
  LET short == Short(score) IN
    /\ pc = "extract" /\ by \in {"scores", "rerank", "laya"} => Clear(score, short)
    /\ pc = "extract" /\ by \notin {"engine", "proof"} => chosen \in ToSet(short)
    /\ pc = "fallback" /\ Clear(score, short) => by \in {"model", "laya"}

\* The events of a turn tell what it did: its intent is found or not, once, and
\* the values are reported of every intent that was found and has entities, also
\* where none was read; a command starts only after that and ends, before the
\* turn is answered and at most once; and the reply quotes a command only if it
\* completed.  A preview publishes nothing.
EventsTellTurn ==
  /\ \A m, n \in DOMAIN events : events[m] = events[n] => m = n
  /\ ~(Happened("resolved") /\ Happened("not found"))
  /\ Happened("resolved") => (Happened("values") <=> EntitiesOf(chosen) # {})
  /\ Happened("values") \/ Happened("started") => Happened("resolved")
  /\ Happened("completed") \/ Happened("failed") => Happened("started")
  /\ pc = "answered" /\ Happened("started") =>
       Happened("completed") # Happened("failed")
  /\ reply \in {"ran", "exit code"} <=> Happened("completed")
  /\ run = "preview" => events = <<>>

\* A turn is answered, unless its client goes away.
TurnAnswered == pc = "resolve" ~> pc \in Ended
-----------------------------------------------------------------------------
\* What the documentation says and the code does not do.

\* "A closed entity carries its values in the configuration and a script entity
\* takes them from a live list. Both are read here, so the deterministic pass
\* can prove a message against either of them" (resolver/service.rs:1543-1545).
ClosedValueProven ==
  pc = "retrieve" /\ by = "no proof" =>
    ~\E i \in Intents : msg.action = {i} /\ msg.names \in ClosedValues[i]
=============================================================================
