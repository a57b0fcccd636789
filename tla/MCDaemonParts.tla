---------------------------- MODULE MCDaemonParts -----------------------------
\* The parts of the daemon around the turn, on small instances.  They share no
\* state, so one behaviour runs one part: the states of the run are the sum, not
\* the product, of the parts' states.
EXTENDS SettingsCache, IntentCatalog, ScriptLists, ModelStore, EventStream,
        SchemaUpgrade, ModelEngines, EmbedCache, CommandRun, AnswerStream,
        CommandCatalog, SettingsUpdate, ModelBatch, ModelAnswer, MemoryRecall,
        LabelReading

CONSTANTS embedder, decider, spanner, server, builtin, editor, user, pager, key1, key2, key3, plain

MCSpecs == {embedder, decider, spanner}
MCRoleOf == (embedder :> "embedding") @@ (decider :> "decision") @@ (spanner :> "span")
MCMaxLoaded == [k \in Keepers |-> 1]
MCPlaces == {server, builtin}
MCLabelOf == (server :> "name") @@ (builtin :> "builtin")

FishLine(c, says) == [command |-> c, says |-> says]
ManLine(c, section) == [command |-> c, section |-> section]

\* A command with a page, one with a sentence, two with none, and a name that is
\* listed twice; and the same machine after other commands were installed.
MachineBefore ==
  [fish |-> <<FishLine(1, "kind"), FishLine(2, "nothing"), FishLine(4, "sentence"),
              FishLine(1, "sentence"), FishLine(3, "nothing")>>,
   man |-> <<ManLine(2, 3), ManLine(2, 1), ManLine(5, 1)>>]
MachineAfter ==
  [fish |-> <<FishLine(4, "nothing"), FishLine(2, "sentence"), FishLine(3, "kind")>>,
   man |-> <<ManLine(4, 8), ManLine(2, 1)>>]
MCMachines == {MachineBefore, MachineAfter}

Update(retrieve, lexical, dense, quality, speed, bad) ==
  [retrieve |-> retrieve, lexical |-> lexical, dense |-> dense,
   quality |-> quality, speed |-> speed, bad |-> bad]
Stages(retrieve, lexical, dense) == Update(retrieve, lexical, dense, Unset, Unset, FALSE)

\* Updates of the stages, two of which fit only onto some stored ones, moves of
\* each slider, and an update that is refused whatever is stored.
MCRequests ==
  {Stages("hybrid", Unset, 1), Stages(Unset, 0, 1), Stages("dense", 1, 0),
   Update(Unset, Unset, Unset, 80, Unset, FALSE),
   Update(Unset, Unset, Unset, Unset, 80, FALSE),
   Update("lexical", Unset, Unset, Unset, 80, TRUE)}
MCFileRouter == [retrieve |-> "lexical", lexical |-> 1, dense |-> 0]

\* Lists of few and of many options, short and long ones, and none.
MCOffers == {<<>>, <<1>>, <<1, 4>>, <<4, 1>>, <<4, 4, 4>>, <<2, 2, 2, 2>>}

\* Concepts that share a word, two of them a name, and texts that name one in
\* full, several in part, one by its value, or nothing, and one of too many words.
MCWordsOf == (editor :> {key1, key2, key3}) @@ (user :> {key1}) @@ (pager :> {key1})
MCTwins == {{editor, user}}
MCSayings == {key3, plain}
MCQuestions == {<<>>, <<Filler>>, <<key1, key1>>, <<plain, key1, key3, key2>>,
                <<key1, Filler, key2, key3, plain>>}
Fact(c, says, open, sure) == [of |-> c, says |-> says, open |-> open, sure |-> sure]
MCFirstFacts ==
  {<<Fact(editor, key3, TRUE, FALSE), Fact(user, plain, TRUE, TRUE), NoFact>>,
   <<Fact(editor, key3, TRUE, TRUE), Fact(user, key3, FALSE, FALSE), NoFact>>,
   <<Fact(editor, key3, TRUE, FALSE), NoFact, NoFact>>}

\* Two intents that read one list, with phrases that share their values; and the
\* same two, one with more values than the model reads comfortably.
Label(words) == [words |-> words, loud |-> FALSE]
Loud(words) == [words |-> words, loud |-> TRUE]
Entity(called, entityKind, configured) ==
  [called |-> Label(<<called>>), kind |-> entityKind, configured |-> configured]
Closing == [name |-> Label(<<"close", "app">>), phrases |-> <<Label(<<"quit", "fox">>)>>,
            entities |-> <<Entity("app", "script", <<>>)>>]
Opening == [name |-> Label(<<"open", "app">>), phrases |-> <<Label(<<"start", "the", "fox">>)>>,
            entities |-> <<Entity("app", "script", <<>>), Entity("place", "open", <<>>)>>]
When == Entity("when", "closed", <<Label(<<"now">>), Loud(<<"app">>)>>)
MCIntentLists == {<<Closing, Opening>>, <<Closing, [Opening EXCEPT !.entities = <<@[1], When>>]>>}
MCWords == {"open", "close", "app", "quit", "start", "the", "fox", "late", "now", "place", "when"}
MCHeard == {<<"open", "the", "fox">>, <<"start", "fox">>, <<"open", "app", "now">>,
            <<"fox">>, <<"the", "late", "fox">>, <<"the">>}
MCListings == {<<>>, <<Loud(<<"fox", "late">>), Label(<<"fox">>)>>,
               <<Label(<<"app">>), Label(<<"fox">>), Label(<<"fox", "late">>)>>}

VARIABLE focus

vars == <<focus, settingsVars, catalogVars, listVars, storeVars, streamVars, schemaVars,
          engineVars, embedVars, runVars, answerVars, commandVars, updateVars, batchVars,
          answerReadVars, recallVars, labelVars>>

Some(S) == CHOOSE x \in S : TRUE
Fixed(name, initially) == focus = name \/ initially

\* The parts that do not run begin in one of their initial states.  The settings,
\* the script and the machine begin in one as well: a write, an edit or an
\* installation leads to the others.  Of two updates that may come, one does.
Init ==
  /\ focus \in {"settings", "intents", "lists", "models", "events", "schema",
                "engines", "vectors", "run", "answer", "commands", "update", "batch",
                "reading", "memory", "labels"}
  /\ SettingsInit /\ rows = [k \in Keys |-> Some(Values)]
  /\ CatalogInit /\ Fixed("intents", wname = [w \in Writers |-> Some(Names)])
  /\ ListsInit /\ script = Some(Scripts)
  /\ StoreInit /\ StreamInit
  /\ UpgradeInit /\ Fixed("schema", columns = {})
  /\ EnginesInit /\ Fixed("engines", usable = {} /\ onDisk = Specs)
  /\ EmbedInit
  /\ RunInit
  /\ AnswerInit /\ Fixed("answer", lines = <<>>)
  /\ CommandsInit /\ machine = MachineBefore
  /\ UpdateInit /\ Fixed("update", client = [c \in Clients |-> Away])
  /\ focus = "update" => ~Does(Some(Updates), "away") /\ \E c \in Clients : Does(c, "away")
  /\ BatchInit /\ AnswerReadInit
  /\ LabelsInit /\ prints = Some(Listings)
  /\ Fixed("labels", intentList = Some(IntentLists) /\ message = Some(Heard))
  /\ MemoryInit
  /\ Fixed("memory", said = Some(FirstFacts) /\ there = Concepts /\ changed = [c \in Concepts |-> 0])

\* A part that does not run keeps its state.
Still(name, state) == IF focus = name THEN TRUE ELSE UNCHANGED state

Next ==
  /\ UNCHANGED focus
  /\ \/ focus = "settings" /\ SettingsNext
     \/ focus = "intents" /\ CatalogNext
     \/ focus = "lists" /\ ListsNext
     \/ focus = "models" /\ StoreNext
     \/ focus = "events" /\ StreamNext
     \/ focus = "schema" /\ UpgradeNext
     \/ focus = "engines" /\ EnginesNext
     \/ focus = "vectors" /\ EmbedNext
     \/ focus = "run" /\ RunNext
     \/ focus = "answer" /\ AnswerNext
     \/ focus = "commands" /\ CommandsNext
     \/ focus = "update" /\ UpdateNext
     \/ focus = "batch" /\ BatchNext
     \/ focus = "reading" /\ AnswerReadNext
     \/ focus = "memory" /\ RecallNext
     \/ focus = "labels" /\ LabelsNext
  /\ Still("settings", settingsVars) /\ Still("intents", catalogVars)
  /\ Still("lists", listVars) /\ Still("models", storeVars)
  /\ Still("events", streamVars) /\ Still("schema", schemaVars)
  /\ Still("engines", engineVars) /\ Still("vectors", embedVars)
  /\ Still("run", runVars) /\ Still("answer", answerVars)
  /\ Still("commands", commandVars) /\ Still("update", updateVars)
  /\ Still("batch", batchVars) /\ Still("reading", answerReadVars)
  /\ Still("memory", recallVars) /\ Still("labels", labelVars)

\* A start of the daemon runs its next statement.
Spec == Init /\ [][Next]_vars /\ WF_schemaVars(focus = "schema" /\ UpgradeStep)

\* A start of the daemon ends with a daemon that is up (connect, apply).
UpgradeFinishes == focus = "schema" => UpgradeEnds
=============================================================================
