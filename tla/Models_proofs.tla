--------------------------- MODULE Models_proofs ----------------------------
(***************************************************************************)
(* No file of a model is torn, and a download that is done left its model  *)
(* installed; a vector that answers a text was made of that text, by the   *)
(* model that was asked; a session that answers reads as it was asked to;  *)
(* and an answer of the language model that was cut does what the whole    *)
(* one asks for or nothing: for any number of models, files, downloads,    *)
(* texts, turns, reads and letters.                                        *)
(***************************************************************************)
EXTENDS ModelStore, EmbedCache, ModelEngines, ModelAnswer, FiniteSetTheorems,
        SequenceTheorems, TLAPS

\* The stores and the downloads (ModelStore).

\* The slot is the download that runs, so at most one does.
OneRuns ==
  /\ \A d \in Downloads : task[d] # NoTask => Runs /\ slot.model = task[d].model
  /\ \A d, e \in Downloads : task[d] # NoTask /\ task[e] # NoTask => d = e

\* The part file of the running task is its own, or was removed.
OwnPart ==
  \A d \in Downloads :
    /\ Is(d, "write") => part[At(d)] \in {NoPart, Part(d, FALSE)}
    /\ Is(d, "rename") => part[At(d)] \in {NoPart, Part(d, TRUE)}

\* The files a task has left behind are in place, unless the model was removed.
Behind(m, n) == m \in removed \/ \A k \in 1..n : disk[<<m, k>>] # "missing"

FilesBehind ==
  \A d \in Downloads : task[d] # NoTask => Behind(task[d].model, task[d].file - 1)

StoreInv ==
  /\ StoreTypeOK /\ OneRuns /\ OwnPart /\ FilesBehind
  /\ FilesWhole /\ DoneMeansInstalled

\* The fields of a task that runs.
LEMMA TaskFields ==
  ASSUME StoreTypeOK, NEW d \in Downloads, task[d] # NoTask
  PROVE  /\ task[d] \in Tasks /\ task[d].model \in Models /\ task[d].file \in 1..Files
         /\ At(d) \in ModelFiles
BY DEF StoreTypeOK, Tasks, At, ModelFiles

LEMMA StoreInvKept == StoreInv /\ [StoreNext]_storeVars => StoreInv'
<1> SUFFICES ASSUME StoreInv, [StoreNext]_storeVars PROVE StoreInv'
  OBVIOUS
<1> USE FilesAssumption, NothingAssumption DEF StoreInv
<1>1. ASSUME NEW d \in Downloads, NEW m \in Models, StartDownload(d, m) PROVE StoreInv'
  <2>1. /\ slot' = [model |-> m, state |-> "running"]
        /\ task' = [task EXCEPT ![d] = [model |-> m, file |-> 1, step |-> "open"]]
        /\ removed' = removed \ {m}
        /\ UNCHANGED <<disk, part, restarts>> /\ ~Runs
    BY <1>1 DEF StartDownload
  <2>2. [model |-> m, file |-> 1, step |-> "open"] \in Tasks /\ slot' \in Slots
    BY <2>1 DEF Tasks, Slots
  <2>3. StoreTypeOK'
    BY <2>1, <2>2 DEF StoreTypeOK
  <2>4. \A e \in Downloads : task[e] = NoTask
    BY <2>1 DEF OneRuns
  <2>5. /\ task'[d] = [model |-> m, file |-> 1, step |-> "open"]
        /\ \A e \in Downloads \ {d} : task'[e] = NoTask
    BY <2>1, <2>4 DEF StoreTypeOK
  <2>6. OneRuns'
    BY <2>1, <2>2, <2>5 DEF OneRuns, Runs
  <2>7. OwnPart'
    <3>1. \A e \in Downloads : task'[e] = NoTask \/ task'[e].step = "open"
      BY <2>5
    <3> QED BY <3>1 DEF OwnPart, Is
  <2>8. FilesBehind'
    BY <2>5 DEF FilesBehind, Behind
  <2>9. FilesWhole' /\ DoneMeansInstalled'
    BY <2>1 DEF FilesWhole, DoneMeansInstalled
  <2> QED BY <2>3, <2>6, <2>7, <2>8, <2>9
<1>2. ASSUME NEW d \in Downloads, OpenPart(d) PROVE StoreInv'
  <2>1. /\ task[d] # NoTask /\ task' = [task EXCEPT ![d].step = "write"]
        /\ part' = [part EXCEPT ![At(d)] = Part(d, FALSE)]
        /\ UNCHANGED <<disk, slot, removed, restarts>>
    BY <1>2 DEF OpenPart, Is, StepTo
  <2>2. /\ task[d] \in Tasks /\ At(d) \in ModelFiles
        /\ \A e \in Downloads \ {d} : task[e] = NoTask
    BY <2>1, TaskFields DEF OneRuns
  <2>3. /\ task'[d] = [task[d] EXCEPT !.step = "write"] /\ task'[d] \in Tasks
        /\ task'[d].model = task[d].model /\ task'[d].file = task[d].file
        /\ task'[d].step = "write"
        /\ \A e \in Downloads \ {d} : task'[e] = NoTask
    BY <2>1, <2>2 DEF StoreTypeOK, Tasks
  <2>4. StoreTypeOK'
    BY <2>1, <2>2, <2>3 DEF StoreTypeOK, Part, Parts
  <2>5. OneRuns'
    BY <2>1, <2>2, <2>3 DEF OneRuns, Runs
  <2>6. OwnPart'
    BY <2>1, <2>2, <2>3 DEF OwnPart, Is, At, StoreTypeOK
  <2>7. FilesBehind'
    BY <2>1, <2>3 DEF FilesBehind, Behind
  <2>8. FilesWhole' /\ DoneMeansInstalled'
    BY <2>1 DEF FilesWhole, DoneMeansInstalled, Installed
  <2> QED BY <2>4, <2>5, <2>6, <2>7, <2>8
<1>3. ASSUME NEW d \in Downloads, WritePart(d) PROVE StoreInv'
  <2>1. /\ Is(d, "write") /\ task[d] # NoTask
        /\ task' = [task EXCEPT ![d].step = "rename"]
        /\ UNCHANGED <<disk, slot, removed, restarts>>
    BY <1>3 DEF WritePart, Is, StepTo
  <2>2. /\ task[d] \in Tasks /\ At(d) \in ModelFiles
        /\ \A e \in Downloads \ {d} : task[e] = NoTask
    BY <2>1, TaskFields DEF OneRuns
  <2>3. /\ task'[d] = [task[d] EXCEPT !.step = "rename"] /\ task'[d] \in Tasks
        /\ task'[d].model = task[d].model /\ task'[d].file = task[d].file
        /\ task'[d].step = "rename"
        /\ \A e \in Downloads \ {d} : task'[e] = NoTask
    BY <2>1, <2>2 DEF StoreTypeOK, Tasks
  <2>4. /\ part' \in [ModelFiles -> Parts \cup {NoPart}]
        /\ part'[At(d)] \in {NoPart, Part(d, TRUE)}
    <3>1. part[At(d)] \in {NoPart, Part(d, FALSE)}
      BY <2>1 DEF OwnPart
    <3>2. Part(d, FALSE) \in Parts /\ Part(d, TRUE) \in Parts
      BY Zenon DEF Part, Parts
    <3> QED BY <3>1, <3>2, <1>3, <2>2 DEF WritePart, StoreTypeOK
  <2>5. StoreTypeOK'
    BY <2>1, <2>2, <2>3, <2>4 DEF StoreTypeOK
  <2>6. OneRuns'
    BY <2>1, <2>2, <2>3 DEF OneRuns, Runs
  <2>7. OwnPart'
    BY <2>3, <2>4 DEF OwnPart, Is, At
  <2>8. FilesBehind'
    BY <2>1, <2>3 DEF FilesBehind, Behind
  <2>9. FilesWhole' /\ DoneMeansInstalled'
    BY <2>1 DEF FilesWhole, DoneMeansInstalled, Installed
  <2> QED BY <2>5, <2>6, <2>7, <2>8, <2>9
<1>4. ASSUME NEW d \in Downloads, RenamePart(d) PROVE StoreInv'
  <2>1. /\ Is(d, "rename") /\ task[d] # NoTask /\ part[At(d)] # NoPart
        /\ part' = [part EXCEPT ![At(d)] = NoPart] /\ UNCHANGED <<removed, restarts>>
    BY <1>4 DEF RenamePart, Is
  <2>2. /\ task[d] \in Tasks /\ At(d) \in ModelFiles
        /\ At(d) = <<task[d].model, task[d].file>>
        /\ task[d].model \in Models /\ task[d].file \in 1..Files
        /\ \A e \in Downloads \ {d} : task[e] = NoTask
    BY <2>1, TaskFields DEF OneRuns, At
  <2>3. part[At(d)].written
    BY <2>1 DEF OwnPart, Part
  <2>4. disk' = [disk EXCEPT ![At(d)] = "whole"]
    BY <2>3, <1>4 DEF RenamePart
  <2>5. /\ disk' \in [ModelFiles -> {"missing", "torn", "whole"}] /\ FilesWhole'
        /\ part' \in [ModelFiles -> Parts \cup {NoPart}]
    BY <2>1, <2>2, <2>4 DEF StoreTypeOK, FilesWhole
  <2>6. PICK m \in Models, n \in 1..Files : m = task[d].model /\ n = task[d].file
    BY <2>2
  <2>7. Behind(m, n)'
    <3>1. Behind(m, n - 1)
      BY <2>1, <2>6 DEF FilesBehind
    <3>2. \A k \in 1..n : <<m, k>> \in ModelFiles /\ (k = n \/ k \in 1..(n - 1))
      BY <2>6 DEF ModelFiles
    <3>3. \A k \in 1..n : k # n => disk'[<<m, k>>] = disk[<<m, k>>]
      BY <2>2, <2>4, <2>6, <3>2 DEF StoreTypeOK
    <3>4. disk'[<<m, n>>] = "whole"
      BY <2>2, <2>4, <2>6, <3>2 DEF StoreTypeOK
    <3> QED BY <2>1, <3>1, <3>2, <3>3, <3>4 DEF Behind
  <2>8. slot \in Slots /\ slot # NoSlot /\ slot.model = m /\ slot.state = "running"
    BY <2>1, <2>6 DEF OneRuns, Runs, StoreTypeOK
  <2>9. CASE n = Files
    <3>1. /\ task' = [task EXCEPT ![d] = NoTask]
          /\ slot' = [slot EXCEPT !.state = "done"]
      BY <1>4, <2>6, <2>8, <2>9 DEF RenamePart, LastFile, Ends
    <3>2. slot' \in Slots /\ slot'.model = m
      BY <2>8, <3>1 DEF Slots
    <3>3. \A e \in Downloads : task'[e] = NoTask
      BY <2>2, <3>1 DEF StoreTypeOK
    <3>4. StoreTypeOK'
      BY <2>1, <2>5, <3>1, <3>2 DEF StoreTypeOK
    <3>5. OneRuns' /\ OwnPart' /\ FilesBehind'
      BY <3>3 DEF OneRuns, OwnPart, FilesBehind, Is
    <3>6. DoneMeansInstalled'
      BY <2>7, <2>9, <3>2 DEF DoneMeansInstalled, Installed, Behind
    <3> QED BY <2>5, <3>4, <3>5, <3>6
  <2>10. CASE n # Files
    <3>1. /\ task' = [task EXCEPT ![d].file = @ + 1, ![d].step = "open"]
          /\ UNCHANGED slot
      BY <1>4, <2>6, <2>10 DEF RenamePart, LastFile
    <3>2. /\ task'[d] \in Tasks /\ task'[d].model = m /\ task'[d].file = n + 1
          /\ task'[d].step = "open"
          /\ \A e \in Downloads \ {d} : task'[e] = NoTask
      <4>1. n + 1 \in 1..Files
        BY <2>10
      <4>2. task' = [task EXCEPT ![d] = [task[d] EXCEPT !.file = @ + 1, !.step = "open"]]
        BY <2>2, <3>1 DEF StoreTypeOK, Tasks
      <4>3. task'[d] = [task[d] EXCEPT !.file = @ + 1, !.step = "open"]
        BY <4>2 DEF StoreTypeOK
      <4>4. task'[d].file = n + 1 /\ task'[d].model = m /\ task'[d].step = "open"
            /\ task'[d] \in Tasks
        BY <2>2, <2>6, <4>1, <4>3 DEF Tasks
      <4>5. \A e \in Downloads \ {d} : task'[e] = NoTask
        BY <2>2, <4>2 DEF StoreTypeOK
      <4> QED BY <4>4, <4>5
    <3>3. StoreTypeOK'
      BY <2>1, <2>2, <2>5, <3>1, <3>2 DEF StoreTypeOK
    <3>4. OneRuns'
      BY <2>8, <3>1, <3>2 DEF OneRuns, Runs
    <3>5. OwnPart'
      <4>1. \A e \in Downloads : task'[e] = NoTask \/ task'[e].step = "open"
        BY <3>2
      <4> QED BY <4>1 DEF OwnPart, Is
    <3>6. FilesBehind'
      <4>1. (n + 1) - 1 = n
        OBVIOUS
      <4> QED BY <2>7, <3>2, <4>1 DEF FilesBehind
    <3>7. DoneMeansInstalled'
      BY <2>8, <3>1 DEF DoneMeansInstalled
    <3> QED BY <2>5, <3>3, <3>4, <3>5, <3>6, <3>7
  <2> QED BY <2>9, <2>10
<1>5. ASSUME NEW d \in Downloads, FailDownload(d) PROVE StoreInv'
  <2>1. /\ task[d] # NoTask /\ task' = [task EXCEPT ![d] = NoTask]
        /\ UNCHANGED <<disk, part, removed, restarts>>
    BY <1>5 DEF FailDownload, Ends
  <2>2. slot \in Slots /\ slot # NoSlot /\ slot.model = task[d].model
    BY <2>1 DEF OneRuns, Runs, StoreTypeOK
  <2>3. slot' = [slot EXCEPT !.state = "failed"]
    BY <1>5, <2>2 DEF FailDownload, Ends
  <2>4. slot' \in Slots /\ slot'.state = "failed"
    BY <2>2, <2>3 DEF Slots
  <2>5. \A e \in Downloads : task'[e] = NoTask
    BY <2>1 DEF StoreTypeOK, OneRuns
  <2>6. StoreTypeOK'
    BY <2>1, <2>4 DEF StoreTypeOK
  <2>7. OneRuns' /\ OwnPart' /\ FilesBehind'
    BY <2>5 DEF OneRuns, OwnPart, FilesBehind, Is
  <2>8. FilesWhole' /\ DoneMeansInstalled'
    BY <2>1, <2>4 DEF FilesWhole, DoneMeansInstalled
  <2> QED BY <2>6, <2>7, <2>8
<1>6. ASSUME NEW m \in Models, RemoveModel(m) PROVE StoreInv'
  <2>1. /\ disk' = [f \in ModelFiles |-> IF f[1] = m THEN "missing" ELSE disk[f]]
        /\ part' = [f \in ModelFiles |-> IF f[1] = m THEN NoPart ELSE part[f]]
        /\ removed' = removed \cup {m} /\ UNCHANGED <<task, restarts>>
        /\ slot' = IF slot # NoSlot /\ slot.model = m /\ slot.state = "done"
                   THEN NoSlot ELSE slot
    BY <1>6 DEF RemoveModel, SlotAfterRemove
  <2>2. StoreTypeOK'
    BY <2>1 DEF StoreTypeOK
  <2>3. OneRuns'
    BY <2>1 DEF OneRuns, Runs
  <2>4. OwnPart'
    <3>1. \A d \in Downloads : task[d] # NoTask => part'[At(d)] \in {NoPart, part[At(d)]}
      BY <2>1, TaskFields
    <3>2. \A d \in Downloads : At(d)' = At(d) /\ (Is(d, "write")' <=> Is(d, "write"))
                              /\ (Is(d, "rename")' <=> Is(d, "rename"))
      BY <2>1 DEF At, Is
    <3> QED BY <3>1, <3>2 DEF OwnPart, Is
  <2>5. \A x \in Models, n \in Nat : n <= Files /\ Behind(x, n) => Behind(x, n)'
    <3> SUFFICES ASSUME NEW x \in Models, NEW n \in Nat, n <= Files, Behind(x, n),
                        x # m, x \notin removed
                 PROVE  Behind(x, n)'
      BY <2>1 DEF Behind
    <3>1. \A k \in 1..n : <<x, k>> \in ModelFiles /\ <<x, k>>[1] = x
      BY DEF ModelFiles
    <3>2. \A k \in 1..n : disk'[<<x, k>>] = disk[<<x, k>>]
      BY <2>1, <3>1
    <3> QED BY <3>2 DEF Behind
  <2>6. FilesBehind'
    <3> SUFFICES ASSUME NEW d \in Downloads, task[d] # NoTask
                 PROVE  Behind(task[d].model, task[d].file - 1)'
      BY <2>1 DEF FilesBehind
    <3>1. task[d].model \in Models /\ task[d].file \in 1..Files
      BY TaskFields
    <3>2. task[d].file - 1 \in Nat /\ task[d].file - 1 <= Files
      BY <3>1
    <3>3. PICK x \in Models, n \in Nat : x = task[d].model /\ n = task[d].file - 1 /\ n <= Files
      BY <3>1, <3>2
    <3>4. Behind(x, n)'
      BY <2>5, <3>3 DEF FilesBehind
    <3> QED BY <2>1, <3>3, <3>4
  <2>7. FilesWhole'
    BY <2>1 DEF FilesWhole
  <2>8. DoneMeansInstalled'
    <3> SUFFICES ASSUME slot # NoSlot, slot.state = "done", slot' = slot, slot.model # m
                 PROVE  Installed(slot.model)' \/ slot'.model \in removed'
      BY <2>1 DEF DoneMeansInstalled
    <3>1. PICK x \in Models : x = slot.model
      BY DEF StoreTypeOK, Slots
    <3>2. Behind(x, Files)
      BY <3>1 DEF DoneMeansInstalled, Installed, Behind
    <3>3. Behind(x, Files)'
      BY <2>5, <3>2
    <3> QED BY <3>1, <3>3 DEF Behind, Installed
  <2> QED BY <2>2, <2>3, <2>4, <2>6, <2>7, <2>8
<1>7. CASE RestartStore
  <2>1. /\ task' = [d \in Downloads |-> NoTask] /\ slot' = NoSlot
        /\ restarts' = restarts + 1 /\ UNCHANGED <<disk, part, removed>>
    BY <1>7 DEF RestartStore
  <2>2. StoreTypeOK'
    BY <2>1 DEF StoreTypeOK
  <2>3. OneRuns' /\ OwnPart' /\ FilesBehind'
    BY <2>1 DEF OneRuns, OwnPart, FilesBehind, Is
  <2> QED BY <2>1, <2>2, <2>3 DEF FilesWhole, DoneMeansInstalled
<1>8. CASE UNCHANGED storeVars
  BY <1>8 DEF storeVars, StoreTypeOK, OneRuns, OwnPart, FilesBehind, Runs, Is, At, Behind,
     FilesWhole, DoneMeansInstalled, Installed
<1> QED BY <1>1, <1>2, <1>3, <1>4, <1>5, <1>6, <1>7, <1>8 DEF StoreNext

LEMMA StoreInvInitially == StoreInit => StoreInv
<1> SUFFICES ASSUME StoreInit PROVE StoreInv
  OBVIOUS
<1>1. StoreTypeOK
  BY DEF StoreInit, StoreTypeOK
<1>2. slot = NoSlot /\ \A d \in Downloads : task[d] = NoTask
  BY DEF StoreInit
<1>3. FilesWhole
  BY DEF StoreInit, FilesWhole
<1> QED BY <1>1, <1>2, <1>3 DEF StoreInv, OneRuns, OwnPart, FilesBehind, Is, DoneMeansInstalled

\* Every file of a model that is on disk is whole, and a download that says it
\* is done left its model installed unless it was removed since, however
\* downloads, removals, failures and restarts follow one another (GlinerStore
\* and download.rs).
THEOREM ModelsAreInstalled == StoreSpec => []ModelsInstalled
<1>1. StoreInv => ModelsInstalled
  BY DEF StoreInv, ModelsInstalled
<1> QED BY <1>1, StoreInvInitially, StoreInvKept, PTL DEF StoreSpec

-----------------------------------------------------------------------------
\* The vectors that are kept (EmbedCache).

\* A vector that may stand for a text of a turn.
Fits(v, text, p) == v \in Vectors /\ v.text = text /\ LabelOf[v.by] = LabelOf[p]

\* What the cache keeps was read by a place of the entry's name.
EntriesTrue == \A e \in entries : e.vector \in Vectors /\ e.label = Key(e.vector.by)

EmbedShape ==
  /\ asking \in [Turns -> {"idle", "look up", "keep", "given"}]
  /\ place \in [Turns -> Places \cup {NoPlace}]
  /\ texts \in [Turns -> Seq(Texts)] /\ found \in [Turns -> Seq(Vectors \cup {NoVector})]
  /\ DOMAIN fresh = Turns

\* What a turn has found fits; what it still lacks, it has read and not kept.
TurnOf(t) ==
  /\ asking[t] # "idle" => place[t] \in Places /\ Len(found[t]) <= Len(texts[t])
  /\ \A n \in DOMAIN found[t] :
       found[t][n] # NoVector => Fits(found[t][n], texts[t][n], place[t])
  /\ asking[t] \in {"keep", "given"} => Len(found[t]) = Len(texts[t])
  /\ asking[t] = "keep" =>
       /\ \A v \in fresh[t] : v \in Vectors /\ v.by = place[t]
       /\ \A n \in DOMAIN found[t] :
            found[t][n] = NoVector => \E v \in fresh[t] : v.text = texts[t][n]
  /\ asking[t] = "given" => \A n \in DOMAIN found[t] : found[t][n] # NoVector

EmbedInv == EmbedShape /\ EntriesTrue /\ \A t \in Turns : TurnOf(t)

LEMMA NoneYet ==
  /\ \A S : <<>> \in Seq(S)
  /\ DOMAIN <<>> = {} /\ Len(<<>>) = 0
OBVIOUS

LEMMA ListOf ==
  ASSUME NEW S, NEW s \in Seq(S)
  PROVE  Len(s) \in Nat /\ DOMAIN s = 1..Len(s) /\ \A n \in 1..Len(s) : s[n] \in S
OBVIOUS

LEMMA EmbedInvInitially == EmbedInit => EmbedInv
<1> SUFFICES ASSUME EmbedInit PROVE EmbedInv
  OBVIOUS
<1>1. EmbedShape /\ EntriesTrue
  BY DEF EmbedInit, EmbedShape, EntriesTrue
<1>2. ASSUME NEW t \in Turns PROVE TurnOf(t)
  <2>1. found[t] = <<>> /\ asking[t] = "idle"
    BY DEF EmbedInit
  <2> QED BY <2>1 DEF TurnOf
<1> QED BY <1>1, <1>2 DEF EmbedInv

\* A step of one turn leaves what the others hold.
LEMMA OtherTurns ==
  ASSUME EmbedInv, NEW t \in Turns,
         \A u \in Turns \ {t} : /\ asking'[u] = asking[u] /\ place'[u] = place[u]
                                /\ texts'[u] = texts[u] /\ found'[u] = found[u]
                                /\ fresh'[u] = fresh[u],
         TurnOf(t)', EmbedShape', EntriesTrue'
  PROVE  EmbedInv'
<1>1. ASSUME NEW u \in Turns \ {t} PROVE TurnOf(u)'
  BY DEF TurnOf, EmbedInv
<1> QED BY <1>1 DEF EmbedInv

LEMMA AskKeeps == ASSUME EmbedInv, NEW t \in Turns, AskVectors(t) PROVE EmbedInv'
<1>1. PICK n \in 1..MaxTexts : \E asked \in [1..n -> Texts] : texts' = [texts EXCEPT ![t] = asked]
  BY DEF AskVectors
<1>2. PICK asked \in [1..n -> Texts] : texts' = [texts EXCEPT ![t] = asked]
  BY <1>1
<1>3. PICK p \in Places : place' = [place EXCEPT ![t] = p]
  BY DEF AskVectors
<1>4. asked \in Seq(Texts) /\ Len(asked) \in Nat
  BY EmbedAssumption
<1>5. EmbedShape'
  <2>1. texts' \in [Turns -> Seq(Texts)]
    BY <1>2, <1>4 DEF EmbedInv, EmbedShape
  <2>2. found' \in [Turns -> Seq(Vectors \cup {NoVector})]
    BY NoneYet DEF EmbedInv, EmbedShape, AskVectors
  <2>3. asking' \in [Turns -> {"idle", "look up", "keep", "given"}]
    BY DEF EmbedInv, EmbedShape, AskVectors
  <2>4. place' \in [Turns -> Places \cup {NoPlace}] /\ DOMAIN fresh' = Turns
    BY <1>3 DEF EmbedInv, EmbedShape, AskVectors
  <2> QED BY <2>1, <2>2, <2>3, <2>4 DEF EmbedShape
<1>6. /\ asking'[t] = "look up" /\ place'[t] = p /\ texts'[t] = asked /\ found'[t] = <<>>
      /\ \A u \in Turns \ {t} : /\ asking'[u] = asking[u] /\ place'[u] = place[u]
                                /\ texts'[u] = texts[u] /\ found'[u] = found[u]
                                /\ fresh'[u] = fresh[u]
  BY <1>2, <1>3 DEF EmbedInv, EmbedShape, AskVectors
<1>7. TurnOf(t)'
  <2>1. Len(found'[t]) = 0 /\ DOMAIN found'[t] = {}
    BY <1>6, NoneYet
  <2>2. Len(asked) \in Nat
    BY <1>4
  <2>3. 0 <= Len(asked)
    BY <2>2
  <2> QED BY <1>6, <2>1, <2>3 DEF TurnOf
<1>8. EntriesTrue'
  BY DEF AskVectors, EmbedInv, EntriesTrue
<1> QED BY <1>5, <1>6, <1>7, <1>8, OtherTurns

\* What the cache holds for a text fits.
LEMMA HeldFits ==
  ASSUME EntriesTrue, NEW p, NEW text, NEW v \in Held(p, text)
  PROVE  Fits(v, text, p)
BY DEF Held, EntriesTrue, Fits, Key

LEMMA LookUpKeeps == ASSUME EmbedInv, NEW t \in Turns, LookUp(t) PROVE EmbedInv'
<1> DEFINE next == Len(found[t]) + 1
           held == Held(place[t], texts[t][next])
           v == IF held = {} THEN NoVector ELSE CHOOSE w \in held : TRUE
<1>1. /\ found[t] \in Seq(Vectors \cup {NoVector}) /\ texts[t] \in Seq(Texts)
      /\ asking[t] = "look up" /\ place[t] \in Places /\ Len(found[t]) < Len(texts[t])
  BY DEF EmbedInv, EmbedShape, LookUp, TurnOf
<1>2. found' = [found EXCEPT ![t] = Append(found[t], v)]
  BY DEF LookUp
<1>3. v # NoVector => Fits(v, texts[t][next], place[t])
  BY HeldFits DEF EmbedInv
<1>4. v \in Vectors \cup {NoVector}
  BY <1>3 DEF Fits
<1> HIDE DEF v
<1>5. /\ found'[t] = Append(found[t], v) /\ found'[t] \in Seq(Vectors \cup {NoVector})
      /\ Len(found'[t]) = next /\ next <= Len(texts[t])
      /\ \A n \in DOMAIN found'[t] :
           IF n = next THEN found'[t][n] = v
           ELSE n \in DOMAIN found[t] /\ found'[t][n] = found[t][n]
  <2>1. found'[t] = Append(found[t], v)
    BY <1>2 DEF EmbedInv, EmbedShape
  <2>2. PICK S, T : S = Vectors \cup {NoVector} /\ T = Texts
    OBVIOUS
  <2>3. found[t] \in Seq(S) /\ v \in S /\ texts[t] \in Seq(T)
    BY <1>1, <1>4, <2>2
  <2>4. next <= Len(texts[t])
    <3>1. Len(found[t]) \in Nat /\ Len(texts[t]) \in Nat
      BY <2>3, ListOf
    <3>2. Len(found[t]) < Len(texts[t])
      BY <1>1
    <3> QED BY <3>1, <3>2
  <2>5. found'[t] \in Seq(S) /\ Len(found'[t]) = next
    BY <2>1, <2>3
  <2>6. \A n \in DOMAIN found'[t] :
           IF n = next THEN found'[t][n] = v
           ELSE n \in DOMAIN found[t] /\ found'[t][n] = found[t][n]
    BY <2>1, <2>3
  <2> QED BY <2>1, <2>2, <2>4, <2>5, <2>6
<1>6. EmbedShape'
  BY <1>2, <1>5 DEF EmbedInv, EmbedShape, LookUp
<1>7. /\ UNCHANGED <<entries, asking, place, texts, fresh>>
      /\ \A u \in Turns \ {t} : found'[u] = found[u]
  BY <1>2 DEF LookUp, EmbedInv, EmbedShape
<1>8. \A n \in DOMAIN found'[t] :
         found'[t][n] # NoVector => Fits(found'[t][n], texts[t][n], place[t])
  BY <1>3, <1>5 DEF EmbedInv, TurnOf
<1>9. TurnOf(t)'
  BY <1>1, <1>5, <1>7, <1>8 DEF TurnOf
<1>10. EntriesTrue'
  BY <1>7 DEF EmbedInv, EntriesTrue
<1> QED BY <1>6, <1>7, <1>9, <1>10, OtherTurns

LEMMA EndKeepsVectors == ASSUME EmbedInv, NEW t \in Turns, End(t) PROVE EmbedInv'
<1>1. EmbedShape'
  BY NoneYet DEF EmbedInv, EmbedShape, End
<1>2. /\ asking'[t] = "idle" /\ found'[t] = <<>> /\ UNCHANGED entries
      /\ \A u \in Turns \ {t} : /\ asking'[u] = asking[u] /\ place'[u] = place[u]
                                /\ texts'[u] = texts[u] /\ found'[u] = found[u]
                                /\ fresh'[u] = fresh[u]
  BY DEF EmbedInv, EmbedShape, End
<1>3. TurnOf(t)'
  BY <1>2 DEF TurnOf
<1>4. EntriesTrue'
  BY <1>2 DEF EmbedInv, EntriesTrue
<1> QED BY <1>1, <1>2, <1>3, <1>4, OtherTurns

LEMMA ReadKeeps == ASSUME EmbedInv, NEW t \in Turns, ReadVectors(t) PROVE EmbedInv'
<1>1. /\ found[t] \in Seq(Vectors \cup {NoVector}) /\ texts[t] \in Seq(Texts)
      /\ asking[t] = "look up" /\ place[t] \in Places /\ Len(found[t]) = Len(texts[t])
  BY DEF EmbedInv, EmbedShape, ReadVectors, TurnOf
<1>2. EmbedShape'
  BY DEF EmbedInv, EmbedShape, ReadVectors
<1>3. /\ UNCHANGED <<entries, place, texts, found>>
      /\ asking'[t] = IF Wanted(t) = {} THEN "given" ELSE "keep"
      /\ fresh'[t] = [text : Wanted(t), by : {place[t]}]
      /\ \A u \in Turns \ {t} : asking'[u] = asking[u] /\ fresh'[u] = fresh[u]
  BY DEF EmbedInv, EmbedShape, ReadVectors
<1>4. Wanted(t) \subseteq Texts
  <2>1. \A n \in DOMAIN found[t] : texts[t][n] \in Texts
    BY <1>1, ListOf
  <2> QED BY <2>1 DEF Wanted
<1>5. \A v \in fresh'[t] : v \in Vectors /\ v.by = place[t]
  <2>1. [text : Wanted(t), by : {place[t]}] \subseteq Vectors
    BY <1>1, <1>4 DEF Vectors
  <2> QED BY <1>3, <2>1
<1>6. ASSUME NEW n \in DOMAIN found[t], found[t][n] = NoVector
      PROVE  texts[t][n] \in Wanted(t) /\ \E v \in fresh'[t] : v.text = texts[t][n]
  <2>1. texts[t][n] \in Wanted(t)
    BY <1>6 DEF Wanted
  <2>2. [text |-> texts[t][n], by |-> place[t]] \in fresh'[t]
    BY <1>3, <2>1
  <2> QED BY <2>1, <2>2
<1>7. TurnOf(t)'
  BY <1>1, <1>3, <1>5, <1>6 DEF EmbedInv, TurnOf
<1>8. EntriesTrue'
  BY <1>3 DEF EmbedInv, EntriesTrue
<1> QED BY <1>2, <1>3, <1>7, <1>8, OtherTurns

LEMMA KeepKeeps == ASSUME EmbedInv, NEW t \in Turns, Keep(t) PROVE EmbedInv'
<1>1. PICK v \in fresh[t] :
        /\ Put(Key(place[t]), v)
        /\ found' = [found EXCEPT ![t] = FillVectors(t, v)]
        /\ fresh' = [fresh EXCEPT ![t] = @ \ {v}]
        /\ asking' = [asking EXCEPT ![t] = IF fresh[t] = {v} THEN "given" ELSE "keep"]
  BY DEF Keep
<1>2. /\ found[t] \in Seq(Vectors \cup {NoVector}) /\ texts[t] \in Seq(Texts)
      /\ asking[t] = "keep" /\ place[t] \in Places /\ Len(found[t]) = Len(texts[t])
      /\ v \in Vectors /\ v.by = place[t]
  BY DEF EmbedInv, EmbedShape, Keep, TurnOf
<1>3. /\ FillVectors(t, v) \in Seq(Vectors \cup {NoVector})
      /\ Len(FillVectors(t, v)) = Len(found[t])
      /\ \A n \in DOMAIN FillVectors(t, v) :
           /\ n \in DOMAIN found[t]
           /\ FillVectors(t, v)[n] =
                IF found[t][n] = NoVector /\ texts[t][n] = v.text THEN v ELSE found[t][n]
  BY <1>2 DEF FillVectors
<1>4. EmbedShape'
  BY <1>1, <1>3 DEF EmbedInv, EmbedShape, Keep
<1>5. /\ UNCHANGED <<place, texts>> /\ found'[t] = FillVectors(t, v)
      /\ fresh'[t] = fresh[t] \ {v}
      /\ asking'[t] = IF fresh[t] = {v} THEN "given" ELSE "keep"
      /\ \A u \in Turns \ {t} : asking'[u] = asking[u] /\ found'[u] = found[u]
                                /\ fresh'[u] = fresh[u]
  BY <1>1 DEF EmbedInv, EmbedShape, Keep
<1>6. EntriesTrue'
  <2>1. \A e \in entries' : e \in entries \/ e = Entry(Key(place[t]), v)
    BY <1>1 DEF Put, Roomy
  <2> QED BY <1>2, <2>1 DEF EmbedInv, EntriesTrue, Entry
<1>7. ASSUME NEW n \in DOMAIN found'[t], found'[t][n] # NoVector
      PROVE  Fits(found'[t][n], texts[t][n], place[t])
  BY <1>2, <1>3, <1>5, <1>7 DEF EmbedInv, TurnOf, Fits
<1>8. ASSUME NEW n \in DOMAIN found'[t], found'[t][n] = NoVector
      PROVE  \E w \in fresh'[t] : w.text = texts[t][n]
  <2>1. n \in DOMAIN found[t] /\ found[t][n] = NoVector
    BY <1>2, <1>3, <1>5, <1>8, EmbedAssumption
  <2>2. PICK w \in fresh[t] : w.text = texts[t][n]
    BY <1>2, <2>1 DEF EmbedInv, TurnOf
  <2>3. w # v
    BY <1>2, <1>3, <1>5, <1>8, <2>1, <2>2, EmbedAssumption
  <2> QED BY <1>5, <2>2, <2>3
<1>9. fresh[t] = {v} => \A n \in DOMAIN found'[t] : found'[t][n] # NoVector
  BY <1>5, <1>8
<1>10. \A w \in fresh'[t] : w \in Vectors /\ w.by = place[t]
  BY <1>2, <1>5 DEF EmbedInv, TurnOf
<1>11. TurnOf(t)'
  BY <1>2, <1>3, <1>5, <1>7, <1>8, <1>9, <1>10 DEF TurnOf
<1> QED BY <1>4, <1>5, <1>6, <1>11, OtherTurns

LEMMA EmbedInvKept == EmbedInv /\ [EmbedNext]_embedVars => EmbedInv'
<1>1. CASE UNCHANGED embedVars
  BY <1>1 DEF embedVars, EmbedInv, EmbedShape, EntriesTrue, TurnOf
<1>2. ASSUME EmbedInv, EmbedNext PROVE EmbedInv'
  BY <1>2, AskKeeps, LookUpKeeps, ReadKeeps, KeepKeeps, EndKeepsVectors
     DEF EmbedNext, Refused, LetVectorsGo
<1> QED BY <1>1, <1>2

\* A turn that is given vectors is given one for each of its texts, of that text
\* and by a model of the name it asked, whatever the shared cache forgot or
\* gained between the steps (vectors of embed.rs).
THEOREM VectorsAreWhole == EmbedSpec => []VectorsWhole
<1>1. EmbedInv => VectorsWhole
  <2> SUFFICES ASSUME EmbedInv, NEW t \in Turns, asking[t] = "given",
                      NEW n \in DOMAIN texts[t]
               PROVE  /\ Len(found[t]) = Len(texts[t])
                      /\ found[t][n] # NoVector
                      /\ found[t][n].text = texts[t][n]
                      /\ LabelOf[found[t][n].by] = LabelOf[place[t]]
    BY DEF VectorsWhole, EmbedInv, TurnOf
  <2>1. found[t] \in Seq(Vectors \cup {NoVector}) /\ texts[t] \in Seq(Texts)
    BY DEF EmbedInv, EmbedShape
  <2>2. Len(found[t]) = Len(texts[t])
    BY DEF EmbedInv, TurnOf
  <2>3. n \in DOMAIN found[t]
    BY <2>1, <2>2
  <2> QED BY <2>2, <2>3 DEF EmbedInv, TurnOf, Fits
<1> QED BY <1>1, EmbedInvInitially, EmbedInvKept, PTL DEF EmbedSpec

-----------------------------------------------------------------------------
\* The engines of the models (ModelEngines).

\* The loads of one engine: none twice, and none of the other engine.
OwnLoads(s, k) ==
  /\ s \in Seq(Loads)
  /\ \A i, j \in DOMAIN s : s[i] = s[j] => i = j
  /\ \A i \in DOMAIN s : Keeper(RoleOf[s[i].model]) = k

SessionTrue ==
  session # NoModel => session \in Sessions /\ session.device \in {session.requested, "cpu"}

\* A device answers a wish for the processor only by it, and one for a card by none.
Answered(load, w) ==
  /\ load.model = w.model
  /\ w.on = "cpu" => load.device = "cpu"
  /\ w.on \in {"cuda", "gpu"} /\ w.role # "span" => load.device # "cpu"

ReadTrue(r) ==
  /\ readStep[r] \in {"idle", "found", "runs"}
  /\ readStep[r] # "idle" => wish[r] \in Wishes /\ wish[r].role = RoleOf[wish[r].model]
  /\ readStep[r] = "runs" => Answered(given[r], wish[r])

EnginesShape ==
  /\ usable \subseteq Carried /\ onDisk \subseteq Specs
  /\ DOMAIN readStep = Reads /\ DOMAIN wish = Reads /\ DOMAIN given = Reads
  /\ DOMAIN loaded = Keepers

EnginesInv ==
  /\ EnginesShape /\ SessionTrue
  /\ \A k \in Keepers : OwnLoads(loaded[k], k)
  /\ \A r \in Reads : ReadTrue(r)

LEMMA EnginesInvInitially == EnginesInit => EnginesInv
<1> SUFFICES ASSUME EnginesInit PROVE EnginesInv
  OBVIOUS
<1>1. /\ EnginesShape /\ SessionTrue
  BY EnginesAssumption DEF EnginesInit, EnginesShape, SessionTrue
<1>2. OwnLoads(<<>>, "local") /\ OwnLoads(<<>>, "laya")
  BY DEF OwnLoads
<1>3. \A k \in Keepers : OwnLoads(loaded[k], k)
  BY <1>2 DEF EnginesInit, Keepers
<1>4. \A r \in Reads : ReadTrue(r)
  BY DEF EnginesInit, ReadTrue
<1> QED BY <1>1, <1>3, <1>4 DEF EnginesInv

\* A wish for the processor has it, and one for a card has a card or nothing.
LEMMA DeviceAsked ==
  ASSUME usable \subseteq Carried, NEW on \in Preferences, NEW d \in ActiveDevice(on)
  PROVE  /\ d \in Devices
         /\ on = "cpu" => d = "cpu"
         /\ on \in {"cuda", "gpu"} => d # "cpu"
<1>1. BestDevice \in {"cuda", "gpu"}
  BY DEF BestDevice
<1>2. CASE on = "cpu"
  BY <1>2 DEF ActiveDevice, Devices
<1>3. CASE on = "auto"
  BY <1>1, <1>3 DEF ActiveDevice, Devices
<1>4. CASE on \in {"cuda", "gpu"}
  BY <1>1, <1>4 DEF ActiveDevice, Devices
<1> QED BY <1>2, <1>3, <1>4 DEF Preferences

\* An engine that makes room keeps what it keeps in its order.
LEMMA RoomMade ==
  ASSUME NEW k \in Keepers, OwnLoads(loaded[k], k)
  PROVE  OwnLoads(Room(k), k) /\ \A i \in DOMAIN Room(k) : \E j \in DOMAIN loaded[k] : Room(k)[i] = loaded[k][j]
<1> DEFINE s == loaded[k]
<1>1. s \in Seq(Loads) /\ Len(s) \in Nat /\ DOMAIN s = 1..Len(s)
  BY DEF OwnLoads
<1>2. MaxLoaded[k] \in Nat \ {0}
  BY EnginesAssumption
<1>3. CASE Len(s) >= MaxLoaded[k]
  <2>1. /\ Room(k) = Tail(s) /\ Len(s) \in Nat \ {0} /\ s # <<>>
    BY <1>1, <1>2, <1>3 DEF Room
  <2>2. /\ Tail(s) \in Seq(Loads) /\ DOMAIN Tail(s) = 1..(Len(s) - 1)
        /\ \A i \in 1..(Len(s) - 1) : Tail(s)[i] = s[i + 1] /\ i + 1 \in DOMAIN s
    BY <1>1, <2>1
  <2>3. ASSUME NEW i \in DOMAIN Tail(s), NEW j \in DOMAIN Tail(s), Tail(s)[i] = Tail(s)[j]
        PROVE  i = j
    <3>1. i + 1 = j + 1
      BY <2>2, <2>3 DEF OwnLoads
    <3> QED BY <1>1, <2>1, <2>2, <3>1
  <2> QED BY <2>1, <2>2, <2>3 DEF OwnLoads
<1>4. CASE ~(Len(s) >= MaxLoaded[k])
  BY <1>4 DEF Room
<1> QED BY <1>3, <1>4

\* A load that is new to its engine is kept once.
LEMMA LoadKept ==
  ASSUME NEW k \in Keepers, NEW s, OwnLoads(s, k), NEW load \in Loads,
         Keeper(RoleOf[load.model]) = k, \A i \in DOMAIN s : s[i] # load
  PROVE  OwnLoads(Append(s, load), k)
<1>1. /\ Append(s, load) \in Seq(Loads) /\ Len(s) \in Nat /\ DOMAIN s = 1..Len(s)
      /\ DOMAIN Append(s, load) = 1..(Len(s) + 1)
      /\ Append(s, load)[Len(s) + 1] = load
      /\ \A i \in 1..Len(s) : Append(s, load)[i] = s[i]
  BY DEF OwnLoads
<1>2. ASSUME NEW i \in DOMAIN Append(s, load), NEW j \in DOMAIN Append(s, load),
             Append(s, load)[i] = Append(s, load)[j]
      PROVE  i = j
  <2>1. CASE i = Len(s) + 1 \/ j = Len(s) + 1
    BY <1>1, <1>2, <2>1
  <2>2. CASE i \in 1..Len(s) /\ j \in 1..Len(s)
    BY <1>1, <1>2, <2>2 DEF OwnLoads
  <2> QED BY <1>1, <2>1, <2>2
<1>3. ASSUME NEW i \in DOMAIN Append(s, load)
      PROVE  Keeper(RoleOf[Append(s, load)[i].model]) = k
  <2>1. CASE i = Len(s) + 1
    BY <1>1, <2>1
  <2>2. CASE i \in 1..Len(s)
    BY <1>1, <2>2 DEF OwnLoads
  <2> QED BY <1>1, <2>1, <2>2
<1> QED BY <1>1, <1>2, <1>3 DEF OwnLoads

\* A step of one read leaves what the others asked and were given.
LEMMA OtherReads ==
  ASSUME EnginesInv, NEW r \in Reads, ReadTrue(r)', EnginesShape', SessionTrue',
         \A k \in Keepers : OwnLoads(loaded'[k], k),
         \A q \in Reads \ {r} : readStep'[q] = readStep[q] /\ wish'[q] = wish[q] /\ given'[q] = given[q]
  PROVE  EnginesInv'
BY DEF EnginesInv, ReadTrue

\* A read that ends, for whatever reason.
LEMMA LetEnds ==
  ASSUME EnginesInv, NEW r \in Reads, Let(r)
  PROVE  /\ ReadTrue(r)' /\ DOMAIN readStep' = Reads /\ DOMAIN wish' = Reads /\ DOMAIN given' = Reads
         /\ \A q \in Reads \ {r} : readStep'[q] = readStep[q] /\ wish'[q] = wish[q] /\ given'[q] = given[q]
BY DEF EnginesInv, EnginesShape, Let, ReadTrue

\* A read that runs has what it asked for.
LEMMA RunStarts ==
  ASSUME EnginesInv, NEW r \in Reads, readStep[r] = "found", NEW load, Run(r, load),
         UNCHANGED wish, Answered(load, wish[r])
  PROVE  /\ ReadTrue(r)' /\ DOMAIN readStep' = Reads /\ DOMAIN wish' = Reads /\ DOMAIN given' = Reads
         /\ \A q \in Reads \ {r} : readStep'[q] = readStep[q] /\ wish'[q] = wish[q] /\ given'[q] = given[q]
BY DEF EnginesInv, EnginesShape, Run, ReadTrue, Answered

LEMMA LookReads == ASSUME EnginesInv, NEW r \in Reads, Look(r) PROVE EnginesInv'
<1>1. PICK m \in onDisk, on \in Preferences :
        wish' = [wish EXCEPT ![r] = [model |-> m, role |-> RoleOf[m], on |-> on]]
  BY DEF Look
<1>2. [model |-> m, role |-> RoleOf[m], on |-> on] \in Wishes
  BY EnginesAssumption DEF EnginesInv, EnginesShape, Wishes
<1>3. readStep'[r] = "found" /\ wish'[r] \in Wishes /\ wish'[r].role = RoleOf[wish'[r].model]
  BY <1>1, <1>2 DEF Look, EnginesInv, EnginesShape
<1>4. ReadTrue(r)'
  BY <1>3 DEF ReadTrue
<1>5. EnginesShape' /\ SessionTrue' /\ \A k \in Keepers : OwnLoads(loaded'[k], k)
  BY <1>1 DEF Look, EnginesInv, EnginesShape, SessionTrue
<1>6. \A q \in Reads \ {r} : readStep'[q] = readStep[q] /\ wish'[q] = wish[q] /\ given'[q] = given[q]
  BY <1>1 DEF Look, EnginesInv, EnginesShape
<1> QED BY <1>4, <1>5, <1>6, OtherReads

LEMMA TakeReads == ASSUME EnginesInv, NEW r \in Reads, TakeReader(r) PROVE EnginesInv'
<1> DEFINE m == wish[r].model
           k == Keeper(wish[r].role)
<1>1. /\ readStep[r] = "found" /\ wish[r].role # "span" /\ UNCHANGED <<usable, onDisk, session>>
  BY DEF TakeReader
<1>2. /\ wish[r] \in Wishes /\ wish[r].role = RoleOf[m]
      /\ m \in Specs /\ wish[r].on \in Preferences /\ k \in Keepers
  <2>1. wish[r] \in Wishes /\ wish[r].role = RoleOf[m]
    BY <1>1 DEF EnginesInv, ReadTrue
  <2> QED BY <2>1 DEF Wishes, Keeper, Keepers
<1>3. SessionTrue'
  BY <1>1 DEF EnginesInv, SessionTrue
<1>4. PICK m0, k0 : m0 = m /\ k0 = k
  OBVIOUS
<1>5. /\ OwnLoads(loaded[k0], k0) /\ OwnLoads(Room(k0), k0) /\ k0 \in Keepers /\ m0 \in Specs
      /\ \A i \in DOMAIN Room(k0) : \E j \in DOMAIN loaded[k0] : Room(k0)[i] = loaded[k0][j]
      /\ Keeper(RoleOf[m0]) = k0
  BY <1>2, <1>4, RoomMade DEF EnginesInv
<1>6. \/ \E d \in ActiveDevice(wish[r].on) :
            \/ \E n \in Found(k0, m0, d) :
                 Run(r, loaded[k0][n]) /\ UNCHANGED <<loaded, wish>>
            \/ /\ Found(k0, m0, d) = {}
               /\ Load(k0, m0, d) /\ Run(r, On(m0, d)) /\ UNCHANGED wish
            \/ /\ loaded' = [loaded EXCEPT ![k0] = Room(k0)] /\ Let(r)
      \/ Let(r) /\ UNCHANGED loaded
  BY <1>4 DEF TakeReader
<1>7. CASE Let(r) /\ UNCHANGED loaded
  <2>1. EnginesShape' /\ \A q \in Keepers : OwnLoads(loaded'[q], q)
    BY <1>1, <1>7, LetEnds DEF EnginesInv, EnginesShape
  <2> QED BY <1>3, <1>7, <2>1, LetEnds, OtherReads
<1>8. ASSUME NEW d \in ActiveDevice(wish[r].on)
      PROVE  /\ On(m0, d) \in Loads /\ Answered(On(m0, d), wish[r])
             /\ On(m0, d).model = m0
  <2>1. /\ d \in Devices
        /\ wish[r].on = "cpu" => d = "cpu"
        /\ wish[r].on \in {"cuda", "gpu"} => d # "cpu"
    BY <1>2, DeviceAsked DEF EnginesInv, EnginesShape
  <2> QED BY <1>2, <1>4, <2>1 DEF On, Loads, Answered
<1>9. ASSUME NEW d \in ActiveDevice(wish[r].on),
             NEW n \in Found(k0, m0, d), Run(r, loaded[k0][n]), UNCHANGED <<loaded, wish>>
      PROVE  EnginesInv'
  <2>1. Answered(loaded[k0][n], wish[r])
    BY <1>8 DEF Found
  <2>2. /\ ReadTrue(r)' /\ DOMAIN readStep' = Reads /\ DOMAIN wish' = Reads /\ DOMAIN given' = Reads
        /\ \A q \in Reads \ {r} : readStep'[q] = readStep[q] /\ wish'[q] = wish[q] /\ given'[q] = given[q]
    BY <1>1, <1>9, <2>1, RunStarts
  <2>3. EnginesShape' /\ \A q \in Keepers : OwnLoads(loaded'[q], q)
    BY <1>1, <1>9, <2>2 DEF EnginesInv, EnginesShape
  <2> QED BY <1>3, <2>2, <2>3, OtherReads
<1>10. ASSUME NEW d \in ActiveDevice(wish[r].on), Found(k0, m0, d) = {},
              Load(k0, m0, d), Run(r, On(m0, d)), UNCHANGED wish
       PROVE  EnginesInv'
  <2>1. \A i \in DOMAIN Room(k0) : Room(k0)[i] # On(m0, d)
    BY <1>5, <1>10 DEF Found
  <2>2. OwnLoads(Append(Room(k0), On(m0, d)), k0)
    BY <1>5, <1>8, <2>1, LoadKept
  <2>3. /\ ReadTrue(r)' /\ DOMAIN readStep' = Reads /\ DOMAIN wish' = Reads /\ DOMAIN given' = Reads
        /\ \A q \in Reads \ {r} : readStep'[q] = readStep[q] /\ wish'[q] = wish[q] /\ given'[q] = given[q]
    BY <1>1, <1>8, <1>10, RunStarts
  <2>4. EnginesShape' /\ \A q \in Keepers : OwnLoads(loaded'[q], q)
    BY <1>1, <1>5, <1>10, <2>2, <2>3 DEF EnginesInv, EnginesShape, Load
  <2> QED BY <1>3, <2>3, <2>4, OtherReads
<1>11. CASE loaded' = [loaded EXCEPT ![k0] = Room(k0)] /\ Let(r)
  <2>1. EnginesShape' /\ \A q \in Keepers : OwnLoads(loaded'[q], q)
    BY <1>1, <1>5, <1>11, LetEnds DEF EnginesInv, EnginesShape
  <2> QED BY <1>3, <1>11, <2>1, LetEnds, OtherReads
<1> QED BY <1>6, <1>7, <1>9, <1>10, <1>11

LEMMA InferReads == ASSUME EnginesInv, NEW r \in Reads, Infer(r) PROVE EnginesInv'
<1> DEFINE m == wish[r].model
<1>1. /\ readStep[r] = "found" /\ wish[r].role = "span" /\ UNCHANGED <<usable, onDisk, loaded>>
  BY DEF Infer
<1>2. /\ wish[r] \in Wishes /\ m \in Specs /\ wish[r].on \in Preferences
  <2>1. wish[r] \in Wishes
    BY <1>1 DEF EnginesInv, ReadTrue
  <2> QED BY <2>1 DEF Wishes
<1>3. \A d \in ActiveDevice(wish[r].on) : d \in Devices /\ (wish[r].on = "cpu" => d = "cpu")
  BY <1>2, DeviceAsked DEF EnginesInv, EnginesShape
<1>4. CASE Let(r) /\ UNCHANGED session
  <2>1. EnginesShape' /\ SessionTrue' /\ \A q \in Keepers : OwnLoads(loaded'[q], q)
    BY <1>1, <1>4, LetEnds DEF EnginesInv, EnginesShape, SessionTrue
  <2> QED BY <1>4, <2>1, LetEnds, OtherReads
<1>5. ASSUME NEW made, session' = made, made \in Sessions, made.model = m,
             made.requested \in ActiveDevice(wish[r].on),
             made.device \in {made.requested, "cpu"},
             Run(r, made), UNCHANGED wish
      PROVE  EnginesInv'
  <2>1. Answered(made, wish[r])
    BY <1>1, <1>3, <1>5 DEF Answered
  <2>2. /\ ReadTrue(r)' /\ DOMAIN readStep' = Reads /\ DOMAIN wish' = Reads /\ DOMAIN given' = Reads
        /\ \A q \in Reads \ {r} : readStep'[q] = readStep[q] /\ wish'[q] = wish[q] /\ given'[q] = given[q]
    BY <1>1, <1>5, <2>1, RunStarts
  <2>3. EnginesShape' /\ \A q \in Keepers : OwnLoads(loaded'[q], q)
    BY <1>1, <2>2 DEF EnginesInv, EnginesShape
  <2>4. SessionTrue'
    BY <1>5 DEF SessionTrue
  <2> QED BY <2>2, <2>3, <2>4, OtherReads
<1>6. ASSUME NEW d \in ActiveDevice(wish[r].on), Current(m, d), UNCHANGED session,
             Run(r, session), UNCHANGED wish
      PROVE  EnginesInv'
  <2>1. /\ session \in Sessions /\ session.model = m /\ session.requested = d
        /\ session.device \in {session.requested, "cpu"}
    BY <1>6 DEF Current, EnginesInv, SessionTrue
  <2> QED BY <1>5, <1>6, <2>1
<1>7. ASSUME NEW d \in ActiveDevice(wish[r].on), NEW made \in LoadWorking(m, d),
             session' = made, Run(r, made), UNCHANGED wish
      PROVE  EnginesInv'
  <2>1. /\ made \in Sessions /\ made.model = m /\ made.requested = d
        /\ made.device \in {made.requested, "cpu"}
    BY <1>2, <1>3 DEF LoadWorking, Sessions, Devices
  <2> QED BY <1>5, <1>7, <2>1
<1> QED BY <1>4, <1>6, <1>7 DEF Infer

LEMMA EnginesInvKept == EnginesInv /\ [EnginesNext]_engineVars => EnginesInv'
<1>1. CASE UNCHANGED engineVars
  BY <1>1 DEF engineVars, EnginesInv, EnginesShape, SessionTrue, ReadTrue
<1>2. ASSUME EnginesInv, NEW r \in Reads, EndRead(r) PROVE EnginesInv'
  <2>1. Let(r) /\ UNCHANGED <<usable, onDisk, loaded, session>>
    BY <1>2 DEF EndRead
  <2>2. EnginesShape' /\ SessionTrue' /\ \A q \in Keepers : OwnLoads(loaded'[q], q)
    BY <1>2, <2>1, LetEnds DEF EnginesInv, EnginesShape, SessionTrue
  <2> QED BY <1>2, <2>1, <2>2, LetEnds, OtherReads
<1>3. ASSUME EnginesInv, ChangeDevices \/ ChangeFiles PROVE EnginesInv'
  <2>1. EnginesShape'
    BY <1>3, EnginesAssumption DEF ChangeDevices, ChangeFiles, EnginesInv, EnginesShape
  <2> QED BY <1>3, <2>1 DEF ChangeDevices, ChangeFiles, EnginesInv, SessionTrue, ReadTrue
<1> QED BY <1>1, <1>2, <1>3, LookReads, TakeReads, InferReads DEF EnginesNext

\* A read is answered by the model and on a device it asked for, whatever other
\* reads loaded meanwhile, and no engine loads a model twice for one device or
\* one of the other engine (active_device, load_working, the engines).
THEOREM ReadsAreAsAsked == EnginesSpec => []ReadsAsAsked
<1>1. EnginesInv => ReadsAsAsked
  BY DEF EnginesInv, ReadTrue, Answered, OwnLoads, ReadsAsAsked, IsInjective, ToSet
<1> QED BY <1>1, EnginesInvInitially, EnginesInvKept, PTL DEF EnginesSpec

-----------------------------------------------------------------------------
\* The answer of the language model (ModelAnswer).

\* The tokens but the last one of an object.
PlainTokens ==
  {<<"open">>, <<"comma">>, Quote, Word, <<"answer">>, <<"script">>}
    \cup {Letter(n) : n \in Nat} \cup {<<"number", r>> : r \in Int}
    \cup {<<"key", k>> : k \in {"choice", "reason", "answer", "rating", "script", "summary"}}

\* What the model means to write when the server keeps it inside the schema.
MeantSchema ==
  /\ kind \in {"choice", "need", "script", "words"} /\ options \in Nat
  /\ kind = "choice" => options >= 1 /\ meant \in Schema("choice", options)
  /\ kind \in {"need", "script"} => meant \in Schema(kind, 0)
  /\ kind = "words" => meant \in Sentences
  /\ upto \in Nat /\ upto <= Len(Whole)

AnswerReadInv ==
  /\ ask \in {"idle", "writing", "written", "lost", "read"}
  /\ ask = "idle" => kind = "words" /\ options = 0 /\ upto = 0 /\ thought = <<>>
  /\ ask # "read" => got = NoAnswer
  /\ follows /\ ask \in {"writing", "written"} => MeantSchema
  /\ follows /\ ask = "read" /\ got # NoAnswer => MeantSchema /\ got = Parse(Content)
  /\ thought \in Seq(PlainTokens)

LEMMA PlainOnes ==
  /\ Quote \in PlainTokens /\ Word \in PlainTokens
  /\ <<"open">> \in PlainTokens /\ <<"comma">> \in PlainTokens
  /\ <<"answer">> \in PlainTokens /\ <<"script">> \in PlainTokens
  /\ \A k \in Nat : Letter(k) \in PlainTokens
  /\ \A r \in Int : <<"number", r>> \in PlainTokens
  /\ \A t \in PlainTokens : t # <<"close">>
BY DEF PlainTokens, Quote, Word, Letter

LEMMA SentencesPlain ==
  /\ \A s \in Sentences : s \in Seq(PlainTokens)
  /\ \A n \in Nat : \A s \in Reasons(n) : s \in Seq(PlainTokens)
  /\ \A c \in Needs : c \in Seq(PlainTokens)
<1>1. PICK T, w : T = PlainTokens /\ w = Word
  OBVIOUS
<1>2. w \in T /\ <<"answer">> \in T /\ <<"script">> \in T /\ \A k \in Nat : Letter(k) \in T
  BY <1>1, PlainOnes
<1>3. \A t \in T : <<t>> \in Seq(T) /\ <<t, w>> \in Seq(T)
  BY <1>2
<1>4. <<>> \in Seq(T)
  OBVIOUS
<1>5. \A s \in Sentences : s = <<>> \/ s = <<w>> \/ s = <<w, w>>
  BY <1>1 DEF Sentences
<1>6. \A s \in Sentences : s \in Seq(T)
  BY <1>2, <1>3, <1>4, <1>5
<1>7. ASSUME NEW n \in Nat, NEW s \in Reasons(n) PROVE s \in Seq(T)
  <2>1. s \in Sentences \/ \E k \in 1..n : s = <<Letter(k)>> \/ s = <<Letter(k), w>>
    BY <1>1 DEF Reasons
  <2>2. \A k \in 1..n : Letter(k) \in T
    BY <1>2
  <2> QED BY <1>3, <1>6, <2>1, <2>2
<1>8. \A c \in Needs : c = <<<<"answer">>>> \/ c = <<<<"script">>>>
  BY DEF Needs
<1>9. \A c \in Needs : c \in Seq(T)
  BY <1>2, <1>3, <1>8
<1> QED BY <1>1, <1>6, <1>7, <1>9

LEMMA FieldPlain ==
  ASSUME NEW fields, NEW n \in 1..3, n \in DOMAIN fields =>
           fields[n].tokens \in Seq(PlainTokens)
             /\ fields[n].key \in {"choice", "reason", "answer", "rating", "script", "summary"}
  PROVE  FieldTokens(fields, n) \in Seq(PlainTokens)
<1>1. PICK T : T = PlainTokens
  OBVIOUS
<1>2. <<"comma">> \in T
  BY <1>1, PlainOnes
<1>3. CASE n \notin DOMAIN fields
  BY <1>1, <1>3 DEF FieldTokens
<1>4. CASE n \in DOMAIN fields
  <2>1. PICK key, body : key = <<"key", fields[n].key>> /\ body = fields[n].tokens
    OBVIOUS
  <2>2. key \in T /\ body \in Seq(T)
    BY <1>1, <1>4, <2>1 DEF PlainTokens
  <2>3. PICK comma : comma = IF n = 1 THEN <<>> ELSE <<<<"comma">>>>
    OBVIOUS
  <2>4. comma \in Seq(T)
    BY <1>2, <2>3
  <2>5. FieldTokens(fields, n) = comma \o <<key>> \o body
    BY <1>4, <2>1, <2>3 DEF FieldTokens
  <2> QED BY <1>1, <2>2, <2>4, <2>5
<1> QED BY <1>3, <1>4

\* An object ends with its last brace, and has no other.
LEMMA ObjectEnds ==
  ASSUME NEW fields, \A n \in 1..3 : n \in DOMAIN fields =>
           fields[n].tokens \in Seq(PlainTokens)
             /\ fields[n].key \in {"choice", "reason", "answer", "rating", "script", "summary"}
  PROVE  \E body \in Seq(PlainTokens) : ObjectTokens(fields) = body \o <<<<"close">>>>
<1>1. PICK T : T = PlainTokens
  OBVIOUS
<1>2. PICK open : open = <<<<"open">>>>
  OBVIOUS
<1>3. open \in Seq(T)
  BY <1>1, <1>2, PlainOnes
<1>4. PICK a, b, c : a = FieldTokens(fields, 1) /\ b = FieldTokens(fields, 2) /\ c = FieldTokens(fields, 3)
  OBVIOUS
<1>5. \A n \in 1..3 : FieldTokens(fields, n) \in Seq(PlainTokens)
  BY FieldPlain
<1>6. 1 \in 1..3 /\ 2 \in 1..3 /\ 3 \in 1..3
  OBVIOUS
<1>7. a \in Seq(T) /\ b \in Seq(T) /\ c \in Seq(T)
  BY <1>1, <1>4, <1>5, <1>6
<1>8. open \o a \o b \o c \in Seq(T)
  BY <1>3, <1>7
<1>9. ObjectTokens(fields) = (open \o a \o b \o c) \o <<<<"close">>>>
  BY <1>2, <1>4 DEF ObjectTokens
<1> QED BY <1>1, <1>8, <1>9

LEMMA QuotedPlain ==
  ASSUME NEW s \in Seq(PlainTokens)
  PROVE  <<Quote>> \o s \o <<Quote>> \in Seq(PlainTokens)
<1>1. PICK T, q : T = PlainTokens /\ q = Quote
  OBVIOUS
<1>2. q \in T
  BY <1>1, PlainOnes
<1> QED BY <1>1, <1>2

\* What a schema allows is written as one object.
LEMMA SchemaEnds ==
  ASSUME NEW what \in {"choice", "need", "script"}, NEW n \in Nat, NEW fields \in Schema(what, n)
  PROVE  \E body \in Seq(PlainTokens) : ObjectTokens(fields) = body \o <<<<"close">>>>
<1>1. \A m \in 1..3 : m \in DOMAIN fields =>
        fields[m].tokens \in Seq(PlainTokens)
          /\ fields[m].key \in {"choice", "reason", "answer", "rating", "script", "summary"}
  <2>1. CASE what = "choice"
    <3>1. PICK k \in 1..n, s \in Reasons(n) : fields = <<Choice(k), Text("reason", s)>>
      BY <2>1 DEF Schema
    <3>2. k \in Nat
      OBVIOUS
    <3>3. s \in Seq(PlainTokens)
      BY SentencesPlain
    <3>4. PICK c, r : c = <<Quote>> \o <<Letter(k)>> \o <<Quote>> /\ r = <<Quote>> \o s \o <<Quote>>
      OBVIOUS
    <3>5. <<Letter(k)>> \in Seq(PlainTokens)
      <4>1. PICK T, l : T = PlainTokens /\ l = Letter(k)
        OBVIOUS
      <4>2. l \in T
        BY <3>2, <4>1, PlainOnes
      <4> QED BY <4>1, <4>2
    <3>6. c \in Seq(PlainTokens) /\ r \in Seq(PlainTokens)
      BY <3>3, <3>4, <3>5, QuotedPlain
    <3>7. fields = <<[key |-> "choice", tokens |-> c], [key |-> "reason", tokens |-> r]>>
      BY <3>1, <3>4 DEF Choice, Text, Field
    <3> QED BY <3>6, <3>7
  <2>2. CASE what = "need"
    <3>1. PICK s \in Sentences, c \in Needs : fields = <<Text("answer", s), Text("choice", c)>>
      BY <2>2 DEF Schema
    <3>2. PICK a, b : a = <<Quote>> \o s \o <<Quote>> /\ b = <<Quote>> \o c \o <<Quote>>
      OBVIOUS
    <3>3. a \in Seq(PlainTokens) /\ b \in Seq(PlainTokens)
      BY <3>2, SentencesPlain, QuotedPlain
    <3>4. fields = <<[key |-> "answer", tokens |-> a], [key |-> "choice", tokens |-> b]>>
      BY <3>1, <3>2 DEF Text, Field
    <3> QED BY <3>3, <3>4
  <2>3. CASE what = "script"
    <3>1. PICK r \in 0..MaxRating, s \in Sentences, t \in Sentences :
            fields = <<Rating(r), Text("script", s), Text("summary", t)>>
      BY <2>3 DEF Schema
    <3>2. PICK a, b, c : /\ a = <<<<"number", r>>>> /\ b = <<Quote>> \o s \o <<Quote>>
                         /\ c = <<Quote>> \o t \o <<Quote>>
      OBVIOUS
    <3>3. b \in Seq(PlainTokens) /\ c \in Seq(PlainTokens)
      BY <3>2, SentencesPlain, QuotedPlain
    <3>4. a \in Seq(PlainTokens)
      <4>1. PICK T, l : T = PlainTokens /\ l = <<"number", r>>
        OBVIOUS
      <4>2. r \in Int /\ l \in T
        BY <4>1, ChoiceAssumption, PlainOnes
      <4> QED BY <3>2, <4>1, <4>2
    <3>5. fields = <<[key |-> "rating", tokens |-> a], [key |-> "script", tokens |-> b],
                    [key |-> "summary", tokens |-> c]>>
      BY <3>1, <3>2 DEF Rating, Text, Field
    <3> QED BY <3>3, <3>4, <3>5
  <2> QED BY <2>1, <2>2, <2>3
<1> QED BY <1>1, ObjectEnds

\* An object that does not end with a brace was cut, and one that does is whole.
LEMMA CutOrWhole ==
  ASSUME MeantSchema, kind # "words"
  PROVE  /\ \E body \in Seq(PlainTokens) : Whole = body \o <<<<"close">>>>
         /\ Complete(Content) => Content = Whole
<1>1. \E n \in Nat : kind \in {"choice", "need", "script"} /\ meant \in Schema(kind, n)
  BY DEF MeantSchema
<1>2. PICK body \in Seq(PlainTokens) : Whole = body \o <<<<"close">>>>
  BY <1>1, SchemaEnds DEF Whole
<1>3. PICK T, close, all : T = PlainTokens /\ close = <<"close">> /\ all = Whole
  OBVIOUS
<1>4. close \notin T
  BY <1>3, PlainOnes
<1>5. body \in Seq(T) /\ all = body \o <<close>> /\ upto \in Nat /\ upto <= Len(all)
  BY <1>2, <1>3 DEF MeantSchema
<1>6. all \in Seq(T \cup {close}) /\ Len(all) = Len(body) + 1
      /\ \A n \in 1..Len(body) : all[n] = body[n]
  BY <1>5
<1>7. ASSUME Complete(Content) PROVE Content = Whole
  <2>1. PICK begun : begun = SubSeq(all, 1, upto)
    OBVIOUS
  <2>2. Content = begun
    BY <1>3, <2>1 DEF Content
  <2>3. begun # <<>> /\ begun[Len(begun)] = close
    BY <1>3, <1>7, <2>2 DEF Complete, Last
  <2>4. begun \in Seq(T \cup {close}) /\ Len(begun) = upto /\ \A n \in 1..upto : begun[n] = all[n]
    BY <1>5, <1>6, <2>1
  <2>5. upto >= 1 /\ all[upto] = close
    BY <1>5, <2>3, <2>4
  <2>6. ~(upto <= Len(body))
    BY <1>4, <1>5, <1>6, <2>5
  <2>7. upto = Len(all)
    BY <1>5, <1>6, <2>6
  <2>8. begun = all
    BY <1>6, <2>1, <2>7
  <2> QED BY <1>3, <2>2, <2>8
<1> QED BY <1>2, <1>7

LEMMA OneBefore ==
  ASSUME NEW U, NEW a \in Seq(U), Len(a) = 1, NEW b \in Seq(U)
  PROVE  /\ a \o b \in Seq(U) /\ Len(a \o b) = Len(b) + 1 /\ (a \o b)[1] = a[1]
         /\ \A n \in 1..Len(b) : (a \o b)[n + 1] = b[n]
<1>1. a \o b \in Seq(U)
  OBVIOUS
<1>2. Len(b) \in Nat /\ Len(a \o b) = Len(b) + 1
  <2>1. Len(b) \in Nat
    OBVIOUS
  <2>2. Len(a \o b) = Len(a) + Len(b)
    BY ConcatProperties
  <2> QED BY <2>1, <2>2
<1>4. (a \o b)[1] = a[1]
  BY <1>2
<1>3. ASSUME NEW n \in 1..Len(b) PROVE (a \o b)[n + 1] = b[n]
  <2>1. n + 1 \in 1..(Len(b) + 1) /\ ~(n + 1 <= 1) /\ (n + 1) - 1 = n
    BY <1>2
  <2> QED BY <1>2, <2>1
<1> QED BY <1>1, <1>2, <1>3, <1>4

\* A choice is written before the reason, so its letter is the fourth token.
LEMMA ChoiceStarts ==
  ASSUME MeantSchema, kind = "choice"
  PROVE  \E k \in 1..options :
           /\ Has("choice") /\ Value("choice") = <<Letter(k)>>
           /\ \E rest \in Seq(PlainTokens \cup {<<"close">>}) :
                Whole = <<<<"open">>, <<"key", "choice">>, Quote, Letter(k), Quote>> \o rest
<1>1. PICK k \in 1..options, s \in Reasons(options) : meant = <<Choice(k), Text("reason", s)>>
  BY DEF MeantSchema, Schema
<1>2. k \in Nat /\ options \in Nat
  BY DEF MeantSchema
<1>3. PICK q, l, c, r : /\ q = Quote /\ l = Letter(k)
                        /\ c = <<q>> \o <<l>> \o <<q>> /\ r = <<q>> \o s \o <<q>>
  OBVIOUS
<1>4. meant = <<[key |-> "choice", tokens |-> c], [key |-> "reason", tokens |-> r]>>
  BY <1>1, <1>3 DEF Choice, Text, Field
<1>5. c = <<q, l, q>>
  <2>1. PICK U : q \in U /\ l \in U
    <3> WITNESS {q, l}
    <3> QED OBVIOUS
  <2>2. <<q>> \in Seq(U) /\ <<l>> \in Seq(U)
    BY <2>1
  <2>3. c \in Seq(U) /\ Len(c) = 3 /\ c[1] = q /\ c[2] = l /\ c[3] = q
    BY <1>3, <2>1, <2>2
  <2> QED BY <2>1, <2>3
<1>6. DOMAIN meant = 1..2 /\ meant[1].key = "choice" /\ meant[1].tokens = c
      /\ meant[2].key = "reason" /\ meant[2].tokens = r
  BY <1>4
<1>7. Has("choice") /\ Value("choice") = <<l>>
  <2>1. Has("choice")
    BY <1>6 DEF Has
  <2>2. (CHOOSE n \in DOMAIN meant : meant[n].key = "choice") = 1
    BY <1>6
  <2>3. Value("choice") = Bare(c)
    BY <1>6, <2>1, <2>2 DEF Value
  <2>4. Len(c) = 3 /\ c[1] = q /\ c[2] = l
    BY <1>5
  <2>5. SubSeq(c, 2, Len(c) - 1) = <<l>>
    <3>1. PICK U : q \in U /\ l \in U
      <4> WITNESS {q, l}
      <4> QED OBVIOUS
    <3>2. c \in Seq(U)
      BY <1>5, <3>1
    <3>3. PICK d : d = SubSeq(c, 2, 2)
      OBVIOUS
    <3>4. d \in Seq(U) /\ Len(d) = 1 /\ d[1] = c[2]
      BY <2>4, <3>2, <3>3
    <3>5. d = <<l>>
      BY <2>4, <3>4
    <3>6. 3 - 1 = 2
      OBVIOUS
    <3> QED BY <2>4, <3>3, <3>5, <3>6
  <2>6. Bare(c) = <<l>>
    BY <1>3, <2>4, <2>5 DEF Bare
  <2> QED BY <2>1, <2>3, <2>6
<1>8. PICK T, close, open, key, comma, other :
        /\ T = PlainTokens /\ close = <<"close">> /\ open = <<"open">> /\ comma = <<"comma">>
        /\ key = <<"key", "choice">> /\ other = <<"key", "reason">>
  OBVIOUS
<1>9. comma \in T /\ other \in T
  BY <1>8, PlainOnes DEF PlainTokens
<1>10. r \in Seq(T)
  BY <1>2, <1>3, <1>8, SentencesPlain, QuotedPlain
<1>11. FieldTokens(meant, 1) = <<>> \o <<key>> \o c /\ FieldTokens(meant, 2) = <<comma>> \o <<other>> \o r
       /\ FieldTokens(meant, 3) = <<>>
  BY <1>6, <1>8 DEF FieldTokens
<1>12. Whole = <<open>> \o (<<>> \o <<key>> \o c) \o (<<comma>> \o <<other>> \o r) \o <<>> \o <<close>>
  BY <1>8, <1>11 DEF Whole, ObjectTokens
<1>13. PICK rest : rest = <<comma>> \o <<other>> \o r \o <<close>>
  OBVIOUS
<1>14. rest \in Seq(T \cup {close})
  BY <1>9, <1>10, <1>13
<1>15. <<open>> \o (<<>> \o <<key>> \o c) = <<open, key, q, l, q>>
  <2>1. PICK U : q \in U /\ l \in U /\ open \in U /\ key \in U
    <3> WITNESS {q, l, open, key}
    <3> QED OBVIOUS
  <2>2. PICK a, b : a = <<open>> /\ b = <<key>>
    OBVIOUS
  <2>3. /\ a \in Seq(U) /\ b \in Seq(U) /\ Len(a) = 1 /\ Len(b) = 1 /\ a[1] = open /\ b[1] = key
        /\ c \in Seq(U) /\ Len(c) = 3 /\ c[1] = q /\ c[2] = l /\ c[3] = q
    BY <1>5, <2>1, <2>2
  <2>4. <<>> \o b = b
    BY <2>3
  <2>5. PICK e : e = b \o c
    OBVIOUS
  <2>6. e \in Seq(U) /\ Len(e) = 4 /\ e[1] = key /\ e[2] = q /\ e[3] = l /\ e[4] = q
    <3>1. e \in Seq(U) /\ Len(e) = 4 /\ e[1] = key /\ \A n \in 1..3 : e[n + 1] = c[n]
      <4>1. e = b \o c /\ Len(c) = 3 /\ b[1] = key
        BY <2>3, <2>5
      <4>3. b \in Seq(U) /\ Len(b) = 1 /\ c \in Seq(U)
        BY <2>3
      <4>2. /\ b \o c \in Seq(U) /\ Len(b \o c) = Len(c) + 1 /\ (b \o c)[1] = b[1]
            /\ \A n \in 1..Len(c) : (b \o c)[n + 1] = c[n]
        BY ONLY <4>3, OneBefore
      <4> QED BY <4>1, <4>2
    <3>2. 1 \in 1..3 /\ 2 \in 1..3 /\ 3 \in 1..3 /\ 1 + 1 = 2 /\ 2 + 1 = 3 /\ 3 + 1 = 4
      OBVIOUS
    <3>3. e[2] = c[1] /\ e[3] = c[2] /\ e[4] = c[3]
      BY <3>1, <3>2
    <3> QED BY <2>3, <3>1, <3>3
  <2>7. PICK d : d = a \o e
    OBVIOUS
  <2>8. d \in Seq(U) /\ Len(d) = 5 /\ d[1] = open /\ d[2] = key /\ d[3] = q /\ d[4] = l /\ d[5] = q
    <3>1. d \in Seq(U) /\ Len(d) = 5 /\ d[1] = open /\ \A n \in 1..4 : d[n + 1] = e[n]
      <4>1. d = a \o e /\ Len(e) = 4 /\ a[1] = open
        BY <2>3, <2>6, <2>7
      <4>3. a \in Seq(U) /\ Len(a) = 1 /\ e \in Seq(U)
        BY <2>3, <2>6
      <4>2. /\ a \o e \in Seq(U) /\ Len(a \o e) = Len(e) + 1 /\ (a \o e)[1] = a[1]
            /\ \A n \in 1..Len(e) : (a \o e)[n + 1] = e[n]
        BY ONLY <4>3, OneBefore
      <4> QED BY <4>1, <4>2
    <3>2. 1 \in 1..4 /\ 2 \in 1..4 /\ 3 \in 1..4 /\ 4 \in 1..4
          /\ 1 + 1 = 2 /\ 2 + 1 = 3 /\ 3 + 1 = 4 /\ 4 + 1 = 5
      OBVIOUS
    <3>3. d[2] = e[1] /\ d[3] = e[2] /\ d[4] = e[3] /\ d[5] = e[4]
      BY <3>1, <3>2
    <3> QED BY <2>6, <3>1, <3>3
  <2>9. d = <<open, key, q, l, q>>
    BY <2>1, <2>8
  <2> QED BY <2>2, <2>4, <2>5, <2>7, <2>9
<1>16. (<<comma>> \o <<other>> \o r) \o <<>> \o <<close>> = rest
  BY <1>9, <1>10, <1>13
<1>17. Whole = <<open, key, q, l, q>> \o rest
  <2>1. PICK a, b, e : /\ a = <<open, key, q, l, q>> /\ b = <<comma>> \o <<other>> \o r
                       /\ e = <<close>>
    OBVIOUS
  <2>2. PICK U : U = T \cup {close, open, key, q, l}
    OBVIOUS
  <2>3. a \in Seq(U) /\ b \in Seq(U) /\ e \in Seq(U)
    <3>1. r \in Seq(U) /\ comma \in U /\ other \in U
      BY <1>9, <1>10, <2>2
    <3> QED BY <2>1, <2>2, <3>1
  <2>4. Whole = a \o b \o <<>> \o e /\ rest = b \o <<>> \o e
    BY <1>12, <1>15, <1>16, <2>1
  <2>5. a \o b \o <<>> \o e = a \o (b \o <<>> \o e)
    BY <2>3
  <2> QED BY <2>1, <2>4, <2>5
<1> QED BY <1>3, <1>7, <1>8, <1>14, <1>17

\* A choice is read from any beginning that holds its letter in quotes, and from
\* no other; the confidence is read at that letter.
LEMMA ChoiceRead ==
  ASSUME MeantSchema, kind = "choice", thought \in Seq(PlainTokens)
  PROVE  \E k \in 1..options :
           /\ ParseChoice(Whole) = k /\ ParseChoice(Content) \in {NoAnswer, k}
           /\ ParseChoice(Content) # NoAnswer /\ ~LettersThought =>
                LogTokens(Whole)[ReadAt(Content)] = Letter(k)
<1>1. PICK k \in 1..options :
           /\ Has("choice") /\ Value("choice") = <<Letter(k)>>
           /\ \E rest \in Seq(PlainTokens \cup {<<"close">>}) :
                Whole = <<<<"open">>, <<"key", "choice">>, Quote, Letter(k), Quote>> \o rest
  BY ChoiceStarts
<1>2. k \in Nat /\ Value("choice")[1][2] = k
  BY <1>1 DEF MeantSchema, Letter
<1>3. PICK T, all, begun, open, key, l, q :
        /\ T = PlainTokens \cup {<<"close">>} /\ all = Whole /\ begun = Content
        /\ open = <<"open">> /\ key = <<"key", "choice">> /\ l = Letter(k) /\ q = Quote
  OBVIOUS
<1>4. open \in T /\ key \in T /\ l \in T /\ q \in T
  BY <1>2, <1>3, PlainOnes DEF PlainTokens
<1>5. /\ all \in Seq(T) /\ Len(all) >= 5 /\ Len(all) \in Nat
      /\ all[1] = open /\ all[2] = key /\ all[3] = q /\ all[4] = l /\ all[5] = q
  <2>1. PICK rest \in Seq(T) : all = <<open, key, q, l, q>> \o rest
    BY <1>1, <1>3
  <2> QED BY <1>4, <2>1
<1>6. /\ begun \in Seq(T) /\ Len(begun) = upto /\ upto \in Nat /\ upto <= Len(all)
      /\ \A n \in 1..upto : begun[n] = all[n]
  BY <1>3, <1>5 DEF MeantSchema, Content
<1>7. Complete(Content) => Content = Whole
  BY CutOrWhole
<1>8. Complete(Whole)
  <2>1. PICK body \in Seq(PlainTokens) : Whole = body \o <<<<"close">>>>
    BY CutOrWhole
  <2>2. Whole # <<>> /\ Whole[Len(Whole)] = <<"close">>
    BY <2>1
  <2> QED BY <2>2 DEF Complete, Last
<1>9. ParseChoice(Whole) = k
  BY <1>1, <1>2, <1>8 DEF ParseChoice
<1>10. open # q /\ key # q
  BY <1>3 DEF Quote
<1>11. \A j \in Nat : \A p \in QuotedAt(Content, j) :
         p \in Nat /\ p >= 4 /\ p < upto /\ (p = 4 => j = k)
  <2> SUFFICES ASSUME NEW j \in Nat, NEW p \in QuotedAt(Content, j)
               PROVE  p \in Nat /\ p >= 4 /\ p < upto /\ (p = 4 => j = k)
    OBVIOUS
  <2>1. p \in 2..(upto - 1) /\ begun[p - 1] = q /\ begun[p] = Letter(j)
    BY <1>3, <1>6 DEF QuotedAt
  <2>2. p - 1 \in 1..upto /\ p \in 1..upto
    BY <1>6, <2>1
  <2>3. all[p - 1] = q /\ all[p] = Letter(j)
    BY <1>6, <2>1, <2>2
  <2>4. p - 1 # 1 /\ p - 1 # 2
    BY <1>5, <1>10, <2>3
  <2>5. p = 4 => Letter(j) = Letter(k)
    BY <1>3, <1>5, <2>3
  <2> QED BY <1>6, <2>1, <2>4, <2>5 DEF Letter
<1>12. upto >= 5 => 4 \in QuotedAt(Content, k)
  <2> SUFFICES ASSUME upto >= 5 PROVE 4 \in QuotedAt(Content, k)
    OBVIOUS
  <2>1. 4 \in 2..(Len(begun) - 1) /\ begun[3] = q /\ begun[4] = l /\ begun[5] = q
    BY <1>5, <1>6
  <2>2. 4 - 1 = 3 /\ 4 + 1 = 5
    OBVIOUS
  <2> QED BY <1>3, <2>1, <2>2 DEF QuotedAt
<1>13. FirstQuotedLetter(Content) \in {NoAnswer, k}
       /\ (FirstQuotedLetter(Content) # NoAnswer => upto >= 5)
  <2>1. options \in Nat /\ \A j \in 1..options : j \in Nat
    BY DEF MeantSchema
  <2>2. Shown(Content) # {} => upto >= 5
    <3> SUFFICES ASSUME NEW j \in Shown(Content) PROVE upto >= 5
      OBVIOUS
    <3>1. j \in Nat /\ QuotedAt(Content, j) # {}
      BY <2>1 DEF Shown
    <3>2. PICK p \in QuotedAt(Content, j) : TRUE
      BY <3>1
    <3> QED BY <1>6, <1>11, <3>1, <3>2
  <2>3. ASSUME upto >= 5 PROVE FirstQuotedLetter(Content) = k
    <3> DEFINE IsFirst(i) == \E p \in QuotedAt(Content, i) :
                               \A j \in Shown(Content) : \A m \in QuotedAt(Content, j) : p <= m
    <3>1. k \in Shown(Content)
      BY <1>12, <2>3 DEF Shown
    <3>2. IsFirst(k)
      <4>1. \A j \in Shown(Content) : \A m \in QuotedAt(Content, j) : 4 <= m
        BY <1>11, <2>1 DEF Shown
      <4> QED BY <1>12, <2>3, <4>1
    <3>3. ASSUME NEW i \in Shown(Content), IsFirst(i) PROVE i = k
      <4>1. PICK p \in QuotedAt(Content, i) : \A m \in QuotedAt(Content, k) : p <= m
        BY <3>1, <3>3
      <4>2. i \in Nat
        BY <2>1 DEF Shown
      <4>3. p <= 4 /\ p \in Nat /\ p >= 4 /\ (p = 4 => i = k)
        BY <1>11, <1>12, <2>3, <4>1, <4>2
      <4> QED BY <4>3
    <3>4. FirstQuotedLetter(Content) = CHOOSE i \in Shown(Content) : IsFirst(i)
      BY <3>1 DEF FirstQuotedLetter
    <3> HIDE DEF IsFirst
    <3> QED BY <3>1, <3>2, <3>3, <3>4
  <2>4. Shown(Content) = {} => FirstQuotedLetter(Content) = NoAnswer
    BY DEF FirstQuotedLetter
  <2> QED BY <2>2, <2>3, <2>4
<1>14. Complete(Content) => upto >= 5
  BY <1>3, <1>5, <1>6, <1>7
<1>15. ParseChoice(Content) \in {NoAnswer, k} /\ (ParseChoice(Content) # NoAnswer => upto >= 5)
  BY <1>1, <1>2, <1>13, <1>14 DEF ParseChoice
<1>16. ASSUME upto >= 5, ~LettersThought PROVE LogTokens(Whole)[ReadAt(Content)] = Letter(k)
  <2>1. PICK log, told : log = LogTokens(Content) /\ told = LogTokens(Whole)
    OBVIOUS
  <2>2. log = thought \o begun /\ told = thought \o all /\ thought \in Seq(T)
    BY <1>3, <2>1 DEF LogTokens
  <2>3. PICK n \in Nat : n = Len(thought)
    BY <2>2
  <2>4. /\ DOMAIN log = 1..(n + upto)
        /\ \A p \in 1..n : log[p] = thought[p]
        /\ \A p \in 1..upto : log[n + p] = begun[p]
    BY <1>6, <2>2, <2>3
  <2>5. log[n + 1] = open /\ log[n + 2] = key /\ log[n + 3] = q /\ log[n + 4] = l
    <3>1. 1 \in 1..upto /\ 2 \in 1..upto /\ 3 \in 1..upto /\ 4 \in 1..upto
      BY <1>6, <1>16
    <3>2. begun[1] = open /\ begun[2] = key /\ begun[3] = q /\ begun[4] = l
      BY <1>5, <1>6, <3>1
    <3> QED BY <2>4, <3>1, <3>2
  <2>6. ~IsLetter(open) /\ ~IsLetter(key) /\ ~IsLetter(q) /\ IsLetter(l)
    BY <1>3 DEF IsLetter, Quote, Letter
  <2>7. \A p \in 1..n : ~IsLetter(log[p])
    BY <1>16, <2>2, <2>3, <2>4 DEF LettersThought
  <2> DEFINE at == {p \in DOMAIN log : IsLetter(log[p])}
  <2>8. n + 4 \in at
    BY <1>6, <1>16, <2>4, <2>5, <2>6
  <2>9. \A p \in at : p \in Nat /\ n + 4 <= p
    <3> SUFFICES ASSUME NEW p \in at PROVE p \in Nat /\ n + 4 <= p
      OBVIOUS
    <3>1. p \in 1..(n + upto) /\ IsLetter(log[p])
      BY <2>4
    <3>2. p # n + 1 /\ p # n + 2 /\ p # n + 3 /\ p \notin 1..n
      BY <2>5, <2>6, <2>7, <3>1
    <3> QED BY <2>3, <3>1, <3>2
  <2>10. ReadAt(Content) = CHOOSE p \in at : \A m \in at : p <= m
    BY <2>1, <2>8 DEF ReadAt
  <2> HIDE DEF at
  <2>11. ReadAt(Content) = n + 4
    <3>1. \A p \in at : (\A m \in at : p <= m) => p = n + 4
      BY <2>3, <2>8, <2>9
    <3> QED BY <2>8, <2>9, <2>10, <3>1
  <2>12. told[n + 4] = all[4]
    BY <1>5, <2>2, <2>3
  <2> QED BY <1>3, <1>5, <2>1, <2>11, <2>12
<1> QED BY <1>9, <1>15, <1>16

\* What is written goes up to the end of the whole answer at most.
LEMMA WholeHasLength ==
  /\ \A s \in Sentences : s \in Seq({Word}) /\ Len(s) \in Nat
  /\ \A what \in {"choice", "need", "script"}, n \in Nat : \A fields \in Schema(what, n) :
       Len(ObjectTokens(fields)) \in Nat
<1>1. ASSUME NEW s \in Sentences PROVE s \in Seq({Word}) /\ Len(s) \in Nat
  <2>1. PICK w : w = Word
    OBVIOUS
  <2>2. s = <<>> \/ s = <<w>> \/ s = <<w, w>>
    BY <2>1 DEF Sentences
  <2>3. s \in Seq({w})
    <3>1. PICK U : U = {w}
      OBVIOUS
    <3>2. w \in U
      BY <3>1
    <3>3. <<>> \in Seq(U) /\ <<w>> \in Seq(U) /\ <<w, w>> \in Seq(U)
      BY <3>2
    <3> QED BY <2>2, <3>1, <3>3
  <2>4. Len(s) \in Nat
    BY <2>3
  <2> QED BY <2>1, <2>3, <2>4
<1>2. ASSUME NEW what \in {"choice", "need", "script"}, NEW n \in Nat, NEW fields \in Schema(what, n)
      PROVE  Len(ObjectTokens(fields)) \in Nat
  <2>1. PICK body \in Seq(PlainTokens) : ObjectTokens(fields) = body \o <<<<"close">>>>
    BY SchemaEnds
  <2>2. PICK all, T, close : all = body \o <<close>> /\ T = PlainTokens /\ close = <<"close">>
    OBVIOUS
  <2>3. body \in Seq(T) /\ body \in Seq(T \cup {close}) /\ <<close>> \in Seq(T \cup {close})
    BY <2>2
  <2>4. all \in Seq(T \cup {close})
    BY <2>2, <2>3
  <2>5. Len(all) \in Nat
    BY <2>4
  <2> QED BY <2>1, <2>2, <2>5
<1> QED BY <1>1, <1>2

\* What is read depends on the question and on what was written of its answer.
LEMMA ReadingStays ==
  ASSUME kind' = kind, options' = options, meant' = meant, upto' = upto, thought' = thought
  PROVE  MeantSchema' = MeantSchema /\ Parse(Content)' = Parse(Content)
<1>1. MeantSchema' = MeantSchema
  BY DEF MeantSchema, Whole
<1>2. PICK begun : begun = Content
  OBVIOUS
<1>3. Content' = begun
  BY <1>2 DEF Content, Whole
<1>4. Parse(Content)' = Parse(Content)
  BY <1>2, <1>3 DEF Parse, ParseChoice, ParseNeed, ParseScript, ParseWords, Has, Value,
     ReadAt, LogTokens, MatchIntent, Shown, FirstQuotedLetter
<1> QED BY <1>1, <1>4

LEMMA AnswerReadInvInitially == AnswerReadInit => AnswerReadInv
BY DEF AnswerReadInit, AnswerReadInv

LEMMA AnswerReadInvKept == AnswerReadInv /\ [AnswerReadNext]_answerReadVars => AnswerReadInv'
<1> SUFFICES ASSUME AnswerReadInv, [AnswerReadNext]_answerReadVars PROVE AnswerReadInv'
  OBVIOUS
<1>1. CASE AskChoice
  <2>1. ask = "idle" /\ upto = 0 /\ upto' = 0 /\ got = NoAnswer /\ got' = NoAnswer
        /\ kind' = "choice" /\ ask' \in {"read", "writing"}
    BY <1>1 DEF AskChoice, AnswerReadInv
  <2>2. PICK n \in Counts :
          /\ options' = n + 1
          /\ IF n + 1 > MaxOptions
             THEN ask' = "read" /\ UNCHANGED <<meant, follows, thought>>
             ELSE /\ ask' = "writing" /\ follows' \in BOOLEAN
                  /\ meant' \in (IF follows' THEN Schema("choice", n + 1) ELSE Loose("choice", n + 1))
                  /\ thought' \in {<<>>, <<Word>>, <<Letter(1), Word>>}
    BY <1>1 DEF AskChoice
  <2>3. n \in Nat
    BY ChoiceAssumption
  <2>4. options' \in Nat /\ options' >= 1
    BY <2>2, <2>3
  <2>5. thought' \in Seq(PlainTokens)
    <3>1. PICK T, w, l : T = PlainTokens /\ w = Word /\ l = Letter(1)
      OBVIOUS
    <3>2. w \in T /\ l \in T
      BY <3>1, PlainOnes
    <3>3. thought' = thought \/ thought' = <<>> \/ thought' = <<w>> \/ thought' = <<l, w>>
      BY <2>2, <3>1
    <3>4. thought \in Seq(PlainTokens)
      BY DEF AnswerReadInv
    <3>5. <<>> \in Seq(T) /\ <<w>> \in Seq(T) /\ <<l, w>> \in Seq(T)
      BY <3>2
    <3> QED BY <3>1, <3>3, <3>4, <3>5
  <2>6. ASSUME follows', ask' = "writing" PROVE MeantSchema'
    <3>1. meant' \in Schema("choice", options')
      BY <2>1, <2>2, <2>6
    <3>2. Whole' = ObjectTokens(meant')
      BY <2>1 DEF Whole
    <3>3. Len(Whole') \in Nat
      BY <2>4, <3>1, <3>2, WholeHasLength
    <3>4. upto' \in Nat /\ upto' <= Len(Whole')
      BY <2>1, <3>3
    <3> QED BY <2>1, <2>4, <3>1, <3>4 DEF MeantSchema
  <2> QED BY <2>1, <2>5, <2>6 DEF AnswerReadInv
<1>2. CASE AskReport
  <2>3. thought \in Seq(PlainTokens)
    BY DEF AnswerReadInv
  <2>1. /\ ask = "idle" /\ upto' = 0 /\ got' = NoAnswer /\ kind' \in {"need", "script"}
        /\ ask' = "writing" /\ options' = 0 /\ thought' = thought
    BY <1>2 DEF AskReport, AnswerReadInv
  <2>2. ASSUME follows' PROVE MeantSchema'
    <3>1. meant' \in Schema(kind', 0)
      BY <1>2, <2>2 DEF AskReport
    <3>2. Whole' = ObjectTokens(meant')
      BY <2>1 DEF Whole
    <3>3. Len(Whole') \in Nat
      BY <2>1, <3>1, <3>2, WholeHasLength
    <3>4. upto' \in Nat /\ upto' <= Len(Whole')
      BY <2>1, <3>3
    <3> QED BY <2>1, <3>1, <3>4 DEF MeantSchema
  <2> QED BY <2>1, <2>2, <2>3 DEF AnswerReadInv
<1>3. CASE AskWords
  <2>6. thought \in Seq(PlainTokens)
    BY DEF AnswerReadInv
  <2>1. /\ ask = "idle" /\ upto' = 0 /\ got' = NoAnswer /\ kind' = "words" /\ meant' \in Sentences
        /\ ask' = "writing" /\ options' = 0 /\ thought' = thought
    BY <1>3 DEF AskWords, AnswerReadInv
  <2>2. Whole' = meant'
    BY <2>1 DEF Whole
  <2>3. Len(Whole') \in Nat
    BY <2>1, <2>2, WholeHasLength
  <2>4. upto' \in Nat /\ upto' <= Len(Whole')
    BY <2>1, <2>3
  <2>5. MeantSchema'
    BY <2>1, <2>4 DEF MeantSchema
  <2> QED BY <2>1, <2>5, <2>6 DEF AnswerReadInv
<1>4. CASE WriteToken
  <2>1. /\ ask = "writing" /\ ask' = ask /\ got' = got /\ thought' = thought /\ follows' = follows
        /\ kind' = kind /\ options' = options /\ meant' = meant /\ upto' = upto + 1 /\ upto < Len(Whole)
    BY <1>4 DEF WriteToken
  <2>2. Whole' = Whole
    BY <2>1 DEF Whole
  <2>3. ASSUME follows PROVE MeantSchema'
    <3>1. MeantSchema
      BY <2>1, <2>3 DEF AnswerReadInv
    <3>2. Len(Whole) \in Nat
      BY <3>1, WholeHasLength DEF MeantSchema, Whole
    <3>3. upto' \in Nat /\ upto' <= Len(Whole')
      BY <2>1, <2>2, <3>1, <3>2 DEF MeantSchema
    <3> QED BY <2>1, <3>1, <3>3 DEF MeantSchema
  <2> QED BY <2>1, <2>3 DEF AnswerReadInv
<1>5. CASE EndAnswer \/ LoseAnswer
  <2>1. /\ ask = "writing" /\ ask' \in {"written", "lost"} /\ got' = got /\ thought' = thought
        /\ follows' = follows /\ kind' = kind /\ options' = options /\ meant' = meant /\ upto' = upto
    BY <1>5 DEF EndAnswer, LoseAnswer
  <2>2. MeantSchema' = MeantSchema
    BY <2>1 DEF MeantSchema, Whole
  <2> QED BY <2>1, <2>2 DEF AnswerReadInv
<1>6. CASE ReadAnswer
  <2>1. /\ ask = "written" /\ ask' = "read" /\ got' = Parse(Content) /\ thought' = thought
        /\ follows' = follows /\ kind' = kind /\ options' = options /\ meant' = meant /\ upto' = upto
    BY <1>6 DEF ReadAnswer
  <2>2. MeantSchema' = MeantSchema /\ Parse(Content)' = Parse(Content)
    BY <2>1, ReadingStays
  <2> QED BY <2>1, <2>2 DEF AnswerReadInv
<1>7. CASE UNCHANGED answerReadVars
  <2>1. /\ ask' = ask /\ got' = got /\ thought' = thought
        /\ follows' = follows /\ kind' = kind /\ options' = options /\ meant' = meant /\ upto' = upto
    BY <1>7 DEF answerReadVars
  <2>2. MeantSchema' = MeantSchema /\ Parse(Content)' = Parse(Content)
    BY <2>1, ReadingStays
  <2> QED BY <2>1, <2>2 DEF AnswerReadInv
<1> QED BY <1>1, <1>2, <1>3, <1>4, <1>5, <1>6, <1>7 DEF AnswerReadNext

\* However an answer is cut, the turn does what the whole answer asks for or
\* nothing, and a choice is weighed at the letter the model gave (parse_choice,
\* parse_triage, parse_script).
THEOREM CutsChangeNothing == AnswerReadSpec => []CutChangesNothing
<1>1. AnswerReadInv => CutChangesNothing
  <2> SUFFICES ASSUME AnswerReadInv, ask = "read", got # NoAnswer, follows
               PROVE  /\ kind # "words" => got.answer \in {NoAnswer, Parse(Whole).answer}
                      /\ kind = "choice" => got.turn \in {NoAnswer, Parse(Whole).turn}
                      /\ kind = "words" /\ got.answer # NoAnswer => IsPrefix(got.answer, meant)
                      /\ kind = "choice" /\ got.answer # NoAnswer /\ ~LettersThought =>
                           LogTokens(Whole)[got.at] = Letter(got.answer)
    BY DEF CutChangesNothing
  <2>1. MeantSchema /\ got = Parse(Content) /\ thought \in Seq(PlainTokens)
    BY DEF AnswerReadInv
  <2>2. CASE kind = "choice"
    <3>1. PICK k \in 1..options :
           /\ ParseChoice(Whole) = k /\ ParseChoice(Content) \in {NoAnswer, k}
           /\ ParseChoice(Content) # NoAnswer /\ ~LettersThought =>
                LogTokens(Whole)[ReadAt(Content)] = Letter(k)
      BY <2>1, <2>2, ChoiceRead
    <3>2. /\ got.answer = ParseChoice(Content) /\ got.at = ReadAt(Content)
          /\ got.turn = IF ParseChoice(Content) = NoAnswer THEN NoAnswer
                        ELSE MatchIntent(ParseChoice(Content))
      BY <2>1, <2>2 DEF Parse
    <3>3. /\ Parse(Whole).answer = k
          /\ Parse(Whole).turn = IF k = NoAnswer THEN NoAnswer ELSE MatchIntent(k)
      BY <2>2, <3>1 DEF Parse
    <3> QED BY <2>2, <3>1, <3>2, <3>3
  <2>3. CASE kind \in {"need", "script"}
    <3>1. Complete(Content) => Content = Whole
      BY <2>1, <2>3, CutOrWhole
    <3>2. ~Complete(Content) => got.answer = NoAnswer
      BY <2>1, <2>3 DEF Parse, Parsed, ParseNeed, ParseScript
    <3> QED BY <2>1, <2>3, <3>1, <3>2
  <2>4. CASE kind = "words"
    <3>1. got.answer = ParseWords(Content)
      BY <2>1, <2>4 DEF Parse, Parsed
    <3>2. PICK said, U : said = meant /\ U = {Word}
      OBVIOUS
    <3>3. said \in Seq(U) /\ Len(said) \in Nat /\ Content = SubSeq(said, 1, upto)
      BY <2>1, <2>4, <3>2, WholeHasLength DEF MeantSchema, Content, Whole
    <3>4. upto \in Nat /\ upto <= Len(said)
      BY <2>1, <2>4, <3>2 DEF MeantSchema, Whole
    <3>5. Len(Content) = upto
      BY <3>3, <3>4
    <3>6. ASSUME got.answer # NoAnswer PROVE IsPrefix(got.answer, meant)
      <4>1. PICK told : told = SubSeq(said, 1, upto)
        OBVIOUS
      <4>2. got.answer = told
        BY <3>1, <3>2, <3>5, <3>6, <4>1 DEF ParseWords
      <4>3. told \in Seq(U) /\ Len(told) = upto
        BY <3>3, <3>4, <4>1
      <4>4. SubSeq(told, 1, Len(told)) = SubSeq(said, 1, Len(told))
        BY <3>4, <4>1, <4>3
      <4>5. Len(told) <= Len(said)
        BY <3>4, <4>3
      <4> QED BY <3>2, <4>2, <4>4, <4>5 DEF IsPrefix
    <3> QED BY <2>4, <3>6
  <2> QED BY <2>1, <2>2, <2>3, <2>4 DEF MeantSchema
<1> QED BY <1>1, AnswerReadInvInitially, AnswerReadInvKept, PTL DEF AnswerReadSpec
=============================================================================
