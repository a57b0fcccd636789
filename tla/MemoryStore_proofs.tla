------------------------- MODULE MemoryStore_proofs --------------------------
(***************************************************************************)
(* The history of the facts and the names of the memory, for any number of *)
(* actors, names, concepts and facts, however calls interleave, fail and   *)
(* stop; and what a single actor keeps besides.                            *)
(***************************************************************************)
EXTENDS MemoryStore, TLAPS

-----------------------------------------------------------------------------
\* What the tables and a call may hold.

NodeRows == [state : {"unwritten", "row", "gone"}, key : Names \cup {None},
             title : Names \cup {None}]
EdgeRows == [state : {"unwritten", "open", "closed", "forgotten"},
             subject : Nodes \cup {Nil}, rel : Relations \cup {None},
             val : Values \cup {None}, at : Nat, by : Edges \cup {Nil}]

TablesTyped ==
  /\ nodes \in [Nodes -> NodeRows]
  /\ alias \in [Names -> Nodes \cup {Nil}]
  /\ edges \in [Edges -> EdgeRows]
  /\ made \in 0..MaxEdges
  /\ clock \in Nat /\ faults \in Nat

Learning == {"byKey", "byAlias", "scan"}
Naming == {"findAlias", "keepAlias"}
Keying == {"find", "open"}
Titling == {"enrich", "content"}
Writing == {"close", "insert"}
Adding == {"current", "confirm"} \cup Writing
Merging == {"source", "target", "theirs", "ours", "settle", "moves", "move", "aliases",
            "realias", "drop"}

\* The steps of each operation.
AtItsStep(j) ==
  \/ /\ j.op = "learn"
     /\ j.pc \in Learning \cup Naming \cup {"touch", "enrich"} \cup Keying \cup Adding
  \/ j.op = "write" /\ j.pc \in Keying \cup Titling \cup Adding
  \/ j.op = "merge" /\ j.pc \in Merging \cup Naming
  \/ j.op = "retire" /\ j.pc \in {"fact", "retire"}
  \/ j.op = "delete" /\ j.pc \in {"delete", "forget"}
  \/ j.op = None /\ j.pc = "idle"

Ops == {"learn", "write", "merge", "retire", "delete", None}
Steps == Learning \cup Naming \cup Keying \cup Titling \cup Adding \cup Merging
           \cup {"touch", "fact", "retire", "delete", "forget", "idle"}

Jobs ==
  [pc : Steps, op : Ops, at : Nat,
   key : Names \cup {None}, title : Names \cup {None}, naming : {"key", "title"},
   node : Nodes \cup {Nil}, into : Nodes \cup {Nil},
   rel : Relations \cup {None}, val : Values \cup {None}, edge : Edges \cup {Nil},
   seen : SUBSET Edges, todo : SUBSET Edges, names : SUBSET Names]

\* A call is at a step of its operation and holds what that step needs.  Only
\* an editor merges.
JobHolds(a, j) ==
  /\ j \in Jobs
  /\ AtItsStep(j)
  /\ j.op = "merge" => a \in Editors /\ j.into \in Nodes /\ j.node \in Nodes
  /\ j.op = "delete" => j.node \in Nodes
  /\ j.op = "retire" => j.edge \in Edges
  /\ j.pc \in Learning => j.key \in Names
  /\ j.pc \in Naming \cup Titling \cup Adding \cup {"touch"} => j.node \in Nodes
  /\ j.op = "learn" \/ j.pc \in Adding => j.rel \in Relations /\ j.val \in Values
  /\ j.pc \in Writing \cup {"confirm"} => j.edge \in Edges

Draws(a) == job[a].pc \in Writing

\* The row a call draws is its own: it is not written and no other call drew it.
DrawnOnce ==
  /\ \A e \in Edges : e > made => edges[e].state = "unwritten"
  /\ \A a \in Actors : Draws(a) =>
       job[a].edge <= made /\ edges[job[a].edge].state = "unwritten"
  /\ \A a, b \in Actors : Draws(a) /\ Draws(b) /\ job[a].edge = job[b].edge => a = b

MemoryInv ==
  /\ TablesTyped
  /\ job \in [Actors -> Jobs]
  /\ \A a \in Actors : JobHolds(a, job[a])
  /\ DrawnOnce

LEMMA IdleHolds == \A a \in Actors : JobHolds(a, Idle)
<1>1. Idle \in Jobs
  BY DEF Idle, Jobs, Ops, Steps
<1>2. AtItsStep(Idle)
  BY DEF AtItsStep, Idle
<1> QED BY <1>1, <1>2 DEF JobHolds, Idle, None, Learning, Naming, Titling, Adding, Writing

\* What a call reads of a turn or writes by hand is a call that holds.
LEMMA ReadFactHolds ==
  ASSUME NEW a \in Actors, NEW t \in Nat, NEW x \in Names, NEW title \in Names,
         NEW r \in Relations, NEW v \in Values
  PROVE  JobHolds(a, ReadFact(t, x, title, r, v))
<1> DEFINE j == ReadFact(t, x, title, r, v)
<1>1. j \in Jobs
  BY DEF ReadFact, Idle, Jobs, Ops, Steps, Learning
<1>2. AtItsStep(j)
  BY DEF AtItsStep, ReadFact, Idle, Learning
<1> QED BY <1>1, <1>2 DEF JobHolds, ReadFact, Idle, None, Learning, Naming, Titling, Adding, Writing

LEMMA StepsDisjoint ==
  ASSUME NEW j, AtItsStep(j)
  PROVE  /\ j.pc \in Learning \cup {"touch"} => j.op = "learn"
         /\ j.pc \in Naming => j.op \in {"learn", "merge"}
         /\ j.pc \in Keying \cup {"enrich"} \cup Adding => j.op \in {"learn", "write"}
         /\ j.pc = "content" => j.op = "write"
         /\ j.pc \in Merging => j.op = "merge"
         /\ j.pc \in {"fact", "retire"} => j.op = "retire"
         /\ j.pc \in {"delete", "forget"} => j.op = "delete"
         /\ j.pc = "idle" => j.op = None
BY DEF AtItsStep, Learning, Naming, Keying, Titling, Adding, Writing, Merging, None

-----------------------------------------------------------------------------
\* Every step of a call leaves its call in order and the other calls alone.

Others(a) == \A b \in Actors : b # a => job'[b] = job[b]
CallGoesOn(a) ==
  /\ job' \in [Actors -> Jobs] /\ JobHolds(a, job'[a]) /\ Others(a)

\* A call that goes on with a record that holds.
LEMMA CallTakes ==
  ASSUME MemoryInv, NEW a \in Actors, NEW j, JobHolds(a, j), job' = [job EXCEPT ![a] = j]
  PROVE  CallGoesOn(a)
BY DEF MemoryInv, CallGoesOn, Others, JobHolds

LEMMA ReturnHolds ==
  ASSUME MemoryInv, NEW a \in Actors, Return(a)
  PROVE  CallGoesOn(a)
BY IdleHolds, CallTakes DEF Return

LEMMA FactDoneHolds ==
  ASSUME MemoryInv, NEW a \in Actors, job[a].pc \in {"confirm", "insert"}, FactDone(a)
  PROVE  CallGoesOn(a)
<1> DEFINE j == job[a]
<1>1. JobHolds(a, j)
  BY DEF MemoryInv
<1>2. CASE Return(a)
  BY <1>2, ReturnHolds
<1>3. ASSUME NEW x \in Names, NEW title \in Names, NEW r \in Relations, NEW v \in Values,
             job' = [job EXCEPT ![a] = ReadFact(j.at, x, title, r, v)]
      PROVE  CallGoesOn(a)
  <2>1. j.at \in Nat
    BY <1>1 DEF JobHolds, Jobs
  <2> QED BY <2>1, <1>3, ReadFactHolds, CallTakes
<1>4. ASSUME NEW r \in Relations, NEW v \in Values,
             job' = [job EXCEPT ![a] = [Idle EXCEPT
               !.pc = "current", !.op = "write", !.at = j.at, !.node = j.node,
               !.rel = r, !.val = v]]
      PROVE  CallGoesOn(a)
  <2> DEFINE n == [Idle EXCEPT !.pc = "current", !.op = "write", !.at = j.at, !.node = j.node,
                               !.rel = r, !.val = v]
  <2>1. j.at \in Nat /\ j.node \in Nodes
    BY <1>1 DEF JobHolds, Jobs, Adding, Writing
  <2>2. n \in Jobs
    BY <2>1 DEF Idle, Jobs, Ops, Steps, Adding
  <2>3. AtItsStep(n)
    BY DEF AtItsStep, Idle, Adding
  <2>4. JobHolds(a, n)
    BY <2>1, <2>2, <2>3 DEF JobHolds, Idle, Learning, Naming, Titling, Adding, Writing
  <2> QED BY <2>4, <1>4, CallTakes
<1> QED BY <1>2, <1>3, <1>4 DEF FactDone

LEMMA ResolvingHolds ==
  ASSUME MemoryInv, NEW a \in Actors, ByKey(a) \/ ByAlias(a) \/ ByScan(a)
  PROVE  CallGoesOn(a)
<1> DEFINE j == job[a]
<1>1. JobHolds(a, j) /\ j \in Jobs
  BY DEF MemoryInv, JobHolds
<1>2. j.op = "learn" /\ j.key \in Names
  BY <1>1, StepsDisjoint DEF JobHolds, ByKey, ByAlias, ByScan, At, Learning
<1>3. ASSUME NEW n \in Nodes, job' = [job EXCEPT ![a] = [j EXCEPT !.pc = "findAlias", !.node = n]]
      PROVE  CallGoesOn(a)
  <2> DEFINE f == [j EXCEPT !.pc = "findAlias", !.node = n]
  <2>1. f \in Jobs
    BY <1>1 DEF Jobs, Steps, Naming
  <2>2. f.pc = "findAlias" /\ f.op = "learn" /\ f.node = n /\ f.rel = j.rel /\ f.val = j.val
    BY <1>1, <1>2 DEF Jobs
  <2>3. JobHolds(a, f)
    BY <1>1, <1>2, <2>1, <2>2 DEF JobHolds, AtItsStep, Learning, Naming, Titling, Adding, Writing
  <2> QED BY <2>3, <1>3, CallTakes
<1>4. ASSUME NEW s \in {"byAlias", "scan", "find"}, job' = [job EXCEPT ![a] = [j EXCEPT !.pc = s]]
      PROVE  CallGoesOn(a)
  <2> DEFINE f == [j EXCEPT !.pc = s]
  <2>1. JobHolds(a, f)
    BY <1>1, <1>2 DEF JobHolds, Jobs, Ops, Steps, AtItsStep, Learning, Naming, Keying, Titling, Adding, Writing, None
  <2> QED BY <2>1, <1>4, CallTakes
<1>5. CASE ByKey(a)
  BY <1>3, <1>4, <1>5 DEF ByKey, Go, Keyed
<1>6. CASE ByAlias(a)
  <2>1. alias[job[a].key] \in Nodes \cup {Nil}
    BY <1>2 DEF MemoryInv, TablesTyped
  <2> QED BY <2>1, <1>3, <1>4, <1>6 DEF ByAlias, Go
<1>7. CASE ByScan(a)
  BY <1>3, <1>4, <1>7 DEF ByScan, Go
<1> QED BY <1>5, <1>6, <1>7

LEMMA NamedHolds ==
  ASSUME MemoryInv, NEW a \in Actors, job[a].pc \in Naming, Named(a) \/ Go(a, "keepAlias")
  PROVE  CallGoesOn(a)
<1> DEFINE j == job[a]
<1>1. JobHolds(a, j) /\ j \in Jobs /\ AtItsStep(j)
  BY DEF MemoryInv, JobHolds
<1>2. j.op \in {"learn", "merge"} /\ j.node \in Nodes
  BY <1>1, StepsDisjoint DEF JobHolds
<1>3. ASSUME NEW s \in {"keepAlias", "drop", "touch"},
             s = "drop" => j.op = "merge", s = "touch" => j.op = "learn",
             job' = [job EXCEPT ![a] = [j EXCEPT !.pc = s]]
      PROVE  CallGoesOn(a)
  <2> DEFINE f == [j EXCEPT !.pc = s]
  <2>1. JobHolds(a, f)
    BY <1>1, <1>2, <1>3 DEF JobHolds, Jobs, Steps, AtItsStep, Learning, Naming, Titling, Adding, Writing, Merging
  <2> QED BY <2>1, <1>3, CallTakes
<1>4. ASSUME job' = [job EXCEPT ![a] = [j EXCEPT !.pc = "findAlias", !.naming = "title"]]
      PROVE  CallGoesOn(a)
  <2> DEFINE f == [j EXCEPT !.pc = "findAlias", !.naming = "title"]
  <2>1. f \in Jobs
    BY <1>1 DEF Jobs, Steps, Naming
  <2>2. f.pc = "findAlias" /\ f.op = j.op /\ f.node = j.node /\ f.into = j.into
    BY <1>1 DEF Jobs
  <2>3. JobHolds(a, f)
    BY <1>1, <1>2, <2>1, <2>2 DEF JobHolds, AtItsStep, Learning, Naming, Titling, Adding, Writing
  <2> QED BY <2>3, <1>4, CallTakes
<1> QED BY <1>2, <1>3, <1>4 DEF Named, Go

LEMMA NamingHolds ==
  ASSUME MemoryInv, NEW a \in Actors, FindAlias(a) \/ KeepAlias(a) \/ Touch(a)
  PROVE  CallGoesOn(a)
<1> DEFINE j == job[a]
<1>1. CASE FindAlias(a) \/ KeepAlias(a)
  BY <1>1, NamedHolds, ReturnHolds DEF FindAlias, KeepAlias, At, Naming
<1>2. CASE Touch(a)
  <2>1. JobHolds(a, j) /\ j \in Jobs /\ AtItsStep(j) /\ j.pc = "touch"
    BY <1>2 DEF MemoryInv, JobHolds, Touch, At
  <2>2. CASE Go(a, "current")
    <3> DEFINE f == [j EXCEPT !.pc = "current"]
    <3>1. JobHolds(a, f)
      BY <2>1, StepsDisjoint DEF JobHolds, Jobs, Steps, AtItsStep, Learning, Naming, Titling, Adding, Writing, Merging
    <3> QED BY <3>1, <2>2, CallTakes DEF Go
  <2> QED BY <1>2, <2>2, ReturnHolds DEF Touch
<1> QED BY <1>1, <1>2

LEMMA UpsertHolds ==
  ASSUME MemoryInv, NEW a \in Actors, FindNode(a) \/ EnrichNode(a) \/ OpenNode(a) \/ SetContent(a)
  PROVE  CallGoesOn(a)
<1> DEFINE j == job[a]
<1>1. JobHolds(a, j) /\ j \in Jobs /\ AtItsStep(j)
  BY DEF MemoryInv, JobHolds
<1>2. /\ j.op \in {"learn", "write"}
      /\ j.op = "learn" => j.rel \in Relations /\ j.val \in Values
  BY <1>1, StepsDisjoint
  DEF JobHolds, FindNode, EnrichNode, OpenNode, SetContent, At, Keying, Adding
<1>3. ASSUME NEW n \in Nodes, NEW s \in {"enrich", "content", "current"},
             s = "content" => j.op = "write", s = "current" => j.op = "learn",
             job' = [job EXCEPT ![a] = [j EXCEPT !.pc = s, !.node = n]]
      PROVE  CallGoesOn(a)
  <2> DEFINE f == [j EXCEPT !.pc = s, !.node = n]
  <2>1. f \in Jobs
    BY ZenonT(60), <1>1 DEF Jobs, Steps, Titling, Adding
  <2>2. f.pc = s /\ f.op = j.op /\ f.node = n /\ f.rel = j.rel /\ f.val = j.val
    BY <1>1 DEF Jobs
  <2>3. JobHolds(a, f)
    BY <1>2, <1>3, <2>1, <2>2
    DEF JobHolds, AtItsStep, Learning, Naming, Titling, Adding, Writing, Merging
  <2> QED BY <2>3, <1>3, CallTakes
<1>4. ASSUME NEW s \in {"open", "content", "current"},
             s = "content" => j.op = "write", s = "current" => j.op = "learn",
             s # "open" => j.node \in Nodes,
             job' = [job EXCEPT ![a] = [j EXCEPT !.pc = s]]
      PROVE  CallGoesOn(a)
  <2> DEFINE f == [j EXCEPT !.pc = s]
  <2>1. JobHolds(a, f)
    BY <1>1, <1>2, <1>4
    DEF JobHolds, Jobs, Steps, AtItsStep, Learning, Naming, Keying, Titling, Adding, Writing, Merging
  <2> QED BY <2>1, <1>4, CallTakes
<1>5. ASSUME NEW r \in Relations, NEW v \in Values, j.op = "write", j.node \in Nodes,
             job' = [job EXCEPT ![a] = [j EXCEPT !.pc = "current", !.rel = r, !.val = v]]
      PROVE  CallGoesOn(a)
  <2> DEFINE f == [j EXCEPT !.pc = "current", !.rel = r, !.val = v]
  <2>1. f \in Jobs
    BY ZenonT(60), <1>1 DEF Jobs, Steps, Adding
  <2>2. f.pc = "current" /\ f.op = "write" /\ f.node = j.node /\ f.rel = r /\ f.val = v
    BY <1>1, <1>5 DEF Jobs
  <2>3. JobHolds(a, f)
    BY <1>5, <2>1, <2>2 DEF JobHolds, AtItsStep, Learning, Naming, Titling, Adding, Writing
  <2> QED BY <2>3, <1>5, CallTakes
<1>6. CASE FindNode(a)
  BY <1>3, <1>4, <1>6 DEF FindNode, Go, Keyed
<1>7. CASE EnrichNode(a)
  <2>1. j.node \in Nodes
    BY <1>1, <1>7 DEF JobHolds, EnrichNode, At, Titling
  <2>2. CASE HasNode(j.node)
    <3>1. job' = [job EXCEPT ![a] = [j EXCEPT !.pc = Upserted(a)]]
      BY <1>7, <2>2 DEF EnrichNode, Go
    <3>2. CASE j.op = "learn"
      BY <2>1, <3>1, <3>2, <1>4 DEF Upserted
    <3>3. CASE j.op = "write"
      BY <2>1, <3>1, <3>3, <1>4 DEF Upserted
    <3> QED BY <1>2, <3>2, <3>3
  <2> QED BY <1>7, <2>2, ReturnHolds DEF EnrichNode
<1>8. CASE OpenNode(a)
  <2>1. ASSUME NEW n \in Nodes, job' = [job EXCEPT ![a].pc = Upserted(a), ![a].node = n]
        PROVE  CallGoesOn(a)
    <3>1. job' = [job EXCEPT ![a] = [j EXCEPT !.pc = Upserted(a), !.node = n]]
      BY <2>1
    <3>2. CASE j.op = "learn"
      BY <3>1, <3>2, <1>3 DEF Upserted
    <3>3. CASE j.op = "write"
      BY <3>1, <3>3, <1>3 DEF Upserted
    <3> QED BY <1>2, <3>2, <3>3
  <2>2. \/ Return(a)
        \/ \E n \in Nodes : job' = [job EXCEPT ![a].pc = Upserted(a), ![a].node = n]
    BY <1>8 DEF OpenNode
  <2>3. CASE \E n \in Nodes : job' = [job EXCEPT ![a].pc = Upserted(a), ![a].node = n]
    <3>1. PICK n \in Nodes : job' = [job EXCEPT ![a].pc = Upserted(a), ![a].node = n]
      BY <2>3
    <3> QED BY <2>1, <3>1
  <2> QED BY <2>2, <2>3, ReturnHolds
<1>9. CASE SetContent(a)
  <2>1. j.node \in Nodes /\ j.op = "write"
    BY <1>1, <1>9, StepsDisjoint DEF JobHolds, SetContent, At, Titling
  <2>2. CASE ~Return(a)
    <3>1. PICK r \in Relations, v \in Values :
            job' = [job EXCEPT ![a].pc = "current", ![a].rel = r, ![a].val = v]
      BY <1>9, <2>2 DEF SetContent
    <3>2. job' = [job EXCEPT ![a] = [j EXCEPT !.pc = "current", !.rel = r, !.val = v]]
      BY <3>1
    <3> QED BY <2>1, <3>2, <1>5
  <2> QED BY <2>2, ReturnHolds
<1> QED BY <1>6, <1>7, <1>8, <1>9

LEMMA AddingHolds ==
  ASSUME MemoryInv, NEW a \in Actors, ReadCurrent(a) \/ Confirm(a) \/ CloseOld(a) \/ InsertFact(a)
  PROVE  CallGoesOn(a)
<1> DEFINE j == job[a]
<1>1. JobHolds(a, j) /\ j \in Jobs /\ AtItsStep(j)
  BY DEF MemoryInv, JobHolds
<1>2. j.op \in {"learn", "write"} /\ j.node \in Nodes /\ j.rel \in Relations /\ j.val \in Values
  BY <1>1, StepsDisjoint
  DEF JobHolds, ReadCurrent, Confirm, CloseOld, InsertFact, At, Adding, Writing
<1>3. CASE Confirm(a) \/ InsertFact(a)
  BY <1>3, FactDoneHolds, ReturnHolds DEF Confirm, InsertFact, At
<1>4. CASE ReadCurrent(a)
  <2> DEFINE call == [j EXCEPT !.key = None, !.title = None, !.naming = "key"]
             current == {e \in OpenEdges(j.node) : edges[e].rel = j.rel}
  <2>1. /\ call \in Jobs /\ call.op = j.op /\ call.node = j.node
        /\ call.rel = j.rel /\ call.val = j.val
    BY <1>1 DEF Jobs
  <2>2. ASSUME NEW e \in Edges, job' = [job EXCEPT ![a] = [call EXCEPT !.pc = "confirm", !.edge = e]]
        PROVE  CallGoesOn(a)
    <3> HIDE DEF call
    <3> DEFINE f == [call EXCEPT !.pc = "confirm", !.edge = e]
    <3>1. f \in Jobs
      BY ZenonT(60), <2>1 DEF Jobs, Steps, Adding
    <3>2. /\ f.pc = "confirm" /\ f.edge = e /\ f.op = call.op /\ f.node = call.node
          /\ f.rel = call.rel /\ f.val = call.val
      BY <2>1 DEF Jobs
    <3>3. JobHolds(a, f)
      BY <1>2, <2>1, <3>1, <3>2 DEF JobHolds, AtItsStep, Learning, Naming, Titling, Adding, Writing
    <3> QED BY <3>3, <2>2, CallTakes
  <2>3. ASSUME NEW s \in Writing, NEW t \in SUBSET Edges, made + 1 \in Edges,
               job' = [job EXCEPT ![a] = [call EXCEPT !.pc = s, !.edge = made + 1, !.todo = t]]
        PROVE  CallGoesOn(a)
    <3> HIDE DEF call
    <3> DEFINE f == [call EXCEPT !.pc = s, !.edge = made + 1, !.todo = t]
    <3>1. f \in Jobs
      BY ZenonT(60), <2>1, <2>3 DEF Jobs, Steps, Adding
    <3>2. /\ f.pc = s /\ f.edge = made + 1 /\ f.op = call.op /\ f.node = call.node
          /\ f.rel = call.rel /\ f.val = call.val
      BY <2>1 DEF Jobs
    <3>3. JobHolds(a, f)
      BY <1>2, <2>1, <2>3, <3>1, <3>2 DEF JobHolds, AtItsStep, Learning, Naming, Titling, Adding, Writing
    <3> QED BY <3>3, <2>3, CallTakes
  <2>4. made < MaxEdges => made + 1 \in Edges
    BY BoundsAssumption DEF MemoryInv, TablesTyped, Edges
  <2>5. current \in SUBSET Edges
    BY DEF OpenEdges
  <2> QED BY <1>4, <2>2, <2>3, <2>4, <2>5 DEF ReadCurrent, Writing
<1>5. CASE CloseOld(a)
  <2>1. ASSUME NEW t \in SUBSET Edges, NEW s \in Writing,
               job' = [job EXCEPT ![a] = [j EXCEPT !.todo = t, !.pc = s]]
        PROVE  CallGoesOn(a)
    <3> DEFINE f == [j EXCEPT !.todo = t, !.pc = s]
    <3>1. f \in Jobs
      BY ZenonT(60), <1>1 DEF Jobs, Steps, Adding, Writing
    <3>2. /\ f.pc = s /\ f.op = j.op /\ f.node = j.node /\ f.edge = j.edge
          /\ f.rel = j.rel /\ f.val = j.val
      BY <1>1 DEF Jobs
    <3>3. j.edge \in Edges
      BY <1>1, <1>5 DEF JobHolds, CloseOld, At, Writing
    <3>4. JobHolds(a, f)
      BY <1>2, <3>1, <3>2, <3>3 DEF JobHolds, AtItsStep, Learning, Naming, Titling, Adding, Writing
    <3> QED BY <3>4, <2>1, CallTakes
  <2>2. \A e \in j.todo : j.todo \ {e} \in SUBSET Edges
    BY <1>1 DEF Jobs
  <2>3. CASE ~Return(a)
    <3>1. PICK e \in j.todo :
            job' = [job EXCEPT ![a].todo = @ \ {e},
                               ![a].pc = IF j.todo = {e} THEN "insert" ELSE "close"]
      BY <1>5, <2>3 DEF CloseOld
    <3>2. job' = [job EXCEPT ![a] = [j EXCEPT !.todo = j.todo \ {e},
                                              !.pc = IF j.todo = {e} THEN "insert" ELSE "close"]]
      BY <3>1
    <3> QED BY <2>1, <2>2, <3>2 DEF Writing
  <2> QED BY <2>3, ReturnHolds
<1> QED BY <1>3, <1>4, <1>5

LEMMA MergingHolds ==
  ASSUME MemoryInv, NEW a \in Actors,
         \/ FindSource(a) \/ FindTarget(a) \/ ReadTheirs(a) \/ ReadOurs(a) \/ Settle(a)
         \/ ReadMoves(a) \/ Move(a) \/ ReadAliases(a) \/ MoveAlias(a) \/ DropSource(a)
  PROVE  CallGoesOn(a)
<1> DEFINE j == job[a]
<1>1. JobHolds(a, j) /\ j \in Jobs /\ AtItsStep(j)
  BY DEF MemoryInv, JobHolds
<1>2. j.op = "merge" /\ a \in Editors /\ j.node \in Nodes /\ j.into \in Nodes
  BY <1>1, StepsDisjoint
  DEF JobHolds, FindSource, FindTarget, ReadTheirs, ReadOurs, Settle, ReadMoves, Move,
      ReadAliases, MoveAlias, DropSource, At, Merging
<1>3. ASSUME NEW s \in Merging \cup Naming, NEW t \in SUBSET Edges, NEW read \in SUBSET Edges,
             NEW held \in SUBSET Names,
             job' = [job EXCEPT ![a] =
               [j EXCEPT !.pc = s, !.todo = t, !.seen = read, !.names = held]]
      PROVE  CallGoesOn(a)
  <2> DEFINE f == [j EXCEPT !.pc = s, !.todo = t, !.seen = read, !.names = held]
  <2>1. f \in Jobs
    BY ZenonT(60), <1>1 DEF Jobs, Steps
  <2>2. f.pc = s /\ f.op = "merge" /\ f.node = j.node /\ f.into = j.into
    BY <1>1, <1>2 DEF Jobs
  <2>3. JobHolds(a, f)
    BY <1>2, <2>1, <2>2
    DEF JobHolds, AtItsStep, Learning, Naming, Titling, Adding, Writing, Merging
  <2> QED BY <2>3, <1>3, CallTakes
<1>4. j.todo \in SUBSET Edges /\ j.seen \in SUBSET Edges /\ j.names \in SUBSET Names
  BY <1>1 DEF Jobs
<1>5. j = [j EXCEPT !.todo = j.todo, !.seen = j.seen, !.names = j.names]
  BY <1>1 DEF Jobs
<1>6. CASE FindSource(a)
  <2>1. ASSUME NEW x \in Names \cup {None}, NEW title \in Names \cup {None},
               job' = [job EXCEPT ![a] = [j EXCEPT !.pc = "target", !.key = x, !.title = title]]
        PROVE  CallGoesOn(a)
    <3> DEFINE f == [j EXCEPT !.pc = "target", !.key = x, !.title = title]
    <3>1. f \in Jobs
      BY ZenonT(60), <1>1 DEF Jobs, Steps, Merging
    <3>2. f.pc = "target" /\ f.op = "merge" /\ f.node = j.node /\ f.into = j.into
      BY <1>1, <1>2 DEF Jobs
    <3>3. JobHolds(a, f)
      BY <1>2, <3>1, <3>2
      DEF JobHolds, AtItsStep, Learning, Naming, Titling, Adding, Writing, Merging
    <3> QED BY <2>1, <3>3, CallTakes
  <2> DEFINE n == nodes[j.node]
  <2>2. n.key \in Names \cup {None} /\ n.title \in Names \cup {None}
    BY <1>2 DEF MemoryInv, TablesTyped, NodeRows
  <2>3. \/ Return(a)
        \/ job' = [job EXCEPT ![a] = [j EXCEPT !.pc = "target", !.key = n.key, !.title = n.title]]
    BY <1>6 DEF FindSource
  <2> HIDE DEF n
  <2> QED BY <2>1, <2>2, <2>3, ReturnHolds
<1>7. ASSUME NEW s \in Merging \cup Naming, job' = [job EXCEPT ![a].pc = s]
      PROVE  CallGoesOn(a)
  <2>1. job' = [job EXCEPT ![a] =
          [j EXCEPT !.pc = s, !.todo = j.todo, !.seen = j.seen, !.names = j.names]]
    BY <1>1, <1>7 DEF Jobs
  <2> QED BY <2>1, <1>3, <1>4
<1>8. ASSUME NEW s \in Merging \cup Naming, NEW t \in SUBSET Edges,
             job' = [job EXCEPT ![a].pc = s, ![a].todo = t]
      PROVE  CallGoesOn(a)
  <2>1. job' = [job EXCEPT ![a] =
          [j EXCEPT !.pc = s, !.todo = t, !.seen = j.seen, !.names = j.names]]
    BY <1>1, <1>8 DEF Jobs
  <2> QED BY <2>1, <1>3, <1>4
<1>9. ASSUME NEW s \in Merging \cup Naming, NEW held \in SUBSET Names,
             job' = [job EXCEPT ![a].pc = s, ![a].names = held]
      PROVE  CallGoesOn(a)
  <2>1. job' = [job EXCEPT ![a] =
          [j EXCEPT !.pc = s, !.todo = j.todo, !.seen = j.seen, !.names = held]]
    BY <1>1, <1>9 DEF Jobs
  <2> QED BY <2>1, <1>3, <1>4
<1>10. CASE FindTarget(a)
  BY <1>7, <1>10, ReturnHolds DEF FindTarget, Go, Merging
<1>11. CASE ReadTheirs(a)
  <2> DEFINE read == OpenEdges(j.into)
  <2>1. read \in SUBSET Edges
    BY DEF OpenEdges
  <2>2. job' = [job EXCEPT ![a] =
          [j EXCEPT !.pc = "ours", !.todo = j.todo, !.seen = read, !.names = j.names]]
    BY <1>1, <1>11 DEF Jobs, ReadTheirs
  <2> QED BY <2>1, <2>2, <1>3, <1>4 DEF Merging
<1>12. CASE ReadOurs(a)
  <2> DEFINE shared == {e \in OpenEdges(j.node) : \E c \in j.seen : edges[c].rel = edges[e].rel}
             s == IF shared = {} THEN "moves" ELSE "settle"
  <2>1. shared \in SUBSET Edges /\ s \in Merging
    BY DEF OpenEdges, Merging
  <2>2. job' = [job EXCEPT ![a].pc = s, ![a].todo = shared]
    BY <1>12 DEF ReadOurs
  <2> QED BY <2>1, <2>2, <1>8
<1>13. CASE Settle(a)
  <2>1. CASE ~Return(a)
    <3>1. PICK e \in j.todo :
            job' = [job EXCEPT ![a].todo = @ \ {e},
                               ![a].pc = IF j.todo = {e} THEN "moves" ELSE "settle"]
      BY <1>13, <2>1 DEF Settle
    <3> DEFINE s == IF j.todo = {e} THEN "moves" ELSE "settle"
               t == j.todo \ {e}
    <3>2. s \in Merging \cup Naming /\ t \in SUBSET Edges
      BY <1>4 DEF Merging
    <3>3. job' = [job EXCEPT ![a].pc = s, ![a].todo = t]
      BY <3>1
    <3> HIDE DEF s, t
    <3> QED BY <3>2, <3>3, <1>8
  <2> QED BY <2>1, ReturnHolds
<1>14. CASE ReadMoves(a)
  <2> DEFINE held == {e \in Edges : HasEdge(e) /\ edges[e].subject = j.node}
             s == IF held = {} THEN "aliases" ELSE "move"
  <2>1. held \in SUBSET Edges /\ s \in Merging
    BY DEF Merging
  <2>2. job' = [job EXCEPT ![a].pc = s, ![a].todo = held]
    BY <1>14 DEF ReadMoves
  <2> QED BY <2>1, <2>2, <1>8
<1>15. CASE Move(a)
  <2>1. CASE ~Return(a)
    <3>1. PICK e \in j.todo :
            job' = [job EXCEPT ![a].todo = @ \ {e},
                               ![a].pc = IF j.todo = {e} THEN "aliases" ELSE "move"]
      BY <1>15, <2>1 DEF Move
    <3> DEFINE s == IF j.todo = {e} THEN "aliases" ELSE "move"
               t == j.todo \ {e}
    <3>2. s \in Merging \cup Naming /\ t \in SUBSET Edges
      BY <1>4 DEF Merging
    <3>3. job' = [job EXCEPT ![a].pc = s, ![a].todo = t]
      BY <3>1
    <3> HIDE DEF s, t
    <3> QED BY <3>2, <3>3, <1>8
  <2> QED BY <2>1, ReturnHolds
<1>16. CASE ReadAliases(a)
  <2> DEFINE held == {x \in Names : alias[x] = j.node}
             s == IF held = {} THEN "findAlias" ELSE "realias"
  <2>1. held \in SUBSET Names /\ s \in Merging \cup Naming
    BY DEF Merging, Naming
  <2>2. job' = [job EXCEPT ![a].pc = s, ![a].names = held]
    BY <1>16 DEF ReadAliases
  <2> QED BY <2>1, <2>2, <1>9
<1>17. CASE MoveAlias(a)
  <2>1. PICK x \in j.names :
          job' = [job EXCEPT ![a].names = @ \ {x},
                             ![a].pc = IF j.names = {x} THEN "findAlias" ELSE "realias"]
    BY <1>17 DEF MoveAlias
  <2> DEFINE s == IF j.names = {x} THEN "findAlias" ELSE "realias"
             held == j.names \ {x}
  <2>2. s \in Merging \cup Naming /\ held \in SUBSET Names
    BY <1>4 DEF Merging, Naming
  <2>3. job' = [job EXCEPT ![a].pc = s, ![a].names = held]
    BY <2>1
  <2> HIDE DEF s, held
  <2> QED BY <2>2, <2>3, <1>9
<1>18. CASE DropSource(a)
  BY <1>18, ReturnHolds DEF DropSource
<1> QED BY <1>6, <1>10, <1>11, <1>12, <1>13, <1>14, <1>15, <1>16, <1>17, <1>18

LEMMA EditingHolds ==
  ASSUME MemoryInv, NEW a \in Actors,
         FindFact(a) \/ RetireFact(a) \/ DeleteNode(a) \/ DeleteFacts(a)
  PROVE  CallGoesOn(a)
<1> DEFINE j == job[a]
<1>1. JobHolds(a, j) /\ j \in Jobs /\ AtItsStep(j)
  BY DEF MemoryInv, JobHolds
<1>2. CASE RetireFact(a) \/ DeleteFacts(a)
  BY <1>2, ReturnHolds DEF RetireFact, DeleteFacts
<1>3. CASE FindFact(a) /\ Go(a, "retire")
  <2> DEFINE f == [j EXCEPT !.pc = "retire"]
  <2>1. j.op = "retire" /\ j.edge \in Edges
    BY <1>1, <1>3, StepsDisjoint DEF JobHolds, FindFact, At
  <2>2. JobHolds(a, f)
    BY <1>1, <2>1
    DEF JobHolds, Jobs, Steps, AtItsStep, Learning, Naming, Titling, Adding, Writing, Merging
  <2> QED BY <2>2, <1>3, CallTakes DEF Go
<1>4. CASE DeleteNode(a) /\ Go(a, "forget")
  <2> DEFINE f == [j EXCEPT !.pc = "forget"]
  <2>1. j.op = "delete" /\ j.node \in Nodes
    BY <1>1, <1>4, StepsDisjoint DEF JobHolds, DeleteNode, At
  <2>2. JobHolds(a, f)
    BY <1>1, <2>1
    DEF JobHolds, Jobs, Steps, AtItsStep, Learning, Naming, Titling, Adding, Writing, Merging
  <2> QED BY <2>2, <1>4, CallTakes DEF Go
<1> QED BY <1>2, <1>3, <1>4, ReturnHolds DEF FindFact, DeleteNode

\* A call begins as one that holds.
LEMMA CallBegins ==
  ASSUME MemoryInv, NEW a \in Actors, NEW j, JobHolds(a, j), Start(a, j)
  PROVE  /\ CallGoesOn(a) /\ job'[a] = j /\ clock' = clock + 1
         /\ UNCHANGED <<nodes, alias, edges, made, faults>>
BY CallTakes DEF Start, MemoryInv

LEMMA StartingHolds ==
  ASSUME MemoryInv, NEW a \in Actors,
         \/ a \in Workers /\ Learn(a)
         \/ a \in Editors /\ (Write(a) \/ Merge(a) \/ Retire(a) \/ Delete(a))
  PROVE  /\ CallGoesOn(a) /\ job'[a].pc \notin Adding /\ clock' = clock + 1
         /\ UNCHANGED <<nodes, alias, edges, made, faults>>
<1>0. clock \in Nat /\ clock + 1 \in Nat
  BY DEF MemoryInv, TablesTyped
<1>1. CASE Learn(a)
  <2>1. PICK t \in 1..(clock + 1), x \in Names, title \in Names, r \in Relations, v \in Values :
          Start(a, ReadFact(t, x, title, r, v))
    BY <1>1 DEF Learn
  <2>2. JobHolds(a, ReadFact(t, x, title, r, v))
    BY <1>0, ReadFactHolds
  <2> DEFINE f == ReadFact(t, x, title, r, v)
  <2>3. f.pc = "byKey"
    BY DEF ReadFact, Idle
  <2> HIDE DEF f
  <2> QED BY <2>1, <2>2, <2>3, CallBegins DEF f, Adding, Writing
<1>2. CASE Write(a)
  <2>1. PICK x \in Names, title \in Names :
          Start(a, [Idle EXCEPT !.pc = "find", !.op = "write", !.at = clock + 1,
                                !.key = x, !.title = title])
    BY <1>2 DEF Write
  <2> DEFINE f == [Idle EXCEPT !.pc = "find", !.op = "write", !.at = clock + 1,
                               !.key = x, !.title = title]
  <2>2. f \in Jobs
    BY <1>0 DEF Idle, Jobs, Ops, Steps, Keying
  <2>3. JobHolds(a, f)
    BY <2>2 DEF JobHolds, AtItsStep, Idle, Learning, Naming, Keying, Titling, Adding, Writing
  <2>4. f.pc = "find" /\ Start(a, f)
    BY <2>1 DEF Idle
  <2> HIDE DEF f
  <2> QED BY <2>3, <2>4, CallBegins DEF Adding, Writing
<1>3. CASE a \in Editors /\ Merge(a)
  <2>1. PICK n \in Nodes, m \in Nodes :
          Start(a, [Idle EXCEPT !.pc = "source", !.op = "merge", !.at = clock + 1,
                                !.node = n, !.into = m])
    BY <1>3 DEF Merge
  <2> DEFINE f == [Idle EXCEPT !.pc = "source", !.op = "merge", !.at = clock + 1,
                               !.node = n, !.into = m]
  <2>2. f \in Jobs
    BY <1>0 DEF Idle, Jobs, Ops, Steps, Merging
  <2>3. JobHolds(a, f)
    BY <1>3, <2>2
    DEF JobHolds, AtItsStep, Idle, Learning, Naming, Titling, Adding, Writing, Merging
  <2>4. f.pc = "source" /\ Start(a, f)
    BY <2>1 DEF Idle
  <2> HIDE DEF f
  <2> QED BY <2>3, <2>4, CallBegins DEF Adding, Writing
<1>4. CASE Retire(a)
  <2>1. PICK e \in Edges : Start(a, [Idle EXCEPT !.pc = "fact", !.op = "retire", !.edge = e])
    BY <1>4 DEF Retire
  <2> DEFINE f == [Idle EXCEPT !.pc = "fact", !.op = "retire", !.edge = e]
  <2>2. f \in Jobs
    BY DEF Idle, Jobs, Ops, Steps
  <2>3. JobHolds(a, f)
    BY <2>2 DEF JobHolds, AtItsStep, Idle, Learning, Naming, Titling, Adding, Writing
  <2>4. f.pc = "fact" /\ Start(a, f)
    BY <2>1 DEF Idle
  <2> HIDE DEF f
  <2> QED BY <2>3, <2>4, CallBegins DEF Adding, Writing
<1>5. CASE Delete(a)
  <2>1. PICK n \in Nodes : Start(a, [Idle EXCEPT !.pc = "delete", !.op = "delete", !.node = n])
    BY <1>5 DEF Delete
  <2> DEFINE f == [Idle EXCEPT !.pc = "delete", !.op = "delete", !.node = n]
  <2>2. f \in Jobs
    BY DEF Idle, Jobs, Ops, Steps
  <2>3. JobHolds(a, f)
    BY <2>2 DEF JobHolds, AtItsStep, Idle, Learning, Naming, Titling, Adding, Writing
  <2>4. f.pc = "delete" /\ Start(a, f)
    BY <2>1 DEF Idle
  <2> HIDE DEF f
  <2> QED BY <2>3, <2>4, CallBegins DEF Adding, Writing
<1> QED BY <1>1, <1>2, <1>3, <1>4, <1>5

-----------------------------------------------------------------------------
\* Every step keeps the invariant.

LEMMA StepHolds == ASSUME MemoryInv, NEW a \in Actors, Step(a) PROVE CallGoesOn(a)
BY ResolvingHolds, NamingHolds, UpsertHolds, AddingHolds, MergingHolds, EditingHolds DEF Step

\* The steps that may follow each step, and the concepts a call goes on with.
Next1(a, steps) == job'[a].pc \in steps /\ job'[a].op \in {job[a].op, None}
SameNode(a) == job'[a].node = job[a].node

LEMMA AfterReturn == ASSUME MemoryInv, NEW a \in Actors, Return(a) PROVE job'[a] = Idle
BY DEF MemoryInv, Return

LEMMA AfterFact ==
  ASSUME MemoryInv, NEW a \in Actors, job[a].op \in {"learn", "write"}, FactDone(a)
  PROVE  /\ Next1(a, {"idle", "byKey", "current"})
         /\ job'[a].pc = "current" => SameNode(a)
<1> DEFINE j == job[a]
<1>1. ASSUME NEW x, NEW title, NEW r, NEW v, j.op = "learn",
             job' = [job EXCEPT ![a] = ReadFact(j.at, x, title, r, v)]
      PROVE  job'[a].pc = "byKey" /\ job'[a].op = "learn"
  BY <1>1 DEF ReadFact, Idle, MemoryInv
<1>2. ASSUME NEW r, NEW v, j.op = "write",
             job' = [job EXCEPT ![a] = [Idle EXCEPT
               !.pc = "current", !.op = "write", !.at = j.at, !.node = j.node,
               !.rel = r, !.val = v]]
      PROVE  job'[a].pc = "current" /\ job'[a].op = "write" /\ SameNode(a)
  BY <1>2 DEF Idle, MemoryInv, SameNode
<1>3. CASE Return(a)
  BY <1>3, AfterReturn DEF Idle, Next1
<1>4. CASE ~Return(a) /\ j.op = "learn"
  <2>1. PICK x, title, r, v : job' = [job EXCEPT ![a] = ReadFact(j.at, x, title, r, v)]
    BY <1>4 DEF FactDone
  <2> QED BY <1>1, <1>4, <2>1 DEF Next1
<1>5. CASE ~Return(a) /\ j.op = "write"
  <2>1. PICK r, v : job' = [job EXCEPT ![a] = [Idle EXCEPT
               !.pc = "current", !.op = "write", !.at = j.at, !.node = j.node,
               !.rel = r, !.val = v]]
    BY <1>5 DEF FactDone
  <2> QED BY <1>2, <1>5, <2>1 DEF Next1
<1> QED BY <1>3, <1>4, <1>5

\* The record a call goes on with, when a step changes only these fields of it.
LEMMA Goes ==
  ASSUME MemoryInv, NEW a \in Actors, NEW s, Go(a, s)
  PROVE  job'[a] = [job[a] EXCEPT !.pc = s] /\ Next1(a, {s})
           /\ SameNode(a) /\ job'[a].into = job[a].into /\ job'[a].op = job[a].op
<1>1. job[a] \in Jobs
  BY DEF MemoryInv
<1> QED BY <1>1 DEF Go, MemoryInv, Jobs, Next1, SameNode

LEMMA NextSteps ==
  ASSUME MemoryInv, NEW a \in Actors
  PROVE  /\ ByKey(a) \/ ByAlias(a) \/ ByScan(a) => Next1(a, {"findAlias", "byAlias", "scan", "find"})
         /\ FindAlias(a) \/ KeepAlias(a) =>
              /\ Next1(a, {"idle", "findAlias", "keepAlias", "touch", "drop"})
              /\ job'[a].pc # "idle" => SameNode(a) /\ job'[a].into = job[a].into
         /\ Touch(a) => Next1(a, {"idle", "current"}) /\ (job'[a].pc = "current" => SameNode(a))
         /\ FindNode(a) => Next1(a, {"enrich", "open"})
         /\ EnrichNode(a) \/ SetContent(a) =>
              /\ Next1(a, {"idle", "content", "current"})
              /\ job'[a].pc = "current" => SameNode(a)
         /\ OpenNode(a) => Next1(a, {"idle", "content", "current"})
         /\ Confirm(a) \/ InsertFact(a) =>
              /\ Next1(a, {"idle", "byKey", "current"})
              /\ job'[a].pc = "current" => SameNode(a)
         /\ FindFact(a) => Next1(a, {"idle", "retire"})
         /\ DeleteNode(a) => Next1(a, {"idle", "forget"}) /\ (job'[a].pc = "forget" => SameNode(a))
         /\ RetireFact(a) \/ DeleteFacts(a) \/ DropSource(a) => job'[a] = Idle
<1> DEFINE j == job[a]
<1>1. j \in Jobs /\ JobHolds(a, j)
  BY DEF MemoryInv
<1>2. ASSUME Return(a) PROVE job'[a] = Idle /\ job'[a].pc = "idle" /\ job'[a].op = None
  BY <1>2, AfterReturn DEF Idle
<1>3. ASSUME ByKey(a) \/ ByAlias(a) \/ ByScan(a)
      PROVE  Next1(a, {"findAlias", "byAlias", "scan", "find"})
  <2>1. ASSUME NEW n, job' = [job EXCEPT ![a].pc = "findAlias", ![a].node = n]
        PROVE  Next1(a, {"findAlias"})
    BY <1>1, <2>1 DEF MemoryInv, Jobs, Next1
  <2>2. \/ \E n : job' = [job EXCEPT ![a].pc = "findAlias", ![a].node = n]
        \/ Go(a, "byAlias") \/ Go(a, "scan") \/ Go(a, "find")
    BY <1>3 DEF ByKey, ByAlias, ByScan
  <2> QED BY <2>1, <2>2, Goes DEF Next1
<1>4. ASSUME FindAlias(a) \/ KeepAlias(a)
      PROVE  /\ Next1(a, {"idle", "findAlias", "keepAlias", "touch", "drop"})
             /\ job'[a].pc # "idle" => SameNode(a) /\ job'[a].into = j.into
  <2>1. ASSUME job' = [job EXCEPT ![a].pc = "findAlias", ![a].naming = "title"]
        PROVE  Next1(a, {"findAlias"}) /\ SameNode(a) /\ job'[a].into = j.into
    BY <1>1, <2>1 DEF MemoryInv, Jobs, Next1, SameNode
  <2>2. \/ job' = [job EXCEPT ![a].pc = "findAlias", ![a].naming = "title"]
        \/ Go(a, "keepAlias") \/ Go(a, "drop") \/ Go(a, "touch") \/ Return(a)
    BY <1>4 DEF FindAlias, KeepAlias, Named
  <2> QED BY <1>2, <2>1, <2>2, Goes DEF Next1
<1>5. ASSUME Touch(a)
      PROVE  Next1(a, {"idle", "current"}) /\ (job'[a].pc = "current" => SameNode(a))
  BY <1>2, <1>5, Goes DEF Touch, Next1
<1>6. ASSUME FindNode(a)
      PROVE  Next1(a, {"enrich", "open"})
  <2>1. ASSUME NEW n, job' = [job EXCEPT ![a].pc = "enrich", ![a].node = n]
        PROVE  Next1(a, {"enrich"})
    BY <1>1, <2>1 DEF MemoryInv, Jobs, Next1
  <2>2. (\E n : job' = [job EXCEPT ![a].pc = "enrich", ![a].node = n]) \/ Go(a, "open")
    BY <1>6 DEF FindNode
  <2> QED BY <2>1, <2>2, Goes DEF Next1
<1>7. ASSUME EnrichNode(a)
      PROVE  /\ Next1(a, {"idle", "content", "current"})
             /\ job'[a].pc = "current" => SameNode(a)
  <2>1. Return(a) \/ Go(a, "content") \/ Go(a, "current")
    BY <1>7 DEF EnrichNode, Upserted
  <2> QED BY <1>2, <2>1, Goes DEF Next1
<1>8. ASSUME OpenNode(a)
      PROVE  Next1(a, {"idle", "content", "current"})
  <2>1. ASSUME NEW n, NEW s, job' = [job EXCEPT ![a].pc = s, ![a].node = n]
        PROVE  Next1(a, {s})
    BY <1>1, <2>1 DEF MemoryInv, Jobs, Next1
  <2>2. CASE ~Return(a)
    <3>1. PICK n \in Nodes : job' = [job EXCEPT ![a].pc = Upserted(a), ![a].node = n]
      BY <1>8, <2>2 DEF OpenNode
    <3>2. Upserted(a) \in {"content", "current"}
      BY DEF Upserted
    <3>3. Next1(a, {Upserted(a)})
      BY <2>1, <3>1
    <3> QED BY <3>2, <3>3 DEF Next1
  <2> QED BY <1>2, <2>2 DEF Next1
<1>9. ASSUME SetContent(a)
      PROVE  /\ Next1(a, {"idle", "content", "current"})
             /\ job'[a].pc = "current" => SameNode(a)
  <2>1. CASE ~Return(a)
    <3>1. PICK r \in Relations, v \in Values :
            job' = [job EXCEPT ![a].pc = "current", ![a].rel = r, ![a].val = v]
      BY <1>9, <2>1 DEF SetContent
    <3> QED BY <1>1, <3>1 DEF MemoryInv, Jobs, Next1, SameNode
  <2> QED BY <1>2, <2>1 DEF Next1
<1>10. ASSUME Confirm(a) \/ InsertFact(a)
      PROVE  /\ Next1(a, {"idle", "byKey", "current"})
             /\ job'[a].pc = "current" => SameNode(a)
  <2>1. j.op \in {"learn", "write"}
    BY <1>1, <1>10, StepsDisjoint DEF JobHolds, Confirm, InsertFact, At, Adding, Writing
  <2> QED BY <1>2, <1>10, <2>1, AfterFact DEF Confirm, InsertFact, Next1
<1>11. ASSUME FindFact(a)
      PROVE  Next1(a, {"idle", "retire"})
  BY <1>2, <1>11, Goes DEF FindFact, Next1
<1>13. ASSUME DeleteNode(a)
      PROVE  Next1(a, {"idle", "forget"}) /\ (job'[a].pc = "forget" => SameNode(a))
  BY <1>2, <1>13, Goes DEF DeleteNode, Next1
<1>12. ASSUME RetireFact(a) \/ DeleteFacts(a) \/ DropSource(a)
      PROVE  job'[a] = Idle
  BY <1>2, <1>12 DEF RetireFact, DeleteFacts, DropSource
<1> QED BY <1>3, <1>4, <1>5, <1>6, <1>7, <1>8, <1>9, <1>10, <1>11, <1>12, <1>13

\* The steps of a merge: what each leaves in the record of its call.
SameMerge(a) ==
  /\ job'[a].op = "merge" /\ SameNode(a) /\ job'[a].into = job[a].into

LEMMA MergeSteps ==
  ASSUME MemoryInv, NEW a \in Actors
  PROVE  /\ FindSource(a) => job'[a] = Idle \/ (job'[a].pc = "target" /\ SameMerge(a))
         /\ FindTarget(a) => job'[a] = Idle \/ (job'[a].pc = "theirs" /\ SameMerge(a))
         /\ ReadTheirs(a) =>
              job'[a].pc = "ours" /\ SameMerge(a) /\ job'[a].seen = OpenEdges(job[a].into)
         /\ ReadOurs(a) =>
              LET shared == {e \in OpenEdges(job[a].node) :
                               \E c \in job[a].seen : edges[c].rel = edges[e].rel}
              IN  /\ SameMerge(a) /\ job'[a].todo = shared /\ job'[a].seen = job[a].seen
                  /\ job'[a].pc = IF shared = {} THEN "moves" ELSE "settle"
         /\ Settle(a) => (job'[a] = Idle /\ UNCHANGED edges) \/
              \E e \in job[a].todo : \E clash \in job[a].seen :
                LET lost == Loser(e, clash)
                    won == IF lost = e THEN clash ELSE e
                IN  /\ edges[clash].rel = edges[e].rel
                    /\ HasEdge(lost) /\ edges' = Closed(lost, won)
                    /\ SameMerge(a) /\ job'[a].todo = job[a].todo \ {e} /\ job'[a].seen = job[a].seen
                    /\ job'[a].pc = IF job[a].todo = {e} THEN "moves" ELSE "settle"
         /\ ReadMoves(a) =>
              LET held == {e \in Edges : HasEdge(e) /\ edges[e].subject = job[a].node}
              IN  /\ SameMerge(a) /\ job'[a].todo = held
                  /\ job'[a].pc = IF held = {} THEN "aliases" ELSE "move"
         /\ Move(a) => (job'[a] = Idle /\ UNCHANGED edges) \/
              \E e \in job[a].todo :
                /\ HasEdge(e) /\ edges' = [edges EXCEPT ![e].subject = job[a].into]
                /\ SameMerge(a) /\ job'[a].todo = job[a].todo \ {e}
                /\ job'[a].pc = IF job[a].todo = {e} THEN "aliases" ELSE "move"
         /\ ReadAliases(a) \/ MoveAlias(a) => job'[a].pc \in {"findAlias", "realias"} /\ SameMerge(a)
<1> DEFINE j == job[a]
<1>1. j \in Jobs /\ JobHolds(a, j)
  BY DEF MemoryInv
<1>2. j.pc \in Merging => j.op = "merge"
  BY <1>1, StepsDisjoint DEF JobHolds
<1>3. ASSUME FindSource(a)
      PROVE  job'[a] = Idle \/ (job'[a].pc = "target" /\ SameMerge(a))
  <2>1. ASSUME NEW x, NEW title,
               job' = [job EXCEPT ![a].pc = "target", ![a].key = x, ![a].title = title]
        PROVE  job'[a].pc = "target" /\ job'[a].op = j.op /\ SameNode(a) /\ job'[a].into = j.into
    BY <1>1, <2>1 DEF MemoryInv, Jobs, SameNode
  <2>2. j.op = "merge"
    BY <1>2, <1>3 DEF FindSource, At, Merging
  <2>3. \/ Return(a)
        \/ \E x, title : job' = [job EXCEPT ![a].pc = "target", ![a].key = x, ![a].title = title]
    BY <1>3 DEF FindSource
  <2> QED BY <2>1, <2>2, <2>3, AfterReturn DEF SameMerge
<1>4. ASSUME FindTarget(a)
      PROVE  job'[a] = Idle \/ (job'[a].pc = "theirs" /\ SameMerge(a))
  <2>1. j.op = "merge" /\ (Return(a) \/ Go(a, "theirs"))
    BY <1>2, <1>4 DEF FindTarget, At, Merging
  <2> QED BY <2>1, Goes, AfterReturn DEF SameMerge, Next1
<1>5. ASSUME ReadTheirs(a)
      PROVE  job'[a].pc = "ours" /\ SameMerge(a) /\ job'[a].seen = OpenEdges(j.into)
  <2>1. job'[a] = [j EXCEPT !.pc = "ours", !.seen = OpenEdges(j.into)]
    BY <1>1, <1>5 DEF ReadTheirs, MemoryInv
  <2>2. j.op = "merge"
    BY <1>2, <1>5 DEF ReadTheirs, At, Merging
  <2> QED BY <1>1, <2>1, <2>2 DEF SameMerge, SameNode, Jobs
<1>6. ASSUME ReadOurs(a)
      PROVE  LET shared == {e \in OpenEdges(j.node) : \E c \in j.seen : edges[c].rel = edges[e].rel}
             IN  /\ SameMerge(a) /\ job'[a].todo = shared /\ job'[a].seen = j.seen
                 /\ job'[a].pc = IF shared = {} THEN "moves" ELSE "settle"
  <2> DEFINE shared == {e \in OpenEdges(j.node) : \E c \in j.seen : edges[c].rel = edges[e].rel}
             s == IF shared = {} THEN "moves" ELSE "settle"
  <2>1. job'[a] = [j EXCEPT !.pc = s, !.todo = shared]
    BY <1>1, <1>6 DEF ReadOurs, MemoryInv
  <2>2. job'[a].pc = s /\ job'[a].op = j.op /\ SameNode(a) /\ job'[a].into = j.into
          /\ job'[a].todo = shared /\ job'[a].seen = j.seen
    <3> HIDE DEF shared, s
    <3> QED BY <1>1, <2>1 DEF Jobs, SameNode
  <2>3. j.op = "merge"
    BY <1>2, <1>6 DEF ReadOurs, At, Merging
  <2> QED BY <2>2, <2>3 DEF SameMerge
<1>7. ASSUME NEW t, NEW s, job' = [job EXCEPT ![a].todo = t, ![a].pc = s]
      PROVE  /\ job'[a].pc = s /\ job'[a].op = j.op /\ SameNode(a) /\ job'[a].into = j.into
             /\ job'[a].todo = t /\ job'[a].seen = j.seen
  BY <1>1, <1>7 DEF MemoryInv, Jobs, SameNode
<1>8. ASSUME Settle(a)
      PROVE  (job'[a] = Idle /\ UNCHANGED edges) \/
               \E e \in j.todo : \E clash \in j.seen :
                 LET lost == Loser(e, clash)
                     won == IF lost = e THEN clash ELSE e
                 IN  /\ edges[clash].rel = edges[e].rel
                     /\ HasEdge(lost) /\ edges' = Closed(lost, won)
                     /\ SameMerge(a) /\ job'[a].todo = j.todo \ {e} /\ job'[a].seen = j.seen
                     /\ job'[a].pc = IF j.todo = {e} THEN "moves" ELSE "settle"
  <2>1. j.op = "merge"
    BY <1>2, <1>8 DEF Settle, At, Merging
  <2>2. CASE ~(Return(a) /\ UNCHANGED edges)
    <3>1. PICK e \in j.todo : \E clash \in j.seen :
            LET lost == Loser(e, clash)
                won == IF lost = e THEN clash ELSE e
            IN  /\ edges[clash].rel = edges[e].rel
                /\ HasEdge(lost) /\ edges' = Closed(lost, won)
                /\ job' = [job EXCEPT ![a].todo = @ \ {e},
                                      ![a].pc = IF j.todo = {e} THEN "moves" ELSE "settle"]
      BY <1>8, <2>2 DEF Settle
    <3>2. /\ SameMerge(a) /\ job'[a].todo = j.todo \ {e} /\ job'[a].seen = j.seen
          /\ job'[a].pc = IF j.todo = {e} THEN "moves" ELSE "settle"
      <4> DEFINE t == j.todo \ {e}
                 s == IF j.todo = {e} THEN "moves" ELSE "settle"
      <4>1. job' = [job EXCEPT ![a].todo = t, ![a].pc = s]
        BY <3>1
      <4>2. /\ job'[a].pc = s /\ job'[a].op = j.op /\ SameNode(a) /\ job'[a].into = j.into
            /\ job'[a].todo = t /\ job'[a].seen = j.seen
        <5> HIDE DEF t, s
        <5> QED BY <1>7, <4>1
      <4> QED BY <2>1, <4>2 DEF SameMerge
    <3> QED BY <3>1, <3>2
  <2> QED BY <2>2, AfterReturn
<1>9. ASSUME ReadMoves(a)
      PROVE  LET held == {e \in Edges : HasEdge(e) /\ edges[e].subject = j.node}
             IN  /\ SameMerge(a) /\ job'[a].todo = held
                 /\ job'[a].pc = IF held = {} THEN "aliases" ELSE "move"
  <2> DEFINE held == {e \in Edges : HasEdge(e) /\ edges[e].subject = j.node}
             s == IF held = {} THEN "aliases" ELSE "move"
  <2>1. job' = [job EXCEPT ![a].todo = held, ![a].pc = s]
    BY <1>9 DEF ReadMoves
  <2>2. /\ job'[a].pc = s /\ job'[a].op = j.op /\ SameNode(a) /\ job'[a].into = j.into
        /\ job'[a].todo = held
    <3> HIDE DEF held, s
    <3> QED BY <1>7, <2>1
  <2>3. j.op = "merge"
    BY <1>2, <1>9 DEF ReadMoves, At, Merging
  <2> QED BY <2>2, <2>3 DEF SameMerge
<1>10. ASSUME Move(a)
      PROVE  (job'[a] = Idle /\ UNCHANGED edges) \/
               \E e \in j.todo :
                 /\ HasEdge(e) /\ edges' = [edges EXCEPT ![e].subject = j.into]
                 /\ SameMerge(a) /\ job'[a].todo = j.todo \ {e}
                 /\ job'[a].pc = IF j.todo = {e} THEN "aliases" ELSE "move"
  <2>1. j.op = "merge"
    BY <1>2, <1>10 DEF Move, At, Merging
  <2>2. CASE ~(Return(a) /\ UNCHANGED edges)
    <3>1. PICK e \in j.todo :
            /\ HasEdge(e) /\ edges' = [edges EXCEPT ![e].subject = j.into]
            /\ job' = [job EXCEPT ![a].todo = @ \ {e},
                                  ![a].pc = IF j.todo = {e} THEN "aliases" ELSE "move"]
      BY <1>10, <2>2 DEF Move
    <3>2. /\ SameMerge(a) /\ job'[a].todo = j.todo \ {e}
          /\ job'[a].pc = IF j.todo = {e} THEN "aliases" ELSE "move"
      <4> DEFINE t == j.todo \ {e}
                 s == IF j.todo = {e} THEN "aliases" ELSE "move"
      <4>1. job' = [job EXCEPT ![a].todo = t, ![a].pc = s]
        BY <3>1
      <4>2. /\ job'[a].pc = s /\ job'[a].op = j.op /\ SameNode(a) /\ job'[a].into = j.into
            /\ job'[a].todo = t /\ job'[a].seen = j.seen
        <5> HIDE DEF t, s
        <5> QED BY <1>7, <4>1
      <4> QED BY <2>1, <4>2 DEF SameMerge
    <3> QED BY <3>1, <3>2
  <2> QED BY <2>2, AfterReturn
<1>11. ASSUME ReadAliases(a) \/ MoveAlias(a)
      PROVE  job'[a].pc \in {"findAlias", "realias"} /\ SameMerge(a)
  <2>1. ASSUME NEW held, NEW s, job' = [job EXCEPT ![a].names = held, ![a].pc = s]
        PROVE  job'[a].pc = s /\ job'[a].op = j.op /\ SameNode(a) /\ job'[a].into = j.into
    BY <1>1, <2>1 DEF MemoryInv, Jobs, SameNode
  <2>2. j.op = "merge"
    BY <1>2, <1>11 DEF ReadAliases, MoveAlias, At, Merging
  <2>3. CASE ReadAliases(a)
    <3> DEFINE held == {x \in Names : alias[x] = j.node}
               s == IF held = {} THEN "findAlias" ELSE "realias"
    <3>1. job' = [job EXCEPT ![a].names = held, ![a].pc = s]
      BY <2>3 DEF ReadAliases
    <3>2. s \in {"findAlias", "realias"}
      OBVIOUS
    <3> HIDE DEF held, s
    <3> QED BY <2>1, <2>2, <3>1, <3>2 DEF SameMerge
  <2>4. CASE MoveAlias(a)
    <3>1. PICK x \in j.names :
             job' = [job EXCEPT ![a].names = @ \ {x},
                                ![a].pc = IF j.names = {x} THEN "findAlias" ELSE "realias"]
      BY <2>4 DEF MoveAlias
    <3> DEFINE s == IF j.names = {x} THEN "findAlias" ELSE "realias"
               held == j.names \ {x}
    <3>2. job' = [job EXCEPT ![a].names = held, ![a].pc = s]
      BY <3>1
    <3>3. s \in {"findAlias", "realias"}
      OBVIOUS
    <3> HIDE DEF held, s
    <3> QED BY <2>1, <2>2, <3>2, <3>3 DEF SameMerge
  <2> QED BY <1>11, <2>3, <2>4
<1> QED BY <1>3, <1>4, <1>5, <1>6, <1>8, <1>9, <1>10, <1>11

\* The steps that write a fact: what each leaves in the record of its call.
SameFact(a) == SameNode(a) /\ job'[a].rel = job[a].rel

LEMMA WriteSteps ==
  ASSUME MemoryInv, NEW a \in Actors
  PROVE  /\ ReadCurrent(a) =>
              LET current == {e \in OpenEdges(job[a].node) : edges[e].rel = job[a].rel}
              IN  /\ SameFact(a)
                  /\ \/ job'[a].pc = "confirm"
                     \/ /\ job'[a].pc = IF current = {} THEN "insert" ELSE "close"
                        /\ job'[a].todo = current
                        /\ made' = made + 1 /\ job'[a].edge = made'
         /\ CloseOld(a) => (job'[a] = Idle /\ UNCHANGED edges) \/
              \E e \in job[a].todo :
                /\ HasEdge(e) /\ edges' = Closed(e, job[a].edge)
                /\ SameFact(a) /\ job'[a].edge = job[a].edge
                /\ job'[a].todo = job[a].todo \ {e}
                /\ job'[a].pc = IF job[a].todo = {e} THEN "insert" ELSE "close"
<1> DEFINE j == job[a]
<1>1. j \in Jobs
  BY DEF MemoryInv
<1>2. ASSUME ReadCurrent(a)
      PROVE  LET current == {e \in OpenEdges(j.node) : edges[e].rel = j.rel}
             IN  /\ SameFact(a)
                 /\ \/ job'[a].pc = "confirm"
                    \/ /\ job'[a].pc = IF current = {} THEN "insert" ELSE "close"
                       /\ job'[a].todo = current
                       /\ made' = made + 1 /\ job'[a].edge = made'
  <2> DEFINE current == {e \in OpenEdges(j.node) : edges[e].rel = j.rel}
             call == [j EXCEPT !.key = None, !.title = None, !.naming = "key"]
             s == IF current = {} THEN "insert" ELSE "close"
  <2>1. \/ \E e : job'[a] = [call EXCEPT !.pc = "confirm", !.edge = e]
        \/ /\ made' = made + 1
           /\ job'[a] = [call EXCEPT !.pc = s, !.edge = made', !.todo = current]
    <3>1. \/ \E e : job' = [job EXCEPT ![a] = [call EXCEPT !.pc = "confirm", !.edge = e]]
          \/ /\ made' = made + 1
             /\ job' = [job EXCEPT ![a] = [call EXCEPT !.pc = s, !.edge = made + 1, !.todo = current]]
      BY <1>2 DEF ReadCurrent
    <3> HIDE DEF s, call, current
    <3> QED BY <3>1 DEF MemoryInv
  <2>2. call \in Jobs /\ call.node = j.node /\ call.rel = j.rel
    BY <1>1 DEF Jobs
  <2>3. \/ job'[a].pc = "confirm" /\ SameFact(a)
        \/ /\ made' = made + 1 /\ SameFact(a) /\ job'[a].pc = s /\ job'[a].todo = current
           /\ job'[a].edge = made'
    <3> HIDE DEF s, call, current
    <3> QED BY <2>1, <2>2 DEF Jobs, SameFact, SameNode
  <2> QED BY <2>3
<1>3. ASSUME CloseOld(a)
      PROVE  (job'[a] = Idle /\ UNCHANGED edges) \/
              \E e \in j.todo :
                /\ HasEdge(e) /\ edges' = Closed(e, j.edge)
                /\ SameFact(a) /\ job'[a].edge = j.edge /\ job'[a].todo = j.todo \ {e}
                /\ job'[a].pc = IF j.todo = {e} THEN "insert" ELSE "close"
  <2>1. CASE ~(Return(a) /\ UNCHANGED edges)
    <3>1. PICK e \in j.todo :
            /\ HasEdge(e) /\ edges' = Closed(e, j.edge)
            /\ job' = [job EXCEPT ![a].todo = @ \ {e},
                                  ![a].pc = IF j.todo = {e} THEN "insert" ELSE "close"]
      BY <1>3, <2>1 DEF CloseOld
    <3> DEFINE s == IF j.todo = {e} THEN "insert" ELSE "close"
               t == j.todo \ {e}
    <3>2. job' = [job EXCEPT ![a].todo = t, ![a].pc = s]
      BY <3>1
    <3>3. /\ SameFact(a) /\ job'[a].edge = j.edge /\ job'[a].todo = t /\ job'[a].pc = s
      <4> HIDE DEF s, t
      <4> QED BY <1>1, <3>2 DEF MemoryInv, Jobs, SameFact, SameNode
    <3> QED BY <3>1, <3>3
  <2> QED BY <2>1, AfterReturn
<1> QED BY <1>2, <1>3

\* Only a call that reads what is true draws a row, and only one that closes
\* older values still holds it afterwards.
LEMMA DrawsWhenItReads ==
  ASSUME MemoryInv, NEW a \in Actors, Step(a), ~ReadCurrent(a), ~CloseOld(a)
  PROVE  job'[a].pc \notin Writing
BY NextSteps, MergeSteps DEF Step, Next1, Writing, Idle

\* What a step of a call does to the facts.
LEMMA FactsChange ==
  ASSUME MemoryInv, NEW a \in Actors, Step(a)
  PROVE  /\ edges' \in [Edges -> EdgeRows]
         /\ \A e \in Edges : edges'[e].state = "unwritten" <=>
              edges[e].state = "unwritten" /\ ~(InsertFact(a) /\ e = job[a].edge)
<1> DEFINE j == job[a]
<1>1. JobHolds(a, j) /\ j \in Jobs /\ edges \in [Edges -> EdgeRows]
  BY DEF MemoryInv, JobHolds, TablesTyped
<1>2. ASSUME NEW e \in Edges, HasEdge(e), NEW w \in Edges, edges' = Closed(e, w), ~InsertFact(a)
      PROVE  /\ edges' \in [Edges -> EdgeRows]
             /\ \A f \in Edges : edges'[f].state = "unwritten" <=> edges[f].state = "unwritten"
  BY ZenonT(60), <1>1, <1>2 DEF Closed, HasEdge, EdgeRows
<1>3. CASE UNCHANGED edges /\ ~InsertFact(a)
  BY <1>1, <1>3
<1>4. CASE CloseOld(a)
  <2>1. j.edge \in Edges /\ j.todo \subseteq Edges /\ ~InsertFact(a)
    BY <1>1, <1>4 DEF JobHolds, Jobs, CloseOld, InsertFact, At, Writing
  <2> QED BY <1>2, <1>3, <1>4, <2>1 DEF CloseOld
<1>5. CASE Settle(a)
  <2>1. j.todo \subseteq Edges /\ j.seen \subseteq Edges /\ ~InsertFact(a)
    BY <1>1, <1>5 DEF Jobs, Settle, InsertFact, At
  <2> QED BY <1>2, <1>3, <1>5, <2>1 DEF Settle, Loser
<1>6. CASE Move(a)
  <2>1. j.todo \subseteq Edges /\ j.into \in Nodes /\ ~InsertFact(a)
    BY <1>1, <1>6, StepsDisjoint DEF JobHolds, Jobs, Move, InsertFact, At, Merging
  <2>2. ASSUME NEW e \in Edges, HasEdge(e), edges' = [edges EXCEPT ![e].subject = j.into]
        PROVE  /\ edges' \in [Edges -> EdgeRows]
               /\ \A f \in Edges : edges'[f].state = "unwritten" <=> edges[f].state = "unwritten"
    BY <1>1, <2>1, <2>2 DEF EdgeRows
  <2> QED BY <1>3, <1>6, <2>1, <2>2 DEF Move
<1>7. CASE RetireFact(a)
  <2>1. j.edge \in Edges /\ ~InsertFact(a)
    BY <1>1, <1>7, StepsDisjoint DEF JobHolds, RetireFact, InsertFact, At
  <2>2. CASE HasEdge(j.edge)
    BY <1>1, <1>7, <2>1, <2>2 DEF RetireFact, HasEdge, EdgeRows
  <2> QED BY <1>3, <1>7, <2>1, <2>2 DEF RetireFact
<1>8. CASE DeleteFacts(a)
  <2>1. ~InsertFact(a)
    BY <1>8 DEF DeleteFacts, InsertFact, At
  <2>2. ASSUME NEW e \in Edges
        PROVE  /\ edges'[e] \in EdgeRows
               /\ edges'[e].state = "unwritten" <=> edges[e].state = "unwritten"
    <3>1. edges'[e] = IF HasEdge(e) /\ edges[e].subject = j.node THEN Forgotten(e) ELSE edges[e]
      BY <1>8 DEF DeleteFacts
    <3>2. edges[e] \in EdgeRows
      BY <1>1
    <3> QED BY <3>1, <3>2 DEF Forgotten, HasEdge, EdgeRows
  <2>3. edges' \in [Edges -> EdgeRows]
    <3>1. edges' = [e \in Edges |-> edges'[e]]
      BY <1>8 DEF DeleteFacts
    <3> QED BY <2>2, <3>1
  <2> QED BY <2>1, <2>2, <2>3
<1>9. CASE InsertFact(a)
  <2>1. j.edge \in Edges /\ j.node \in Nodes /\ j.rel \in Relations /\ j.val \in Values /\ j.at \in Nat
    BY <1>1, <1>9 DEF JobHolds, Jobs, InsertFact, At, Adding, Writing
  <2> QED BY <1>1, <1>9, <2>1 DEF InsertFact, EdgeRows
<1>10. \/ UNCHANGED edges /\ ~InsertFact(a)
       \/ CloseOld(a) \/ Settle(a) \/ Move(a) \/ RetireFact(a) \/ DeleteFacts(a) \/ InsertFact(a)
  BY DEF Step, ByKey, ByAlias, ByScan, FindAlias, KeepAlias, Touch, FindNode, EnrichNode, OpenNode,
         SetContent, ReadCurrent, Confirm, FindSource, FindTarget, ReadTheirs, ReadOurs, ReadMoves,
         ReadAliases, MoveAlias, DropSource, FindFact, DeleteNode
<1> QED BY <1>3, <1>4, <1>5, <1>6, <1>7, <1>8, <1>9, <1>10

LEMMA NamesChange ==
  ASSUME MemoryInv, NEW a \in Actors, Step(a)
  PROVE  alias' \in [Names -> Nodes \cup {Nil}]
<1> DEFINE j == job[a]
<1>1. JobHolds(a, j) /\ alias \in [Names -> Nodes \cup {Nil}]
  BY DEF MemoryInv, TablesTyped
<1>2. CASE KeepAlias(a)
  <2>1. Owner(a) \in Nodes
    BY <1>1, <1>2, StepsDisjoint DEF Owner, JobHolds, KeepAlias, At, Naming
  <2> QED BY <1>1, <1>2, <2>1 DEF KeepAlias
<1>3. CASE MoveAlias(a)
  <2>1. j.into \in Nodes
    BY <1>1, <1>3, StepsDisjoint DEF JobHolds, MoveAlias, At, Merging
  <2> QED BY <1>1, <1>3, <2>1 DEF MoveAlias
<1>4. UNCHANGED alias \/ KeepAlias(a) \/ MoveAlias(a)
  BY DEF Step, ByKey, ByAlias, ByScan, FindAlias, Touch, FindNode, EnrichNode, OpenNode, SetContent,
         ReadCurrent, Confirm, CloseOld, InsertFact, FindSource, FindTarget, ReadTheirs, ReadOurs,
         Settle, ReadMoves, Move, ReadAliases, DropSource, FindFact, RetireFact, DeleteNode,
         DeleteFacts
<1> QED BY <1>1, <1>2, <1>3, <1>4

LEMMA ConceptsChange ==
  ASSUME MemoryInv, NEW a \in Actors, Step(a)
  PROVE  nodes' \in [Nodes -> NodeRows]
<1> DEFINE j == job[a]
<1>1. j \in Jobs /\ nodes \in [Nodes -> NodeRows]
  BY DEF MemoryInv, TablesTyped
<1>2. j.key \in Names \cup {None} /\ j.title \in Names \cup {None}
  BY <1>1 DEF Jobs
<1>3. CASE EnrichNode(a) \/ SetContent(a)
  <2>1. UNCHANGED nodes \/ nodes' = [nodes EXCEPT ![j.node].title = j.title]
    BY <1>3 DEF EnrichNode, SetContent
  <2> QED BY <1>1, <1>2, <2>1 DEF NodeRows
<1>4. CASE OpenNode(a)
  BY <1>1, <1>2, <1>4 DEF OpenNode, NodeRows
<1>5. CASE DropSource(a) \/ DeleteNode(a)
  BY <1>1, <1>5 DEF DropSource, DeleteNode, NoNode, NodeRows
<1>6. UNCHANGED nodes \/ EnrichNode(a) \/ SetContent(a) \/ OpenNode(a) \/ DropSource(a) \/ DeleteNode(a)
  BY DEF Step, ByKey, ByAlias, ByScan, FindAlias, KeepAlias, Touch, FindNode, ReadCurrent, Confirm,
         CloseOld, InsertFact, FindSource, FindTarget, ReadTheirs, ReadOurs, Settle, ReadMoves, Move,
         ReadAliases, MoveAlias, FindFact, RetireFact, DeleteFacts
<1> QED BY <1>1, <1>3, <1>4, <1>5, <1>6

LEMMA StepKeepsMemory == ASSUME MemoryInv, NEW a \in Actors, Step(a) PROVE MemoryInv'
<1> DEFINE j == job[a]
<1>1. CallGoesOn(a)
  BY StepHolds
<1>2. /\ UNCHANGED <<clock, faults>>
      /\ made' = made \/ (ReadCurrent(a) /\ made < MaxEdges /\ made' = made + 1)
  BY DEF Step, ByKey, ByAlias, ByScan, FindAlias, KeepAlias, Touch, FindNode, EnrichNode, OpenNode,
         SetContent, ReadCurrent, Confirm, CloseOld, InsertFact, FindSource, FindTarget, ReadTheirs,
         ReadOurs, Settle, ReadMoves, Move, ReadAliases, MoveAlias, DropSource, FindFact, RetireFact,
         DeleteNode, DeleteFacts
<1>3. made \in 0..MaxEdges /\ made' \in 0..MaxEdges /\ made <= made'
  BY <1>2, BoundsAssumption DEF MemoryInv, TablesTyped
<1>4. TablesTyped'
  BY <1>2, <1>3, FactsChange, NamesChange, ConceptsChange DEF MemoryInv, TablesTyped
<1>5. \A b \in Actors : JobHolds(b, job'[b])
  BY <1>1 DEF MemoryInv, CallGoesOn, Others
<1>6. \A b \in Actors : Draws(b) => job[b].edge \in Edges
  BY DEF MemoryInv, JobHolds, Draws
<1>7. /\ \A e \in Edges : e > made => edges[e].state = "unwritten"
      /\ \A b \in Actors : Draws(b) => job[b].edge <= made /\ edges[job[b].edge].state = "unwritten"
      /\ \A b, c \in Actors : Draws(b) /\ Draws(c) /\ job[b].edge = job[c].edge => b = c
  BY DEF MemoryInv, DrawnOnce
<1>8. Edges = 1..MaxEdges
  BY DEF Edges
<1>9. \A e \in Edges : edges'[e].state = "unwritten" <=>
         edges[e].state = "unwritten" /\ ~(InsertFact(a) /\ e = j.edge)
  BY FactsChange
<1>10. \A b \in Actors : b # a => job'[b] = job[b]
  BY <1>1 DEF CallGoesOn, Others
<1>11. InsertFact(a) => Draws(a)
  BY DEF InsertFact, At, Draws, Writing
<1>12. \A e \in Edges : e > made' => edges'[e].state = "unwritten"
  BY <1>3, <1>6, <1>7, <1>8, <1>9, <1>11
<1>13. \A b \in Actors \ {a} : (Draws(b))' =>
          Draws(b) /\ job'[b].edge = job[b].edge /\ job'[b].edge <= made'
            /\ edges'[job'[b].edge].state = "unwritten"
  BY <1>3, <1>6, <1>7, <1>8, <1>9, <1>10, <1>11 DEF Draws
<1>14. CASE ~ReadCurrent(a) /\ ~CloseOld(a)
  <2>1. ~(Draws(a))'
    BY <1>14, DrawsWhenItReads DEF Draws
  <2>2. DrawnOnce'
    BY <1>7, <1>12, <1>13, <2>1 DEF DrawnOnce
  <2> QED BY <1>1, <1>4, <1>5, <2>2 DEF MemoryInv, CallGoesOn
<1>15. CASE ReadCurrent(a)
  <2>1. (Draws(a))' => job'[a].edge = made + 1 /\ made' = made + 1
    BY <1>15, WriteSteps DEF Draws, Writing
  <2>2. ~InsertFact(a)
    BY <1>15 DEF ReadCurrent, InsertFact, At
  <2>3. (Draws(a))' => /\ job'[a].edge <= made' /\ edges'[job'[a].edge].state = "unwritten"
                       /\ \A b \in Actors : Draws(b) => job[b].edge # job'[a].edge
    BY <1>3, <1>6, <1>7, <1>8, <1>9, <2>1, <2>2
  <2>4. DrawnOnce'
    BY <1>7, <1>12, <1>13, <2>3 DEF DrawnOnce
  <2> QED BY <1>1, <1>4, <1>5, <2>4 DEF MemoryInv, CallGoesOn
<1>16. CASE CloseOld(a)
  <2>1. Draws(a) /\ ~InsertFact(a)
    BY <1>16 DEF CloseOld, InsertFact, At, Draws, Writing
  <2>2. (Draws(a))' => job'[a].edge = j.edge
    BY <1>16, WriteSteps DEF Draws, Idle, Writing
  <2>3. (Draws(a))' => /\ job'[a].edge <= made' /\ edges'[job'[a].edge].state = "unwritten"
    BY <1>3, <1>6, <1>7, <1>8, <1>9, <2>1, <2>2
  <2>4. DrawnOnce'
    BY <1>7, <1>12, <1>13, <2>1, <2>2, <2>3 DEF DrawnOnce
  <2> QED BY <1>1, <1>4, <1>5, <2>4 DEF MemoryInv, CallGoesOn
<1> QED BY <1>14, <1>15, <1>16

LEMMA MemoryInvInit == Init => MemoryInv
<1> SUFFICES ASSUME Init PROVE MemoryInv
  OBVIOUS
<1>1. Idle \in Jobs /\ Idle.pc = "idle"
  BY DEF Idle, Jobs, Ops, Steps
<1>2. TablesTyped
  BY BoundsAssumption DEF Init, TablesTyped, NodeRows, EdgeRows, NoNode, NoEdge
<1>3. DrawnOnce
  BY <1>1 DEF Init, DrawnOnce, Draws, Writing, NoEdge
<1> QED BY <1>1, <1>2, <1>3, IdleHolds DEF Init, MemoryInv

LEMMA MemoryInvNext == MemoryInv /\ [Next]_vars => MemoryInv'
<1> SUFFICES ASSUME MemoryInv, [Next]_vars PROVE MemoryInv'
  OBVIOUS
<1>1. ASSUME NEW a \in Actors,
             \/ a \in Workers /\ Learn(a)
             \/ a \in Editors /\ (Write(a) \/ Merge(a) \/ Retire(a) \/ Delete(a))
      PROVE  MemoryInv'
  <2>1. /\ CallGoesOn(a) /\ job'[a].pc \notin Adding /\ clock' = clock + 1
        /\ UNCHANGED <<nodes, alias, edges, made, faults>>
    BY <1>1, StartingHolds
  <2>2. clock' \in Nat
    BY <2>1 DEF MemoryInv, TablesTyped
  <2>3. TablesTyped'
    BY <2>1, <2>2 DEF MemoryInv, TablesTyped
  <2>4. \A b \in Actors : JobHolds(b, job'[b])
    BY <2>1 DEF MemoryInv, CallGoesOn, Others
  <2>5. \A b \in Actors : (Draws(b))' => b # a /\ Draws(b) /\ job'[b] = job[b]
    BY <2>1 DEF Draws, CallGoesOn, Others, Adding
  <2>6. DrawnOnce'
    BY <2>1, <2>5 DEF MemoryInv, DrawnOnce
  <2> QED BY <2>1, <2>3, <2>4, <2>6 DEF MemoryInv, CallGoesOn
<1>2. ASSUME NEW a \in Actors, Step(a) PROVE MemoryInv'
  BY <1>2, StepKeepsMemory
<1>3. ASSUME NEW a \in Actors, Stop(a) PROVE MemoryInv'
  <2>1. CallGoesOn(a) /\ job'[a].pc = "idle"
    BY <1>3, ReturnHolds DEF Stop, Return, Idle, MemoryInv
  <2>2. TablesTyped'
    BY <1>3 DEF Stop, MemoryInv, TablesTyped
  <2>3. \A b \in Actors : JobHolds(b, job'[b])
    BY <2>1 DEF MemoryInv, CallGoesOn, Others
  <2>4. \A b \in Actors : (Draws(b))' => b # a /\ Draws(b) /\ job'[b] = job[b]
    BY <2>1 DEF Draws, CallGoesOn, Others, Writing
  <2>5. DrawnOnce'
    BY <1>3, <2>4 DEF Stop, MemoryInv, DrawnOnce
  <2> QED BY <2>1, <2>2, <2>3, <2>5 DEF MemoryInv, CallGoesOn
<1>4. CASE UNCHANGED vars
  BY <1>4 DEF vars, MemoryInv, TablesTyped, DrawnOnce, Draws
<1> QED BY <1>1, <1>2, <1>3, <1>4 DEF Next, Actors

\* Every call holds what its steps need, and a row that is drawn is written by
\* the call that drew it.
THEOREM MemoryIsTyped == Spec => []MemoryInv
BY MemoryInvInit, MemoryInvNext, PTL DEF Spec

-----------------------------------------------------------------------------
\* Only a merge moves a name, however calls interleave, fail and stop
\* (record_alias, merge_nodes).
THEOREM NamesAreKept == Spec => NamesStay
<1> DEFINE Kept(x) ==
      alias[x] # Nil /\ alias'[x] # alias[x] =>
        \E a \in Editors : At(a, "realias") /\ alias'[x] = job[a].into
<1>1. MemoryInv /\ [Next]_vars => [\A x \in Names : Kept(x)]_vars
  <2> SUFFICES ASSUME MemoryInv, Next, NEW x \in Names, alias[x] # Nil, alias'[x] # alias[x]
               PROVE  \E a \in Editors : At(a, "realias") /\ alias'[x] = job[a].into
    BY DEF Next
  <2>1. PICK a \in Actors : KeepAlias(a) \/ MoveAlias(a)
    BY ZenonT(60) DEF Next, Actors, Learn, Write, Merge, Retire, Delete, Start, Stop, Step, ByKey, ByAlias, ByScan,
           FindAlias, Touch, FindNode, EnrichNode, OpenNode, SetContent, ReadCurrent, Confirm, CloseOld,
           InsertFact, FindSource, FindTarget, ReadTheirs, ReadOurs, Settle, ReadMoves, Move,
           ReadAliases, DropSource, FindFact, RetireFact, DeleteNode, DeleteFacts
  <2>2. alias \in [Names -> Nodes \cup {Nil}] /\ JobHolds(a, job[a])
    BY DEF MemoryInv, TablesTyped
  <2>3. ~KeepAlias(a)
    BY <2>2 DEF KeepAlias
  <2>4. At(a, "realias") /\ a \in Editors
    BY <2>1, <2>2, <2>3, StepsDisjoint DEF MoveAlias, At, JobHolds, Merging
  <2>5. PICK y \in job[a].names : alias' = [alias EXCEPT ![y] = job[a].into]
    BY <2>1, <2>3 DEF MoveAlias
  <2> QED BY <2>2, <2>4, <2>5
<1> QED BY <1>1, MemoryIsTyped, PTL DEF Spec, NamesStay

-----------------------------------------------------------------------------
\* The memory implements FactLife: each step writes, closes or moves one fact,
\* forgets those of one concept, or is a stuttering step.

LEMMA LifeBegins == Init => History!Init
BY DEF Init, History!Init, History!NotWritten, LifeOf, HasEdge, NoEdge

\* What a step does to one fact is what it does to its life.
LEMMA LifeOfOne ==
  ASSUME MemoryInv, NEW e \in Edges, NEW row, edges' = [edges EXCEPT ![e] = row]
  PROVE  [f \in Edges |-> LifeOf(f)]' = [[f \in Edges |-> LifeOf(f)] EXCEPT ![e] = LifeOf(e)']
BY DEF MemoryInv, TablesTyped, LifeOf, HasEdge

LEMMA LifeGoesOn ==
  MemoryInv /\ [Next]_vars => [History!Next]_([e \in Edges |-> LifeOf(e)])
<1> SUFFICES ASSUME MemoryInv, [Next]_vars
             PROVE  [History!Next]_([e \in Edges |-> LifeOf(e)])
  OBVIOUS
<1> DEFINE life == [e \in Edges |-> LifeOf(e)]
<1>1. edges \in [Edges -> EdgeRows]
  BY DEF MemoryInv, TablesTyped
<1>2. CASE UNCHANGED edges
  BY <1>2 DEF LifeOf, HasEdge
<1>3. ASSUME NEW e \in Edges, HasEdge(e), NEW w \in Edges, edges' = Closed(e, w)
      PROVE  History!Close(e) \/ UNCHANGED life
  <2>1. edges' = [edges EXCEPT ![e] = [edges[e] EXCEPT !.state = "closed", !.by = w]]
    BY <1>1, <1>3 DEF Closed
  <2>2. life' = [life EXCEPT ![e] = LifeOf(e)']
    BY <2>1, LifeOfOne
  <2>3. LifeOf(e)' = [LifeOf(e) EXCEPT !.stage = "closed"]
    BY <1>1, <1>3, <2>1 DEF LifeOf, HasEdge, EdgeRows
  <2>4. CASE edges[e].state = "open"
    <3>1. life[e].stage = "current"
      BY <2>4 DEF LifeOf, HasEdge
    <3> QED BY <2>2, <2>3, <3>1 DEF History!Close
  <2>5. CASE edges[e].state = "closed"
    <3>1. LifeOf(e)' = LifeOf(e)
      BY <1>3, <2>3, <2>5 DEF LifeOf
    <3> QED BY <2>2, <3>1
  <2> QED BY <1>3, <2>4, <2>5 DEF HasEdge
<1>4. ASSUME NEW a \in Actors, CloseOld(a) PROVE [History!Next]_life
  <2>1. job[a].edge \in Edges /\ job[a].todo \subseteq Edges
    BY <1>4 DEF MemoryInv, JobHolds, Jobs, CloseOld, At, Writing
  <2>2. PICK e \in job[a].todo : (HasEdge(e) /\ edges' = Closed(e, job[a].edge)) \/ UNCHANGED edges
    BY <1>4 DEF CloseOld
  <2> QED BY <1>2, <1>3, <2>1, <2>2 DEF History!Next
<1>5. ASSUME NEW a \in Actors, Settle(a) PROVE [History!Next]_life
  <2>1. job[a].seen \subseteq Edges /\ job[a].todo \subseteq Edges
    BY DEF MemoryInv, Jobs
  <2>2. PICK e \in Edges, w \in Edges : (HasEdge(e) /\ edges' = Closed(e, w)) \/ UNCHANGED edges
    BY <1>5, <2>1 DEF Settle, Loser
  <2> QED BY <1>2, <1>3, <2>2 DEF History!Next
<1>6. ASSUME NEW a \in Actors, RetireFact(a) PROVE [History!Next]_life
  <2>1. PICK e \in Edges : e = job[a].edge
    BY <1>6, StepsDisjoint DEF MemoryInv, JobHolds, RetireFact, At
  <2>2. CASE HasEdge(e)
    <3>2. edges' = [edges EXCEPT ![e] = [edges[e] EXCEPT !.state = "closed"]]
      BY <1>6, <2>1, <2>2 DEF RetireFact
    <3>3. life' = [life EXCEPT ![e] = LifeOf(e)']
      BY <2>1, <3>2, LifeOfOne
    <3>4. LifeOf(e)' = [LifeOf(e) EXCEPT !.stage = "closed"]
      BY <1>1, <2>1, <2>2, <3>2 DEF LifeOf, HasEdge, EdgeRows
    <3>5. CASE edges[e].state = "open"
      <4>1. life[e].stage = "current"
        BY <2>1, <3>5 DEF LifeOf, HasEdge
      <4> QED BY <2>1, <3>3, <3>4, <4>1 DEF History!Next, History!Close
    <3>6. CASE edges[e].state = "closed"
      <4>1. LifeOf(e)' = LifeOf(e)
        BY <2>2, <3>4, <3>6 DEF LifeOf
      <4> QED BY <2>1, <3>3, <4>1
    <3> QED BY <2>2, <3>5, <3>6 DEF HasEdge
  <2> QED BY <1>2, <1>6, <2>1, <2>2 DEF RetireFact
<1>7. ASSUME NEW a \in Actors, Move(a) PROVE [History!Next]_life
  <2>1. job[a].into \in Nodes /\ job[a].todo \subseteq Edges
    BY <1>7, StepsDisjoint DEF MemoryInv, JobHolds, Jobs, Move, At, Merging
  <2>2. ASSUME NEW e \in Edges, HasEdge(e), edges' = [edges EXCEPT ![e].subject = job[a].into]
        PROVE  History!Move(e)
    <3>1. edges' = [edges EXCEPT ![e] = [edges[e] EXCEPT !.subject = job[a].into]]
      BY <2>2
    <3>2. life' = [life EXCEPT ![e] = LifeOf(e)']
      BY <3>1, LifeOfOne
    <3>3. LifeOf(e)' = [LifeOf(e) EXCEPT !.concept = job[a].into]
      BY <1>1, <2>2, <3>1 DEF LifeOf, HasEdge, EdgeRows
    <3>4. life[e].stage \in {"current", "closed"}
      BY <2>2 DEF LifeOf
    <3> QED BY <2>1, <3>2, <3>3, <3>4 DEF History!Move, History!Kept
  <2>3. PICK e \in Edges :
          \/ HasEdge(e) /\ edges' = [edges EXCEPT ![e].subject = job[a].into]
          \/ UNCHANGED edges
    BY <1>7, <2>1 DEF Move
  <2> QED BY <1>2, <2>2, <2>3 DEF History!Next
<1>8. ASSUME NEW a \in Actors, InsertFact(a) PROVE [History!Next]_life
  <2> DEFINE j == job[a]
             row == [state |-> "open", subject |-> j.node, rel |-> j.rel, val |-> j.val,
                     at |-> j.at, by |-> Nil]
  <2>0. PICK e \in Edges : e = j.edge
    BY <1>8 DEF MemoryInv, JobHolds, InsertFact, At, Adding, Writing
  <2>1. e \in Edges /\ j.node \in Nodes /\ j.rel \in Relations /\ j.val \in Values
    BY <1>8 DEF MemoryInv, JobHolds, InsertFact, At, Adding, Writing
  <2>2. edges[e].state = "unwritten"
    BY <1>8, <2>0 DEF MemoryInv, DrawnOnce, Draws, InsertFact, At, Writing
  <2>3. edges' = [edges EXCEPT ![e] = row]
    BY <1>8, <2>0 DEF InsertFact
  <2>4. life' = [life EXCEPT ![e] = LifeOf(e)']
    BY <2>1, <2>3, LifeOfOne
  <2>5. LifeOf(e)' = [stage |-> "current", concept |-> j.node, relation |-> j.rel, value |-> j.val]
    BY <1>1, <2>1, <2>3 DEF LifeOf, HasEdge
  <2>6. life[e] = [stage |-> "unwritten"]
    BY <2>1, <2>2 DEF LifeOf, HasEdge
  <2>7. life' = [life EXCEPT ![e] =
          [stage |-> "current", concept |-> j.node, relation |-> j.rel, value |-> j.val]]
    BY <2>4, <2>5
  <2> HIDE DEF life
  <2>8. History!Write(e)
    BY <2>1, <2>6, <2>7 DEF life, History!Write, History!NotWritten
  <2> QED BY <2>8 DEF life, History!Next
<1>9. ASSUME NEW a \in Actors, DeleteFacts(a) PROVE [History!Next]_life
  <2> DEFINE n == job[a].node
  <2>1. n \in Nodes
    BY <1>9, StepsDisjoint DEF MemoryInv, JobHolds, DeleteFacts, At
  <2>2. ASSUME NEW e \in Edges
        PROVE  LifeOf(e)' = IF LifeOf(e).stage \in {"current", "closed"} /\ LifeOf(e).concept = n
                            THEN [stage |-> "forgotten"] ELSE LifeOf(e)
    <3>1. edges'[e] = IF HasEdge(e) /\ edges[e].subject = n THEN Forgotten(e) ELSE edges[e]
      BY <1>9 DEF DeleteFacts
    <3>2. edges[e] \in EdgeRows
      BY <1>1
    <3>3. CASE HasEdge(e) /\ edges[e].subject = n
      BY <3>1, <3>2, <3>3 DEF LifeOf, HasEdge, Forgotten, EdgeRows
    <3>4. CASE HasEdge(e) /\ edges[e].subject # n
      BY <3>1, <3>4 DEF LifeOf, HasEdge
    <3>5. CASE ~HasEdge(e)
      BY <3>1, <3>2, <3>5 DEF LifeOf, HasEdge, EdgeRows
    <3> QED BY <3>3, <3>4, <3>5
  <2>3. History!Forget(n)
    BY <2>2 DEF History!Forget, History!Kept, History!Forgotten
  <2> QED BY <2>1, <2>3 DEF History!Next
<1>10. \/ UNCHANGED edges
       \/ \E a \in Actors : \/ CloseOld(a) \/ Settle(a) \/ RetireFact(a) \/ Move(a)
                            \/ InsertFact(a) \/ DeleteFacts(a)
  BY ZenonT(60) DEF Next, Actors, vars, Learn, Write, Merge, Retire, Delete, Start, Stop, Step, ByKey, ByAlias,
         ByScan, FindAlias, KeepAlias, Touch, FindNode, EnrichNode, OpenNode, SetContent, ReadCurrent,
         Confirm, FindSource, FindTarget, ReadTheirs, ReadOurs, ReadMoves, ReadAliases, MoveAlias,
         DropSource, FindFact, DeleteNode
<1> QED BY <1>2, <1>4, <1>5, <1>6, <1>7, <1>8, <1>9, <1>10

\* However calls interleave, fail and stop, a fact keeps what it says, a closed
\* fact is not true again, and only the end of a concept removes one.
THEOREM ImplementsFactLife == Spec => HistoryKept
BY LifeBegins, LifeGoesOn, MemoryIsTyped, PTL DEF Spec, HistoryKept, History!Spec

-----------------------------------------------------------------------------
\* One call after another.  No other call writes between two steps of a call
\* then, so what it read of the rows still holds at its next step.

OneActor == \A a, b \in Actors : a = b

\* No relation has a value that is true now in both concepts.
Apart(n, m) == \A e \in OpenEdges(n), f \in OpenEdges(m) : edges[e].rel # edges[f].rel

\* What a call that writes a fact knows of the values of its relation.
Replacing(j) ==
  /\ j.pc = "close" => j.todo = {e \in OpenEdges(j.node) : edges[e].rel = j.rel}
  /\ j.pc = "insert" => \A e \in OpenEdges(j.node) : edges[e].rel # j.rel

\* What a merge knows of the relations its two concepts share.
Absorbing(j) ==
  /\ j.op = "merge" => j.node # j.into
  /\ j.pc \in {"ours", "settle"} =>
       \A c, d \in j.seen : edges[c].rel = edges[d].rel => c = d
  /\ j.pc = "ours" => OpenEdges(j.into) \subseteq j.seen
  /\ j.pc = "settle" =>
       /\ j.todo \subseteq OpenEdges(j.node)
       /\ \A e \in OpenEdges(j.node), f \in OpenEdges(j.into) :
            edges[e].rel = edges[f].rel => e \in j.todo /\ f \in j.seen
  /\ j.pc \in {"moves", "move"} => Apart(j.node, j.into)
  /\ j.pc = "move" => \A e \in j.todo : edges[e].subject = j.node

CurrentInv ==
  /\ OneCurrent
  /\ \A a \in Actors : Replacing(job[a]) /\ Absorbing(job[a])

\* The steps at which a call relies on what it read of the facts.
Watching == {"close", "insert", "ours", "settle", "moves", "move"}

\* A step that opens no fact, and moves none.
OnlyCloses ==
  \A e \in Edges : edges'[e].state = "open" =>
    /\ edges[e].state = "open" /\ edges'[e].subject = edges[e].subject
    /\ edges'[e].rel = edges[e].rel

LEMMA ClosingKeepsCurrent == OneCurrent /\ OnlyCloses => OneCurrent'
BY DEF OneCurrent, OnlyCloses

LEMMA ClosingKeepsApart ==
  ASSUME NEW n, NEW m, Apart(n, m), OnlyCloses PROVE Apart(n, m)'
BY DEF Apart, OnlyCloses, OpenEdges

LEMMA ClosedIsClosed ==
  ASSUME MemoryInv, NEW e \in Edges, NEW w, edges' = Closed(e, w)
  PROVE  /\ OnlyCloses
         /\ edges'[e].state = "closed" /\ edges'[e].by = w
         /\ \A f \in Edges : /\ f # e => edges'[f] = edges[f]
                             /\ edges'[f].rel = edges[f].rel
                             /\ edges'[f].subject = edges[f].subject
BY DEF MemoryInv, TablesTyped, EdgeRows, Closed, OnlyCloses

\* A step that leaves a call at none of the steps that rely on what it read.
LEMMA NotWatching ==
  ASSUME NEW a \in Actors, job'[a].pc \notin Watching,
         job'[a].op = "merge" => job'[a].node # job'[a].into
  PROVE  (Replacing(job[a]) /\ Absorbing(job[a]))'
BY DEF Replacing, Absorbing, Watching

\* A merge keeps its two concepts.
LEMMA MergeKeepsConcepts ==
  ASSUME MemoryInv, NEW a \in Actors, Step(a), job'[a].op = "merge"
  PROVE  job[a].op = "merge" /\ SameNode(a) /\ job'[a].into = job[a].into
<1>1. JobHolds(a, job[a]) /\ JobHolds(a, job'[a])
  BY StepHolds DEF MemoryInv, CallGoesOn
<1>2. job'[a].pc \in Merging \cup Naming
  BY <1>1 DEF JobHolds, AtItsStep, None
<1>3. CASE FindSource(a) \/ FindTarget(a) \/ ReadTheirs(a) \/ ReadOurs(a) \/ Settle(a) \/ ReadMoves(a)
             \/ Move(a) \/ ReadAliases(a) \/ MoveAlias(a)
  <2>1. job'[a] # Idle
    BY DEF Idle, None
  <2>2. SameMerge(a)
    BY <1>3, <2>1, MergeSteps
  <2>3. job[a].pc \in Merging
    BY <1>3 DEF FindSource, FindTarget, ReadTheirs, ReadOurs, Settle, ReadMoves, Move, ReadAliases,
                MoveAlias, At, Merging
  <2> QED BY <1>1, <2>2, <2>3, StepsDisjoint DEF SameMerge, JobHolds
<1>4. CASE FindAlias(a) \/ KeepAlias(a)
  BY <1>2, <1>4, NextSteps DEF Next1, Merging, Naming, None
<1>5. CASE ByKey(a) \/ ByAlias(a) \/ ByScan(a)
  <2>1. job[a].op = "learn"
    BY <1>1, <1>5, StepsDisjoint DEF JobHolds, ByKey, ByAlias, ByScan, At, Learning
  <2> QED BY <1>5, <2>1, NextSteps DEF Next1, None
<1>6. CASE ReadCurrent(a) \/ CloseOld(a)
  <2>1. job'[a].pc \in Adding \/ job'[a] = Idle
    BY <1>6, WriteSteps DEF Adding, Writing
  <2> QED BY <1>1, <2>1, StepsDisjoint DEF JobHolds, Idle, None
<1>7. CASE Touch(a) \/ FindNode(a) \/ EnrichNode(a) \/ OpenNode(a) \/ SetContent(a) \/ Confirm(a)
             \/ InsertFact(a) \/ FindFact(a) \/ DeleteNode(a)
  BY <1>2, <1>7, NextSteps DEF Next1, Merging, Naming
<1>8. CASE RetireFact(a) \/ DeleteFacts(a) \/ DropSource(a)
  BY <1>8, NextSteps DEF Idle, None
<1> QED BY <1>3, <1>4, <1>5, <1>6, <1>7, <1>8 DEF Step

\* What a call knows after a step, under what the rows say after it.
LEMMA CurrentAfterStep ==
  ASSUME OneActor, MemoryInv, NEW a \in Actors, Step(a), OneCurrent',
         (Replacing(job[a]) /\ Absorbing(job[a]))'
  PROVE  CurrentInv'
BY DEF OneActor, CurrentInv

LEMMA StepKeepsCurrent ==
  ASSUME OneActor, MemoryInv, CurrentInv, NEW a \in Actors, Step(a)
  PROVE  CurrentInv'
<1> DEFINE j == job[a]
<1>0. PICK n, m : n = j.node /\ m = j.into
  OBVIOUS
<1>1. JobHolds(a, j) /\ j \in Jobs /\ Replacing(j) /\ Absorbing(j) /\ OneCurrent
  BY DEF MemoryInv, CurrentInv
<1>2. job'[a].op = "merge" => job'[a].node # job'[a].into
  BY <1>0, <1>1, MergeKeepsConcepts DEF SameNode, Absorbing
<1>3. UNCHANGED edges => OnlyCloses
  BY DEF OnlyCloses
<1>4. ASSUME OnlyCloses, job'[a].pc \notin Watching
      PROVE  CurrentInv'
  BY <1>0, <1>1, <1>2, <1>4, ClosingKeepsCurrent, NotWatching, CurrentAfterStep
<1>5. CASE FindSource(a) \/ FindTarget(a) \/ ReadAliases(a) \/ MoveAlias(a)
  <2>1. UNCHANGED edges
    BY <1>0, <1>5 DEF FindSource, FindTarget, ReadAliases, MoveAlias
  <2>2. job'[a].pc \notin Watching
    BY <1>0, <1>5, MergeSteps DEF Watching, Idle
  <2> QED BY <1>3, <1>4, <2>1, <2>2
<1>6. CASE \/ ByKey(a) \/ ByAlias(a) \/ ByScan(a) \/ FindAlias(a) \/ KeepAlias(a) \/ Touch(a)
           \/ FindNode(a) \/ EnrichNode(a) \/ OpenNode(a) \/ SetContent(a) \/ Confirm(a)
           \/ FindFact(a) \/ DeleteNode(a) \/ DropSource(a)
  <2>1. UNCHANGED edges
    BY <1>0, <1>6 DEF ByKey, ByAlias, ByScan, FindAlias, KeepAlias, Touch, FindNode, EnrichNode, OpenNode,
                SetContent, Confirm, FindFact, DeleteNode, DropSource
  <2>2. job'[a].pc \notin Watching
    BY <1>0, <1>6, NextSteps DEF Next1, Watching, Idle
  <2> QED BY <1>3, <1>4, <2>1, <2>2
<1>7. CASE RetireFact(a) \/ DeleteFacts(a)
  <2>1. OnlyCloses
    <3>1. edges \in [Edges -> EdgeRows]
      BY DEF MemoryInv, TablesTyped
    <3>2. CASE RetireFact(a)
      <4>1. UNCHANGED edges \/ \E e \in Edges : edges' = [edges EXCEPT ![e].state = "closed"]
        BY <1>1, <3>2, StepsDisjoint DEF RetireFact, At, JobHolds
      <4> QED BY <1>3, <3>1, <4>1 DEF OnlyCloses, EdgeRows
    <3>3. CASE DeleteFacts(a)
      <4>1. \A e \in Edges : edges'[e] = edges[e] \/ edges'[e].state = "forgotten"
        BY <3>1, <3>3 DEF DeleteFacts, Forgotten, EdgeRows
      <4> QED BY <4>1 DEF OnlyCloses
    <3> QED BY <1>7, <3>2, <3>3
  <2>2. job'[a].pc \notin Watching
    BY <1>0, <1>7, NextSteps DEF Watching, Idle
  <2> QED BY <1>4, <2>1, <2>2
<1>8. CASE ReadCurrent(a)
  <2> DEFINE current == {e \in OpenEdges(n) : edges[e].rel = j.rel}
  <2>1. UNCHANGED edges
    BY <1>0, <1>8 DEF ReadCurrent
  <2>2. /\ SameFact(a)
        /\ \/ job'[a].pc = "confirm"
           \/ job'[a].pc = (IF current = {} THEN "insert" ELSE "close") /\ job'[a].todo = current
    BY <1>0, <1>8, WriteSteps
  <2>3. \A k : OpenEdges(k)' = OpenEdges(k)
    BY <2>1 DEF OpenEdges
  <2>4. (Replacing(job[a]))'
    BY <1>0, <2>1, <2>2, <2>3 DEF Replacing, SameFact, SameNode
  <2>5. (Absorbing(job[a]))'
    BY <1>0, <1>2, <2>2 DEF Absorbing
  <2> QED BY <1>1, <1>3, <2>1, <2>4, <2>5, ClosingKeepsCurrent, CurrentAfterStep
<1>9. CASE CloseOld(a)
  <2>1. j.pc = "close"
    BY <1>0, <1>9 DEF CloseOld, At
  <2>2. CASE job'[a] = Idle /\ UNCHANGED edges
    BY <1>3, <1>4, <2>2 DEF Idle, Watching
  <2>3. ASSUME NEW e \in j.todo, edges' = Closed(e, j.edge), SameFact(a), job'[a].todo = j.todo \ {e},
               job'[a].pc = IF j.todo = {e} THEN "insert" ELSE "close"
        PROVE  CurrentInv'
    <3>1. e \in Edges /\ OnlyCloses /\ edges'[e].state = "closed"
            /\ \A f \in Edges : f # e => edges'[f] = edges[f]
      BY <1>0, <1>1, <2>3, ClosedIsClosed DEF Jobs
    <3>2. OpenEdges(n)' = OpenEdges(n) \ {e}
      BY <3>1 DEF OpenEdges
    <3>3. j.todo = {f \in OpenEdges(n) : edges[f].rel = j.rel}
      BY <1>0, <1>1, <2>1 DEF Replacing
    <3>4. \A f \in OpenEdges(n)' : f \in Edges /\ f # e /\ edges'[f] = edges[f]
      BY <3>1, <3>2 DEF OpenEdges
    <3>5. {f \in OpenEdges(n)' : edges'[f].rel = j.rel} = j.todo \ {e}
      BY <1>0, <3>2, <3>3, <3>4
    <3>6. (Replacing(job[a]))'
      BY <1>0, <2>3, <3>4, <3>5 DEF Replacing, SameFact, SameNode
    <3>7. (Absorbing(job[a]))'
      BY <1>0, <1>2, <2>3 DEF Absorbing
    <3> QED BY <1>1, <3>1, <3>6, <3>7, ClosingKeepsCurrent, CurrentAfterStep
  <2> QED BY <1>9, <2>2, <2>3, WriteSteps
<1>10. CASE InsertFact(a)
  <2>1. \A f \in OpenEdges(n) : edges[f].rel # j.rel
    BY <1>0, <1>1, <1>10 DEF InsertFact, At, Replacing
  <2>2. PICK e \in Edges : e = j.edge
    BY <1>0, <1>1, <1>10 DEF JobHolds, InsertFact, At, Writing
  <2>3. /\ edges'[e].state = "open" /\ edges'[e].subject = n /\ edges'[e].rel = j.rel
        /\ \A f \in Edges : f # e => edges'[f] = edges[f]
    BY <1>0, <1>10, <2>2 DEF InsertFact, MemoryInv, TablesTyped
  <2>4. OneCurrent'
    <3> SUFFICES ASSUME NEW f \in Edges, NEW g \in Edges,
                        edges'[f].state = "open", edges'[g].state = "open",
                        edges'[f].subject = edges'[g].subject, edges'[f].rel = edges'[g].rel, f # g
                 PROVE  FALSE
      BY DEF OneCurrent
    <3>1. CASE f # e /\ g # e
      BY <1>0, <1>1, <2>3, <3>1 DEF OneCurrent
    <3>2. CASE f = e \/ g = e
      BY <2>1, <2>3, <3>2 DEF OpenEdges
    <3> QED BY <3>1, <3>2
  <2>5. job'[a].pc \notin Watching
    BY <1>0, <1>10, NextSteps DEF Next1, Watching, Idle
  <2> QED BY <1>2, <2>4, <2>5, NotWatching, CurrentAfterStep
<1>11. CASE ReadTheirs(a)
  <2>1. UNCHANGED edges
    BY <1>0, <1>11 DEF ReadTheirs
  <2>2. job'[a].pc = "ours" /\ SameMerge(a) /\ job'[a].seen = OpenEdges(m)
    BY <1>0, <1>11, MergeSteps
  <2>3. OneCurrent' /\ \A k : OpenEdges(k)' = OpenEdges(k)
    BY <1>0, <1>1, <2>1 DEF OneCurrent, OpenEdges
  <2>4. \A c, d \in OpenEdges(m) : edges[c].rel = edges[d].rel => c = d
    BY <1>0, <1>1 DEF OneCurrent, OpenEdges
  <2>5. (Absorbing(job[a]))'
    BY <1>0, <1>2, <2>1, <2>2, <2>3, <2>4 DEF Absorbing, SameMerge
  <2>6. (Replacing(job[a]))'
    BY <1>0, <2>2 DEF Replacing
  <2> QED BY <2>3, <2>5, <2>6, CurrentAfterStep
<1>12. CASE ReadOurs(a)
  <2> DEFINE shared == {e \in OpenEdges(n) : \E c \in j.seen : edges[c].rel = edges[e].rel}
  <2>1. UNCHANGED edges
    BY <1>0, <1>12 DEF ReadOurs
  <2>2. /\ SameMerge(a) /\ job'[a].todo = shared /\ job'[a].seen = j.seen
        /\ job'[a].pc = IF shared = {} THEN "moves" ELSE "settle"
    BY <1>0, <1>12, MergeSteps
  <2>3. OneCurrent' /\ \A k : OpenEdges(k)' = OpenEdges(k)
    BY <1>0, <1>1, <2>1 DEF OneCurrent, OpenEdges
  <2>4. /\ \A c, d \in j.seen : edges[c].rel = edges[d].rel => c = d
        /\ OpenEdges(m) \subseteq j.seen
    BY <1>0, <1>1, <1>12 DEF Absorbing, ReadOurs, At
  <2>5. \A e \in OpenEdges(n), f \in OpenEdges(m) :
          edges[e].rel = edges[f].rel => e \in shared /\ f \in j.seen
    BY <1>0, <2>4
  <2>6. shared \subseteq OpenEdges(n)
    OBVIOUS
  <2>7. CASE shared = {}
    <3>1. Apart(n, m)'
      BY <1>0, <2>1, <2>3, <2>5, <2>7 DEF Apart
    <3>2. job'[a].pc = "moves" /\ job'[a].node = n /\ job'[a].into = m
      BY <1>0, <2>2, <2>7 DEF SameMerge, SameNode
    <3>3. (Replacing(job[a]) /\ Absorbing(job[a]))'
      BY <1>0, <1>2, <3>1, <3>2 DEF Replacing, Absorbing
    <3> QED BY <2>3, <3>3, CurrentAfterStep
  <2>8. CASE shared # {}
    <3>1. job'[a].pc = "settle" /\ job'[a].node = n /\ job'[a].into = m
      BY <1>0, <2>2, <2>8 DEF SameMerge, SameNode
    <3> HIDE DEF shared
    <3>2. (Replacing(job[a]) /\ Absorbing(job[a]))'
      BY <1>0, <1>2, <2>1, <2>2, <2>3, <2>4, <2>5, <2>6, <3>1 DEF Replacing, Absorbing
    <3> QED BY <2>3, <3>2, CurrentAfterStep
  <2> QED BY <2>7, <2>8
<1>13. CASE Settle(a)
  <2>0. j.pc = "settle" /\ n # m
    BY <1>0, <1>1, <1>13, StepsDisjoint DEF Settle, At, Absorbing, JobHolds, Merging
  <2>1. /\ \A c, d \in j.seen : edges[c].rel = edges[d].rel => c = d
        /\ j.todo \subseteq OpenEdges(n)
        /\ \A x \in OpenEdges(n), f \in OpenEdges(m) :
             edges[x].rel = edges[f].rel => x \in j.todo /\ f \in j.seen
    BY <1>0, <1>1, <2>0 DEF Absorbing
  <2>2. CASE job'[a] = Idle /\ UNCHANGED edges
    BY <1>3, <1>4, <2>2 DEF Idle, Watching
  <2>3. ASSUME NEW e \in j.todo, NEW clash \in j.seen, edges[clash].rel = edges[e].rel,
               NEW lost \in {e, clash}, NEW won, edges' = Closed(lost, won),
               SameMerge(a), job'[a].todo = j.todo \ {e}, job'[a].seen = j.seen,
               job'[a].pc = IF j.todo = {e} THEN "moves" ELSE "settle"
        PROVE  CurrentInv'
    <3>1. e \in Edges /\ clash \in Edges /\ lost \in Edges
      BY <1>0, <1>1, <2>3 DEF Jobs
    <3>2. /\ OnlyCloses /\ edges'[lost].state = "closed"
          /\ \A f \in Edges : f # lost => edges'[f] = edges[f]
          /\ \A f \in Edges : edges'[f].rel = edges[f].rel
      BY <1>0, <2>3, <3>1, ClosedIsClosed
    <3>3. \A k : OpenEdges(k)' = OpenEdges(k) \ {lost}
      BY <3>1, <3>2 DEF OpenEdges
    <3>4. \A x \in OpenEdges(n)', f \in OpenEdges(m)' :
            edges'[x].rel = edges'[f].rel => x \in j.todo \ {e} /\ f \in j.seen
      <4> SUFFICES ASSUME NEW x \in OpenEdges(n)', NEW f \in OpenEdges(m)',
                          edges'[x].rel = edges'[f].rel
                   PROVE  x \in j.todo \ {e} /\ f \in j.seen
        OBVIOUS
      <4>1. x \in Edges /\ f \in Edges
        BY DEF OpenEdges
      <4>2. x \in OpenEdges(n) /\ f \in OpenEdges(m) /\ x # lost /\ f # lost
        BY <1>0, <3>3
      <4>3. x \in j.todo /\ f \in j.seen
        BY <1>0, <2>1, <3>2, <4>1, <4>2
      <4>4. x = e => f = clash
        BY <1>0, <2>1, <2>3, <3>1, <3>2, <4>1, <4>3
      <4> QED BY <2>3, <4>2, <4>3, <4>4
    <3>5. job'[a].node = n /\ job'[a].into = m
      BY <1>0, <2>3 DEF SameMerge, SameNode
    <3>6. CASE j.todo = {e}
      <4>1. Apart(n, m)'
        BY <1>0, <3>4, <3>6 DEF Apart
      <4>2. job'[a].pc = "moves"
        BY <1>0, <2>3, <3>6
      <4>3. (Replacing(job[a]) /\ Absorbing(job[a]))'
        BY <1>0, <1>2, <3>5, <4>1, <4>2 DEF Replacing, Absorbing
      <4> QED BY <1>1, <3>2, <4>3, ClosingKeepsCurrent, CurrentAfterStep
    <3>7. CASE j.todo # {e}
      <4>1. job'[a].pc = "settle"
        BY <1>0, <2>3, <3>7
      <4>2. j.todo \ {e} \subseteq OpenEdges(n)'
        <5> SUFFICES ASSUME NEW x \in j.todo, x # e PROVE x \in OpenEdges(n)'
          OBVIOUS
        <5>1. x \in OpenEdges(n) /\ x \in Edges
          BY <2>1 DEF OpenEdges
        <5>2. CASE lost = e
          BY <1>0, <3>3, <5>1, <5>2
        <5>3. CASE lost # e
          <6>1. e \in OpenEdges(n)
            BY <2>1
          <6>2. x # clash
            BY <1>1, <2>3, <5>1, <6>1 DEF OneCurrent, OpenEdges
          <6> QED BY <2>3, <3>3, <5>1, <5>3, <6>2
        <5> QED BY <5>2, <5>3
      <4>3. \A c, d \in j.seen : edges'[c].rel = edges'[d].rel => c = d
        BY <1>0, <1>1, <2>1, <3>2 DEF Jobs
      <4>4. (Replacing(job[a]) /\ Absorbing(job[a]))'
        BY <1>0, <1>2, <2>3, <3>4, <3>5, <4>1, <4>2, <4>3 DEF Replacing, Absorbing
      <4> QED BY <1>1, <3>2, <4>4, ClosingKeepsCurrent, CurrentAfterStep
    <3> QED BY <3>6, <3>7
  <2> QED BY <1>13, <2>2, <2>3, MergeSteps DEF Loser
<1>14. CASE ReadMoves(a)
  <2>1. UNCHANGED edges
    BY <1>0, <1>14 DEF ReadMoves
  <2>2. /\ SameMerge(a) /\ job'[a].pc \in {"aliases", "move"}
        /\ \A e \in job'[a].todo : edges'[e].subject = n
    BY <1>0, <1>14, <2>1, MergeSteps
  <2>3. Apart(n, m)' /\ OneCurrent'
    BY <1>0, <1>1, <1>3, <1>14, <2>1, ClosingKeepsCurrent, ClosingKeepsApart DEF Absorbing, ReadMoves, At
  <2>4. (Replacing(job[a]) /\ Absorbing(job[a]))'
    BY <1>0, <1>2, <2>2, <2>3 DEF Replacing, Absorbing, SameMerge, SameNode
  <2> QED BY <2>3, <2>4, CurrentAfterStep
<1>15. CASE Move(a)
  <2>1. Apart(n, m) /\ n # m
    BY <1>0, <1>1, <1>15, StepsDisjoint DEF Absorbing, Move, At, JobHolds, Merging
  <2>2. CASE job'[a] = Idle /\ UNCHANGED edges
    BY <1>3, <1>4, <2>2 DEF Idle, Watching
  <2>3. ASSUME NEW e \in j.todo, edges' = [edges EXCEPT ![e].subject = j.into],
               SameMerge(a), job'[a].todo = j.todo \ {e},
               job'[a].pc = IF j.todo = {e} THEN "aliases" ELSE "move"
        PROVE  CurrentInv'
    <3>1. e \in Edges /\ edges \in [Edges -> EdgeRows]
      BY <1>1 DEF Jobs, MemoryInv, TablesTyped
    <3>2. /\ edges'[e].subject = m /\ edges'[e].state = edges[e].state
          /\ edges'[e].rel = edges[e].rel
          /\ \A f \in Edges : f # e => edges'[f] = edges[f]
      BY <1>0, <2>3, <3>1 DEF EdgeRows
    <3>3. \A f \in j.todo : f \in Edges /\ edges[f].subject = n
      BY <1>0, <1>1, <1>15 DEF Absorbing, Move, At, Jobs
    <3>4. edges[e].state = "open" => e \in OpenEdges(n)
      BY <2>3, <3>3 DEF OpenEdges
    <3>5. OneCurrent'
      <4> SUFFICES ASSUME NEW f \in Edges, NEW g \in Edges,
                          edges'[f].state = "open", edges'[g].state = "open",
                          edges'[f].subject = edges'[g].subject, edges'[f].rel = edges'[g].rel, f # g
                   PROVE  FALSE
        BY DEF OneCurrent
      <4>1. CASE f # e /\ g # e
        BY <1>1, <3>2, <4>1 DEF OneCurrent
      <4>2. CASE f = e
        BY <2>1, <3>2, <3>4, <4>2 DEF Apart, OpenEdges
      <4>3. CASE g = e
        BY <2>1, <3>2, <3>4, <4>3 DEF Apart, OpenEdges
      <4> QED BY <4>1, <4>2, <4>3
    <3>6. Apart(n, m)'
      <4> SUFFICES ASSUME NEW f \in OpenEdges(n)', NEW g \in OpenEdges(m)', edges'[f].rel = edges'[g].rel
                   PROVE  FALSE
        BY DEF Apart
      <4>1. f \in OpenEdges(n) /\ f # e /\ edges'[f] = edges[f]
        BY <2>1, <3>2 DEF OpenEdges
      <4>2. CASE g = e
        BY <1>1, <2>3, <3>2, <3>3, <4>1, <4>2 DEF OneCurrent, OpenEdges
      <4>3. CASE g # e
        BY <2>1, <3>2, <4>1, <4>3 DEF Apart, OpenEdges
      <4> QED BY <4>2, <4>3
    <3>7. job'[a].pc = "move" => \A f \in job'[a].todo : edges'[f].subject = job'[a].node
      BY <1>0, <2>3, <3>2, <3>3 DEF SameMerge, SameNode
    <3>8. (Replacing(job[a]) /\ Absorbing(job[a]))'
      BY <1>0, <1>2, <2>3, <3>6, <3>7 DEF Replacing, Absorbing, SameMerge, SameNode
    <3> QED BY <3>5, <3>8, CurrentAfterStep
  <2> QED BY <1>15, <2>2, <2>3, MergeSteps
<1> QED BY <1>5, <1>6, <1>7, <1>8, <1>9, <1>10, <1>11, <1>12, <1>13, <1>14, <1>15 DEF Step
LEMMA CurrentInvNext == OneActor /\ MemoryInv /\ CurrentInv /\ [Next]_vars => CurrentInv'
<1> SUFFICES ASSUME OneActor, MemoryInv, CurrentInv, [Next]_vars PROVE CurrentInv'
  OBVIOUS
<1>1. ASSUME NEW a \in Actors, UNCHANGED edges, job'[a].pc \notin Watching,
             job'[a].op = "merge" => job'[a].node # job'[a].into
      PROVE  CurrentInv'
  <2>1. (Replacing(job[a]) /\ Absorbing(job[a]))'
    BY <1>1, NotWatching
  <2> QED BY <1>1, <2>1 DEF OneActor, CurrentInv, OneCurrent
<1>2. ASSUME NEW a \in Actors, Step(a) PROVE CurrentInv'
  BY <1>2, StepKeepsCurrent
<1>3. ASSUME NEW a \in Actors, Stop(a) PROVE CurrentInv'
  BY <1>1, <1>3, AfterReturn DEF Stop, Idle, None, Watching
<1>4. ASSUME NEW a \in Actors, Learn(a) \/ Write(a) \/ Merge(a) \/ Retire(a) \/ Delete(a)
      PROVE  CurrentInv'
  <2>1. ASSUME NEW j, Start(a, j), j.pc \notin Watching, j.op = "merge" => j.node # j.into
        PROVE  CurrentInv'
    BY <1>1, <2>1 DEF Start, MemoryInv
  <2>2. CASE Learn(a)
    <3>1. PICK t, x, title, r, v : Start(a, ReadFact(t, x, title, r, v))
      BY <2>2 DEF Learn
    <3>2. ReadFact(t, x, title, r, v).pc = "byKey" /\ ReadFact(t, x, title, r, v).op = "learn"
      BY DEF ReadFact, Idle
    <3> QED BY <2>1, <3>1, <3>2 DEF Watching
  <2>3. CASE Write(a)
    <3>1. PICK x, title : Start(a, [Idle EXCEPT !.pc = "find", !.op = "write", !.at = clock + 1,
                                                !.key = x, !.title = title])
      BY <2>3 DEF Write
    <3> QED BY <2>1, <3>1 DEF Watching, Idle
  <2>4. CASE Merge(a)
    <3>1. PICK n, m : n # m /\ Start(a, [Idle EXCEPT !.pc = "source", !.op = "merge", !.at = clock + 1,
                                                     !.node = n, !.into = m])
      BY <2>4 DEF Merge
    <3> QED BY <2>1, <3>1 DEF Watching, Idle
  <2>5. CASE Retire(a)
    <3>1. PICK e : Start(a, [Idle EXCEPT !.pc = "fact", !.op = "retire", !.edge = e])
      BY <2>5 DEF Retire
    <3> QED BY <2>1, <3>1 DEF Watching, Idle
  <2>6. CASE Delete(a)
    <3>1. PICK n : Start(a, [Idle EXCEPT !.pc = "delete", !.op = "delete", !.node = n])
      BY <2>6 DEF Delete
    <3> QED BY <2>1, <3>1 DEF Watching, Idle
  <2> QED BY <1>4, <2>2, <2>3, <2>4, <2>5, <2>6
<1>5. CASE UNCHANGED vars
  BY <1>5 DEF vars, CurrentInv, OneCurrent, Replacing, Absorbing, OpenEdges, Apart
<1> QED BY <1>2, <1>3, <1>4, <1>5 DEF Next, Actors

\* While one call runs after another, failed and stopped ones among them, a
\* relation of a concept has one value that is true now, through every merge
\* (add_fact, merge_nodes).
THEOREM OneValueIsCurrent == ASSUME OneActor PROVE Spec => []OneCurrent
<1>1. Init => CurrentInv
  BY DEF Init, CurrentInv, OneCurrent, Replacing, Absorbing, NoEdge, Idle, None
<1>2. MemoryInv /\ CurrentInv /\ [Next]_vars => CurrentInv'
  BY CurrentInvNext
<1>3. CurrentInv => OneCurrent
  BY DEF CurrentInv
<1> QED BY <1>1, <1>2, <1>3, MemoryIsTyped, PTL DEF Spec

-----------------------------------------------------------------------------
\* One call after another, and none that fails or stops: what the memory holds
\* between two calls.

\* The steps of a merge that has moved the facts of its source.
Moved == {"aliases", "realias", "drop"} \cup Naming

\* The concepts a call writes to are in the memory, and a merge leaves no fact
\* with the concept it drops.
Placed(j) ==
  /\ j.pc \in Adding => HasNode(j.node)
  /\ j.op = "merge" /\ j.pc \notin {"source", "target"} => HasNode(j.into)
  /\ j.pc \in {"ours", "settle"} => \A c \in j.seen : HasEdge(c) /\ edges[c].subject = j.into
  /\ j.pc = "move" => j.todo = {e \in Edges : HasEdge(e) /\ edges[e].subject = j.node}
  /\ j.op = "merge" /\ j.pc \in Moved => \A e \in Edges : HasEdge(e) => edges[e].subject # j.node

\* A fact has its concept, but while the facts of a deleted one go.
Forgetting(n) == \E a \in Actors : job[a].pc = "forget" /\ job[a].node = n
FactsPlaced ==
  \A e \in Edges : HasEdge(e) => HasNode(edges[e].subject) \/ Forgetting(edges[e].subject)

\* A fact that was replaced points at another row of its relation, and of its
\* concept unless a merge has yet to move one of them, or at the row a call is
\* about to write.
Replaced(e, f) ==
  /\ HasEdge(f) /\ edges[f].rel = edges[e].rel
  /\ \/ edges[f].subject = edges[e].subject
     \/ \E a \in Actors :
          /\ job[a].pc \in {"settle", "moves", "move"}
          /\ edges[e].subject \in {job[a].node, job[a].into}
          /\ edges[f].subject \in {job[a].node, job[a].into}
Awaited(e, f) ==
  \E a \in Actors : /\ job[a].pc \in Writing /\ job[a].edge = f
                    /\ edges[e].subject = job[a].node /\ edges[e].rel = job[a].rel
ChainsLead ==
  \A e \in Edges : edges[e].by # Nil =>
    edges[e].state = "closed" /\ (Replaced(e, edges[e].by) \/ Awaited(e, edges[e].by))

TidyInv ==
  /\ \A a \in Actors : Placed(job[a])
  /\ FactsPlaced /\ ChainsLead

\* A step that writes no fact, moves none and forgets none.
SameRows ==
  \A e \in Edges : /\ HasEdge(e)' <=> HasEdge(e)
                   /\ edges'[e].subject = edges[e].subject /\ edges'[e].rel = edges[e].rel

\* Which steps lead to the steps that rely on the rows.
LEMMA StepsLeadTo ==
  ASSUME MemoryInv, NEW a \in Actors, Step(a)
  PROVE  /\ job'[a].pc \in Adding =>
              \/ Touch(a) \/ EnrichNode(a) \/ OpenNode(a) \/ SetContent(a) \/ ReadCurrent(a)
              \/ Confirm(a) \/ CloseOld(a) \/ InsertFact(a)
         /\ job'[a].pc \in Writing => ReadCurrent(a) \/ CloseOld(a)
         /\ job'[a].pc \in {"ours", "settle"} => ReadTheirs(a) \/ ReadOurs(a) \/ Settle(a)
         /\ job'[a].pc \in {"settle", "moves", "move"} =>
              ReadOurs(a) \/ Settle(a) \/ ReadMoves(a) \/ Move(a)
         /\ job'[a].pc = "move" => ReadMoves(a) \/ Move(a)
         /\ job'[a].op = "merge" /\ job'[a].pc \in Moved =>
              ReadMoves(a) \/ Move(a) \/ ReadAliases(a) \/ MoveAlias(a) \/ FindAlias(a) \/ KeepAlias(a)
         /\ job'[a].pc = "forget" => DeleteNode(a)
<1>1. JobHolds(a, job[a]) /\ JobHolds(a, job'[a])
  BY StepHolds DEF MemoryInv, CallGoesOn
<1>2. Idle.pc = "idle" /\ Idle.op # "merge"
  BY DEF Idle, None
<1>3. CASE FindSource(a) \/ FindTarget(a) \/ ReadTheirs(a) \/ ReadOurs(a) \/ Settle(a) \/ ReadMoves(a)
             \/ Move(a) \/ ReadAliases(a) \/ MoveAlias(a)
  BY <1>2, <1>3, MergeSteps DEF Adding, Writing, Moved, Naming
<1>4. CASE ReadCurrent(a) \/ CloseOld(a)
  <2>1. job'[a].pc \in {"confirm", "close", "insert", "idle"}
    BY <1>2, <1>4, WriteSteps
  <2> QED BY <1>4, <2>1 DEF Adding, Writing, Moved, Naming
<1>5. CASE ByKey(a) \/ ByAlias(a) \/ ByScan(a)
  <2>1. job[a].op = "learn"
    BY <1>1, <1>5, StepsDisjoint DEF JobHolds, ByKey, ByAlias, ByScan, At, Learning
  <2> QED BY <1>5, <2>1, NextSteps DEF Next1, None, Adding, Writing, Moved, Naming
<1>6. CASE FindAlias(a) \/ KeepAlias(a) \/ Touch(a) \/ FindNode(a) \/ EnrichNode(a) \/ OpenNode(a)
           \/ SetContent(a) \/ Confirm(a) \/ InsertFact(a) \/ FindFact(a) \/ DeleteNode(a)
  BY <1>6, NextSteps DEF Next1, Adding, Writing, Moved, Naming
<1>7. CASE RetireFact(a) \/ DeleteFacts(a) \/ DropSource(a)
  BY <1>2, <1>7, NextSteps DEF Adding, Writing, Moved, Naming
<1> QED BY <1>3, <1>4, <1>5, <1>6, <1>7 DEF Step

\* Only the end of a concept takes its row away.
LEMMA ConceptsStay ==
  ASSUME MemoryInv, NEW a \in Actors, Step(a), ~DropSource(a), ~DeleteNode(a), NEW n, HasNode(n)
  PROVE  HasNode(n)'
<1>1. n \in Nodes /\ nodes[n].state = "row" /\ nodes \in [Nodes -> NodeRows]
  BY DEF HasNode, MemoryInv, TablesTyped
<1>2. CASE EnrichNode(a) \/ SetContent(a)
  <2>1. UNCHANGED nodes \/ nodes' = [nodes EXCEPT ![job[a].node].title = job[a].title]
    BY <1>2 DEF EnrichNode, SetContent
  <2> QED BY <1>1, <2>1 DEF HasNode, NodeRows
<1>3. CASE OpenNode(a)
  BY <1>1, <1>3 DEF OpenNode, HasNode
<1>4. CASE UNCHANGED nodes
  BY <1>1, <1>4 DEF HasNode
<1> QED BY <1>2, <1>3, <1>4
    DEF Step, ByKey, ByAlias, ByScan, FindAlias, KeepAlias, Touch, FindNode, ReadCurrent, Confirm,
        CloseOld, InsertFact, FindSource, FindTarget, ReadTheirs, ReadOurs, Settle, ReadMoves, Move,
        ReadAliases, MoveAlias, FindFact, RetireFact, DeleteFacts

LEMMA StepKeepsPlaced ==
  ASSUME MemoryInv, NEW a \in Actors, Absorbing(job[a]), Placed(job[a]), Step(a)
  PROVE  Placed(job[a])'
<1> DEFINE j == job[a]
<1>0. PICK n, m : n = j.node /\ m = j.into
  OBVIOUS
<1>1. JobHolds(a, j) /\ j \in Jobs /\ edges \in [Edges -> EdgeRows] /\ nodes \in [Nodes -> NodeRows]
  BY DEF MemoryInv, TablesTyped
<1>2. j.op = "merge" => n # m
  BY <1>0 DEF Absorbing
<1>3. ASSUME job'[a].pc \in Adding, NEW k, k = job'[a].node PROVE HasNode(k)'
  <2>1. CASE Confirm(a) \/ InsertFact(a) \/ ReadCurrent(a) \/ CloseOld(a)
    <3>1. j.pc \in Adding /\ ~DropSource(a) /\ ~DeleteNode(a)
      BY <2>1 DEF Confirm, InsertFact, ReadCurrent, CloseOld, DropSource, DeleteNode, At, Adding, Writing
    <3>2. SameNode(a)
      BY <1>3, <2>1, NextSteps, WriteSteps DEF Next1, SameFact, Idle, Adding, Writing
    <3> QED BY <1>3, <3>1, <3>2, ConceptsStay DEF Placed, SameNode
  <2>2. CASE Touch(a)
    <3>1. ~DropSource(a) /\ ~DeleteNode(a)
      BY <2>2 DEF Touch, DropSource, DeleteNode, At
    <3>2. SameNode(a)
      BY <1>3, <2>2, NextSteps DEF Next1, Adding, Writing
    <3>3. HasNode(j.node)
      BY <1>3, <2>2, AfterReturn DEF Touch, Idle, Adding, Writing
    <3> QED BY <1>3, <3>1, <3>2, <3>3, ConceptsStay DEF SameNode
  <2>3. CASE EnrichNode(a) \/ SetContent(a)
    <3>1. ~DropSource(a) /\ ~DeleteNode(a)
      BY <2>3 DEF EnrichNode, SetContent, DropSource, DeleteNode, At
    <3>2. SameNode(a)
      BY <1>3, <2>3, NextSteps DEF Next1, Adding, Writing
    <3>3. HasNode(j.node)
      <4>1. ~Return(a)
        BY <1>3, AfterReturn DEF Idle, Adding, Writing
      <4> QED BY <2>3, <4>1 DEF EnrichNode, SetContent
    <3> QED BY <1>3, <3>1, <3>2, <3>3, ConceptsStay DEF SameNode
  <2>4. CASE OpenNode(a)
    <3>1. ~Return(a)
      BY <1>3, AfterReturn DEF Idle, Adding, Writing
    <3>2. PICK i \in Nodes :
            /\ nodes' = [nodes EXCEPT ![i] = [state |-> "row", key |-> j.key, title |-> j.title]]
            /\ job' = [job EXCEPT ![a].pc = Upserted(a), ![a].node = i]
      BY <2>4, <3>1 DEF OpenNode
    <3>3. k = i
      BY <1>1, <1>3, <3>2 DEF MemoryInv, Jobs
    <3> QED BY <1>1, <3>2, <3>3 DEF HasNode
  <2> QED BY <1>3, <2>1, <2>2, <2>3, <2>4, StepsLeadTo
<1>4. ASSUME job'[a].op = "merge", job'[a].pc \notin {"source", "target"}
      PROVE  HasNode(m)'
  <2>1. j.op = "merge" /\ job'[a].into = m
    BY <1>0, <1>4, MergeKeepsConcepts
  <2>2. ~DropSource(a) /\ ~DeleteNode(a)
    BY <1>1, <1>4, <2>1, NextSteps, StepsDisjoint DEF Idle, None, DeleteNode, At, JobHolds
  <2>3. j.pc # "source"
    <3> SUFFICES ASSUME j.pc = "source" PROVE FALSE
      OBVIOUS
    <3>1. FindSource(a)
      BY DEF Step, ByKey, ByAlias, ByScan, FindAlias, KeepAlias, Touch, FindNode, EnrichNode, OpenNode,
             SetContent, ReadCurrent, Confirm, CloseOld, InsertFact, FindTarget, ReadTheirs, ReadOurs,
             Settle, ReadMoves, Move, ReadAliases, MoveAlias, DropSource, FindFact, RetireFact,
             DeleteNode, DeleteFacts, At
    <3> QED BY <1>4, <3>1, MergeSteps DEF Idle, None
  <2>4. CASE j.pc = "target"
    <3>1. FindTarget(a)
      BY <2>4
      DEF Step, ByKey, ByAlias, ByScan, FindAlias, KeepAlias, Touch, FindNode, EnrichNode, OpenNode,
          SetContent, ReadCurrent, Confirm, CloseOld, InsertFact, FindSource, ReadTheirs, ReadOurs,
          Settle, ReadMoves, Move, ReadAliases, MoveAlias, DropSource, FindFact, RetireFact,
          DeleteNode, DeleteFacts, At
    <3>2. HasNode(m)
      BY <1>0, <1>4, <3>1, AfterReturn DEF FindTarget, Idle, None
    <3> QED BY <2>1, <2>2, <3>2, ConceptsStay
  <2>5. CASE j.pc # "target"
    <3>1. HasNode(m)
      BY <1>0, <2>1, <2>3, <2>5 DEF Placed
    <3> QED BY <2>1, <2>2, <3>1, ConceptsStay
  <2> QED BY <2>4, <2>5
<1>5. ASSUME job'[a].pc \in {"ours", "settle"}, NEW c, c \in job'[a].seen
      PROVE  HasEdge(c)' /\ edges'[c].subject = job'[a].into
  <2>1. CASE ReadTheirs(a)
    <3>1. UNCHANGED edges /\ SameMerge(a) /\ job'[a].seen = OpenEdges(m)
      BY <1>0, <2>1, MergeSteps DEF ReadTheirs
    <3> QED BY <1>0, <1>5, <3>1 DEF OpenEdges, HasEdge, SameMerge
  <2>2. CASE ReadOurs(a)
    <3>1. UNCHANGED edges /\ SameMerge(a) /\ job'[a].seen = j.seen /\ j.pc = "ours"
      BY <2>2, MergeSteps DEF ReadOurs, At
    <3> QED BY <1>5, <3>1 DEF Placed, HasEdge, SameMerge
  <2>3. CASE Settle(a)
    <3>1. SameMerge(a) /\ job'[a].seen = j.seen /\ j.pc = "settle"
      <4>1. job'[a] # Idle /\ j.pc = "settle"
        BY <1>5, <2>3 DEF Idle, Settle, At
      <4> QED BY <2>3, <4>1, MergeSteps
    <3>2. PICK e \in Edges : \E w : HasEdge(e) /\ edges' = Closed(e, w)
      <4>1. job'[a] # Idle /\ j.todo \subseteq Edges /\ j.seen \subseteq Edges
        BY <1>1, <1>5 DEF Idle, Jobs
      <4>2. \E lost, won : lost \in j.todo \cup j.seen /\ HasEdge(lost) /\ edges' = Closed(lost, won)
        BY <2>3, <4>1, MergeSteps DEF Loser
      <4> QED BY <4>1, <4>2
    <3>3. c \in Edges /\ HasEdge(c) /\ edges[c].subject = m
      BY <1>0, <1>1, <1>5, <3>1 DEF Placed, Jobs
    <3> QED BY <1>0, <3>1, <3>2, <3>3, ClosedIsClosed DEF HasEdge, SameMerge
  <2> QED BY <1>5, <2>1, <2>2, <2>3, StepsLeadTo
<1>6. ASSUME job'[a].pc = "move"
      PROVE  job'[a].todo = {e \in Edges : HasEdge(e)' /\ edges'[e].subject = job'[a].node}
  <2>1. CASE ReadMoves(a)
    <3>1. /\ UNCHANGED edges /\ job'[a].node = n
          /\ job'[a].todo = {e \in Edges : HasEdge(e) /\ edges[e].subject = n}
      BY <1>0, <2>1, MergeSteps DEF ReadMoves, SameMerge, SameNode
    <3> QED BY <3>1 DEF HasEdge
  <2>2. CASE Move(a)
    <3>1. PICK e \in j.todo : /\ edges' = [edges EXCEPT ![e].subject = m]
                              /\ job'[a].node = n /\ job'[a].todo = j.todo \ {e}
      BY <1>0, <1>6, <2>2, MergeSteps DEF Idle, SameMerge, SameNode
    <3>2. j.todo = {f \in Edges : HasEdge(f) /\ edges[f].subject = n} /\ n # m
      BY <1>0, <1>1, <1>2, <2>2, StepsDisjoint DEF Placed, Move, At, JobHolds, Merging
    <3>3. /\ edges'[e].subject = m /\ e \in Edges
          /\ \A f \in Edges : f # e => edges'[f] = edges[f]
      BY <1>1, <3>1, <3>2 DEF EdgeRows
    <3> QED BY <3>1, <3>2, <3>3 DEF HasEdge
  <2> QED BY <1>6, <2>1, <2>2, StepsLeadTo
<1>7. ASSUME job'[a].op = "merge", job'[a].pc \in Moved, NEW e \in Edges, HasEdge(e)'
      PROVE  edges'[e].subject # job'[a].node
  <2>1. job'[a].node = n /\ j.op = "merge"
    BY <1>0, <1>7, MergeKeepsConcepts DEF SameNode
  <2>2. CASE ReadMoves(a)
    <3> DEFINE held == {f \in Edges : HasEdge(f) /\ edges[f].subject = n}
    <3>0. UNCHANGED edges
      BY <2>2 DEF ReadMoves
    <3>1. UNCHANGED edges /\ job'[a].pc = (IF held = {} THEN "aliases" ELSE "move")
      BY <1>0, <2>2, <3>0, MergeSteps
    <3>2. held = {}
      BY <1>7, <3>1 DEF Moved, Naming
    <3> QED BY <1>7, <2>1, <3>1, <3>2 DEF HasEdge
  <2>3. CASE Move(a)
    <3>1. PICK f \in j.todo : /\ edges' = [edges EXCEPT ![f].subject = m]
                              /\ job'[a].pc = IF j.todo = {f} THEN "aliases" ELSE "move"
      BY <1>0, <1>7, <2>3, MergeSteps DEF Idle, None
    <3>2. j.todo = {f}
      BY <1>7, <3>1 DEF Moved, Naming
    <3>3. j.todo = {g \in Edges : HasEdge(g) /\ edges[g].subject = n} /\ n # m
      BY <1>0, <1>2, <2>1, <2>3 DEF Placed, Move, At
    <3>4. edges'[f].subject = m /\ (e # f => edges'[e] = edges[e])
      BY <1>1, <3>1, <3>3 DEF EdgeRows
    <3> QED BY <1>7, <2>1, <3>2, <3>3, <3>4 DEF HasEdge
  <2>4. CASE ReadAliases(a) \/ MoveAlias(a) \/ FindAlias(a) \/ KeepAlias(a)
    <3>1. UNCHANGED edges /\ j.pc \in Moved
      BY <2>4 DEF ReadAliases, MoveAlias, FindAlias, KeepAlias, At, Moved, Naming
    <3> QED BY <1>0, <1>7, <2>1, <3>1 DEF Placed, HasEdge
  <2> QED BY <1>7, <2>2, <2>3, <2>4, StepsLeadTo
<1>8. (job[a].pc \in Adding => HasNode(job[a].node))'
  BY <1>3 DEF HasNode
<1>9. (job[a].op = "merge" /\ job[a].pc \notin {"source", "target"} => HasNode(job[a].into))'
  BY <1>0, <1>4, MergeKeepsConcepts DEF HasNode
<1> QED BY <1>5, <1>6, <1>7, <1>8, <1>9 DEF Placed, HasEdge

LEMMA StepKeepsFactsPlaced ==
  ASSUME OneActor, MemoryInv, NEW a \in Actors, Absorbing(job[a]), Placed(job[a]), FactsPlaced, Step(a)
  PROVE  FactsPlaced'
<1> DEFINE j == job[a]
<1>0. PICK n, m : n = j.node /\ m = j.into
  OBVIOUS
<1>1. JobHolds(a, j) /\ j \in Jobs /\ edges \in [Edges -> EdgeRows] /\ nodes \in [Nodes -> NodeRows]
  BY DEF MemoryInv, TablesTyped
<1>2. SUFFICES ASSUME NEW e \in Edges, HasEdge(e)', NEW k, k = edges'[e].subject
               PROVE  HasNode(k)' \/ (job'[a].pc = "forget" /\ job'[a].node = k)
  BY DEF FactsPlaced, Forgetting, HasNode
<1>12. ASSUME HasEdge(e), edges[e].subject = k, j.pc # "forget" \/ n # k
       PROVE  HasNode(k)
  <2>1. ~Forgetting(k)
    BY <1>0, <1>12 DEF OneActor, Forgetting
  <2> QED BY <1>12, <2>1 DEF FactsPlaced
<1>3. ASSUME HasEdge(e), edges[e].subject = k, j.pc # "forget", ~DropSource(a), ~DeleteNode(a)
      PROVE  HasNode(k)'
  BY <1>3, <1>12, ConceptsStay
<1>4. CASE DropSource(a)
  <2>1. HasEdge(e) /\ edges[e].subject = k /\ j.op = "merge" /\ j.pc = "drop"
    BY <1>1, <1>2, <1>4, StepsDisjoint DEF DropSource, At, JobHolds, Merging, HasEdge
  <2>2. k # n
    BY <1>0, <2>1 DEF Placed, Moved
  <2>3. HasNode(k)
    BY <1>12, <2>1
  <2> QED BY <1>0, <1>1, <1>4, <2>1, <2>2, <2>3 DEF DropSource, HasNode
<1>5. CASE DeleteNode(a)
  <2>1. HasEdge(e) /\ edges[e].subject = k /\ j.pc = "delete"
    BY <1>2, <1>5 DEF DeleteNode, At, HasEdge
  <2>2. HasNode(k)
    BY <1>12, <2>1
  <2>3. CASE HasNode(n)
    <3>1. nodes' = [nodes EXCEPT ![n] = NoNode("gone")] /\ Go(a, "forget")
      BY <1>0, <1>5, <2>3 DEF DeleteNode
    <3>2. job'[a].pc = "forget" /\ job'[a].node = n
      BY <1>0, <3>1, Goes DEF Next1, SameNode
    <3>3. k # n => HasNode(k)'
      BY <1>1, <2>2, <3>1 DEF HasNode
    <3> QED BY <2>1, <3>2, <3>3
  <2>4. CASE ~HasNode(n)
    BY <1>0, <1>5, <2>1, <2>2, <2>4 DEF DeleteNode, HasNode
  <2> QED BY <2>3, <2>4
<1>6. CASE DeleteFacts(a)
  <2>1. edges'[e] = IF HasEdge(e) /\ edges[e].subject = n THEN Forgotten(e) ELSE edges[e]
    BY <1>0, <1>6 DEF DeleteFacts
  <2>3. HasEdge(e) /\ edges[e].subject = k /\ k # n
    BY <1>1, <1>2, <2>1 DEF HasEdge, Forgotten, EdgeRows
  <2>2. HasNode(k)
    BY <1>12, <2>3
  <2> QED BY <1>6, <2>2 DEF DeleteFacts, HasNode
<1>7. CASE InsertFact(a)
  <2>1. HasNode(n) /\ j.pc = "insert" /\ ~DropSource(a) /\ ~DeleteNode(a)
    BY <1>0, <1>7 DEF InsertFact, DropSource, DeleteNode, At, Placed, Adding, Writing
  <2>2. IF e = j.edge THEN edges'[e].subject = n ELSE edges'[e] = edges[e]
    BY <1>0, <1>1, <1>7 DEF InsertFact
  <2>3. CASE e = j.edge
    BY <1>2, <2>1, <2>2, <2>3, ConceptsStay
  <2>4. CASE e # j.edge
    BY <1>2, <1>3, <2>1, <2>2, <2>4 DEF HasEdge
  <2> QED BY <2>3, <2>4
<1>8. CASE Move(a)
  <2>1. HasNode(m) /\ j.pc = "move" /\ ~DropSource(a) /\ ~DeleteNode(a)
    BY <1>0, <1>1, <1>8, StepsDisjoint DEF Move, DropSource, DeleteNode, At, Placed, JobHolds, Merging
  <2>2. HasEdge(e) /\ (k = m \/ edges[e].subject = k)
    BY <1>0, <1>1, <1>2, <1>8 DEF Move, HasEdge, EdgeRows
  <2> QED BY <1>3, <2>1, <2>2, ConceptsStay
<1>9. CASE CloseOld(a) \/ Settle(a) \/ RetireFact(a)
  <2>1. j.pc # "forget" /\ ~DropSource(a) /\ ~DeleteNode(a)
    BY <1>9 DEF CloseOld, Settle, RetireFact, DropSource, DeleteNode, At
  <2>2. HasEdge(e) /\ edges[e].subject = k
    <3>1. CASE RetireFact(a)
      BY <1>1, <1>2, <3>1 DEF RetireFact, HasEdge, EdgeRows
    <3>2. CASE CloseOld(a) \/ Settle(a)
      <4>1. UNCHANGED edges \/ \E f \in Edges : \E w : HasEdge(f) /\ edges' = Closed(f, w)
        BY <1>1, <3>2 DEF CloseOld, Settle, Loser, Jobs
      <4> QED BY <1>2, <4>1, ClosedIsClosed DEF HasEdge
    <3> QED BY <1>9, <3>1, <3>2
  <2> QED BY <1>3, <2>1, <2>2
<1>10. CASE UNCHANGED edges /\ ~DeleteFacts(a) /\ ~DropSource(a) /\ ~DeleteNode(a)
  <2>1. j.pc # "forget"
    BY <1>10
    DEF Step, ByKey, ByAlias, ByScan, FindAlias, KeepAlias, Touch, FindNode, EnrichNode, OpenNode,
        SetContent, ReadCurrent, Confirm, CloseOld, InsertFact, FindSource, FindTarget, ReadTheirs,
        ReadOurs, Settle, ReadMoves, Move, ReadAliases, MoveAlias, FindFact, RetireFact, At
  <2> QED BY <1>2, <1>3, <1>10, <2>1 DEF HasEdge
<1>11. \/ UNCHANGED edges
       \/ CloseOld(a) \/ InsertFact(a) \/ Settle(a) \/ Move(a) \/ RetireFact(a) \/ DeleteFacts(a)
  BY DEF Step, ByKey, ByAlias, ByScan, FindAlias, KeepAlias, Touch, FindNode, EnrichNode, OpenNode,
         SetContent, ReadCurrent, Confirm, FindSource, FindTarget, ReadTheirs, ReadOurs, ReadMoves,
         ReadAliases, MoveAlias, DropSource, FindFact, DeleteNode
<1> QED BY <1>4, <1>5, <1>6, <1>7, <1>8, <1>9, <1>10, <1>11

\* Every step keeps the row a fact points at.
LEMMA StepKeepsChains ==
  ASSUME OneActor, MemoryInv, NEW a \in Actors, Replacing(job[a]), Absorbing(job[a]), Placed(job[a]),
         ChainsLead, Step(a)
  PROVE  ChainsLead'
<1> DEFINE j == job[a]
<1>0. PICK n, m : n = j.node /\ m = j.into
  OBVIOUS
<1>1. JobHolds(a, j) /\ j \in Jobs /\ edges \in [Edges -> EdgeRows]
  BY DEF MemoryInv, TablesTyped
<1>2. SUFFICES ASSUME NEW e \in Edges, NEW w, w = edges'[e].by, w # Nil
               PROVE  edges'[e].state = "closed" /\ (Replaced(e, w)' \/ Awaited(e, w)')
  BY DEF ChainsLead, Replaced, Awaited, HasEdge
<1> DEFINE spans == edges[e].subject \in {n, m} /\ edges[w].subject \in {n, m}
           waits == j.pc \in Writing /\ w = j.edge /\ edges[e].subject = n /\ edges[e].rel = j.rel
\* What the chain said before the step.
<1>3. ASSUME edges[e].by = w
      PROVE  /\ edges[e].state = "closed"
             /\ \/ /\ HasEdge(w) /\ edges[w].rel = edges[e].rel
                   /\ edges[w].subject = edges[e].subject
                      \/ (j.pc \in {"settle", "moves", "move"} /\ spans)
                \/ waits
  BY <1>0, <1>2, <1>3 DEF ChainsLead, Replaced, Awaited, OneActor
<1>4. w \in Edges
  <2>1. edges'[e].by \in Edges \cup {Nil}
    BY StepKeepsMemory DEF MemoryInv, TablesTyped, EdgeRows
  <2> QED BY <1>2, <2>1
\* Steps that write no fact, move none and forget none.
<1>5. ASSUME SameRows, edges[e].by = w, edges'[e].state = "closed", j.pc \notin Writing,
             \/ j.pc \notin {"settle", "moves", "move"}
             \/ job'[a].pc \in {"settle", "moves", "move"} /\ SameMerge(a)
             \/ \A f \in Edges : HasEdge(f) => edges[f].subject # n
      PROVE  Replaced(e, w)'
  <2>1. HasEdge(e) /\ HasEdge(w) /\ edges[w].rel = edges[e].rel
    BY <1>3, <1>5 DEF HasEdge
  <2>2. HasEdge(w)' /\ edges'[w].rel = edges'[e].rel
    BY <1>4, <1>5, <2>1 DEF SameRows
  <2>3. CASE edges[w].subject = edges[e].subject
    BY <1>4, <1>5, <2>2, <2>3 DEF SameRows, Replaced, HasEdge
  <2>4. CASE edges[w].subject # edges[e].subject
    <3>1. j.pc \in {"settle", "moves", "move"} /\ spans
      BY <1>3, <1>5, <2>4
    <3>2. job'[a].pc \in {"settle", "moves", "move"} /\ SameMerge(a)
      BY <1>4, <1>5, <2>1, <2>4, <3>1
    <3>3. edges'[e].subject \in {n, m} /\ edges'[w].subject \in {n, m}
      BY <1>4, <1>5, <3>1 DEF SameRows
    <3> QED BY <1>0, <2>2, <3>2, <3>3 DEF Replaced, HasEdge, SameMerge, SameNode
  <2> QED BY <2>3, <2>4
<1>6. CASE /\ UNCHANGED edges
           /\ j.pc \notin Writing /\ j.pc \notin {"settle", "moves", "move"}
  <2>1. SameRows /\ edges[e].by = w
    BY <1>2, <1>6 DEF SameRows, HasEdge
  <2> QED BY <1>3, <1>5, <1>6, <2>1
<1>7. CASE ReadMoves(a)
  <2> DEFINE held == {f \in Edges : HasEdge(f) /\ edges[f].subject = n}
  <2>1. UNCHANGED edges /\ j.pc = "moves"
    BY <1>7 DEF ReadMoves, At
  <2>2. SameMerge(a) /\ job'[a].pc = (IF held = {} THEN "aliases" ELSE "move")
    BY <1>0, <1>7, MergeSteps
  <2>3. SameRows /\ edges[e].by = w /\ j.pc \notin Writing
    BY <1>2, <2>1 DEF SameRows, HasEdge, Writing
  <2>4. CASE held = {}
    BY <1>3, <1>5, <2>1, <2>3, <2>4
  <2>5. CASE held # {}
    <3>1. job'[a].pc = "move"
      BY <2>2, <2>5
    <3> QED BY <1>3, <1>5, <2>1, <2>2, <2>3, <3>1
  <2> QED BY <2>4, <2>5
<1>8. CASE RetireFact(a)
  <2>1. j.pc = "retire" /\ j.edge \in Edges
    BY <1>1, <1>8, StepsDisjoint DEF RetireFact, At, JobHolds
  <2>2. edges' = IF HasEdge(j.edge) THEN [edges EXCEPT ![j.edge].state = "closed"] ELSE edges
    BY <1>8 DEF RetireFact
  <2>3. /\ SameRows /\ edges'[e].by = edges[e].by
        /\ edges[e].state = "closed" => edges'[e].state = "closed"
    BY <1>1, <2>1, <2>2 DEF SameRows, HasEdge, EdgeRows
  <2> QED BY <1>2, <1>3, <1>5, <2>1, <2>3 DEF Writing
<1>9. CASE Settle(a)
  <2>1. /\ j.todo \subseteq OpenEdges(n) /\ j.pc = "settle" /\ j.pc \notin Writing
        /\ \A c \in j.seen : HasEdge(c) /\ edges[c].subject = m /\ c \in Edges
    BY <1>0, <1>1, <1>9 DEF Settle, At, Absorbing, Placed, Jobs, Writing
  <2>2. \A f \in j.todo : f \in Edges /\ HasEdge(f) /\ edges[f].subject = n
    BY <2>1 DEF OpenEdges, HasEdge
  <2>10. PICK x \in j.todo, clash \in j.seen :
           /\ edges[clash].rel = edges[x].rel
           /\ edges' = Closed(Loser(x, clash), IF Loser(x, clash) = x THEN clash ELSE x)
           /\ job' = [job EXCEPT ![a].todo = @ \ {x},
                                 ![a].pc = IF j.todo = {x} THEN "moves" ELSE "settle"]
    BY <1>9, <2>1, <2>2 DEF Settle, Loser
  <2>11. PICK lost \in {x, clash}, won \in {x, clash} : edges' = Closed(lost, won)
    BY <2>10 DEF Loser
  <2>3. /\ x \in Edges /\ HasEdge(x) /\ edges[x].subject = n
        /\ clash \in Edges /\ HasEdge(clash) /\ edges[clash].subject = m
    BY <2>1, <2>2
  <2>4. /\ edges'[lost].state = "closed" /\ edges'[lost].by = won
        /\ \A f \in Edges : /\ f # lost => edges'[f] = edges[f]
                            /\ edges'[f].rel = edges[f].rel /\ edges'[f].subject = edges[f].subject
    BY <2>3, <2>11, ClosedIsClosed
  <2>5. SameRows
    BY <2>3, <2>4 DEF SameRows, HasEdge
  <2>6. job'[a].pc \in {"settle", "moves", "move"} /\ SameMerge(a)
    <3> DEFINE s == IF j.todo = {x} THEN "moves" ELSE "settle"
               t == j.todo \ {x}
    <3>1. job' = [job EXCEPT ![a].todo = t, ![a].pc = s] /\ s \in {"moves", "settle"}
      BY <2>10
    <3>2. job'[a].pc \in {"moves", "settle"}
      <4> HIDE DEF s, t
      <4> QED BY <1>1, <3>1 DEF MemoryInv, Jobs
    <3> QED BY <1>9, <3>2, MergeSteps DEF Idle
  <2>7. CASE e # lost
    BY <1>2, <1>3, <1>5, <2>1, <2>4, <2>5, <2>6, <2>7
  <2>8. CASE e = lost
    <3>1. edges'[e].state = "closed" /\ w = won
      BY <1>2, <2>4, <2>8
    <3>2. edges'[e].subject \in {n, m} /\ edges'[w].subject \in {n, m}
      BY <2>3, <2>4, <2>8, <3>1
    <3>3. HasEdge(w)' /\ edges'[w].rel = edges'[e].rel
      BY <2>3, <2>4, <2>5, <2>8, <2>10, <3>1 DEF SameRows
    <3>4. Replaced(e, w)'
      BY <1>0, <2>6, <3>2, <3>3 DEF Replaced, HasEdge, SameMerge, SameNode
    <3> QED BY <3>1, <3>4
  <2> QED BY <2>7, <2>8
<1>10. CASE Move(a)
  <2>1. j.pc = "move" /\ j.pc \notin Writing /\ n # m
    BY <1>0, <1>1, <1>10, StepsDisjoint DEF Move, At, JobHolds, Absorbing, Writing, Merging
  <2>2. j.todo = {f \in Edges : HasEdge(f) /\ edges[f].subject = n}
    BY <1>0, <2>1 DEF Placed
  <2>3. PICK x \in j.todo :
          /\ edges' = [edges EXCEPT ![x].subject = m]
          /\ job' = [job EXCEPT ![a].todo = @ \ {x},
                                ![a].pc = IF j.todo = {x} THEN "aliases" ELSE "move"]
    BY <1>0, <1>10, <2>2 DEF Move
  <2>4. SameMerge(a) /\ job'[a].pc = (IF j.todo = {x} THEN "aliases" ELSE "move")
    <3> DEFINE s == IF j.todo = {x} THEN "aliases" ELSE "move"
               t == j.todo \ {x}
    <3>1. job' = [job EXCEPT ![a].todo = t, ![a].pc = s]
      BY <2>3
    <3>2. s \in {"aliases", "move"}
      OBVIOUS
    <3>3. job'[a].pc = s
      <4> HIDE DEF s, t
      <4> QED BY <1>1, <3>1 DEF MemoryInv, Jobs
    <3>4. SameMerge(a)
      <4> HIDE DEF s, t
      <4> QED BY <1>10, <3>2, <3>3, MergeSteps DEF Idle
    <3> QED BY <3>3, <3>4
  <2>5. /\ x \in Edges /\ HasEdge(x) /\ edges[x].subject = n /\ edges'[x].subject = m
        /\ \A f \in Edges : /\ HasEdge(f)' <=> HasEdge(f)
                            /\ edges'[f].rel = edges[f].rel /\ edges'[f].by = edges[f].by
                            /\ edges'[f].state = edges[f].state
                            /\ f # x => edges'[f].subject = edges[f].subject
    BY <1>1, <2>2, <2>3 DEF HasEdge, EdgeRows
  <2>6. /\ edges'[e].state = "closed" /\ HasEdge(e) /\ HasEdge(w)
        /\ HasEdge(w)' /\ edges'[w].rel = edges'[e].rel
        /\ edges[w].subject = edges[e].subject \/ spans
    BY <1>2, <1>3, <1>4, <2>1, <2>5 DEF HasEdge
  <2>7. CASE edges[e].subject \notin {n, m}
    <3>1. edges[w].subject = edges[e].subject /\ e # x /\ w # x
      BY <2>5, <2>6, <2>7
    <3>2. edges'[w].subject = edges'[e].subject
      BY <1>4, <2>5, <3>1
    <3> QED BY <2>6, <3>2 DEF Replaced, HasEdge
  <2>8. CASE edges[e].subject \in {n, m}
    <3>1. edges'[e].subject \in {n, m} /\ edges'[w].subject \in {n, m}
      BY <1>4, <2>5, <2>6, <2>8
    <3>2. CASE j.todo = {x}
      <4>1. edges'[e].subject # n /\ edges'[w].subject # n
        BY <1>4, <2>1, <2>2, <2>5, <2>6, <3>2
      <4> QED BY <2>6, <3>1, <4>1 DEF Replaced, HasEdge
    <3>3. CASE j.todo # {x}
      <4>1. job'[a].pc = "move" /\ job'[a].node = n /\ job'[a].into = m
        BY <1>0, <2>4, <3>3 DEF SameMerge, SameNode
      <4> QED BY <2>6, <3>1, <4>1 DEF Replaced, HasEdge
    <3> QED BY <3>2, <3>3
  <2> QED BY <2>7, <2>8
<1>11. CASE CloseOld(a)
  <2>1. /\ j.pc = "close" /\ j.edge \in Edges
        /\ j.todo = {f \in OpenEdges(n) : edges[f].rel = j.rel}
    BY <1>0, <1>1, <1>11 DEF CloseOld, At, JobHolds, Replacing, Writing
  <2>2. PICK x \in j.todo :
          /\ edges' = Closed(x, j.edge)
          /\ job' = [job EXCEPT ![a].todo = @ \ {x},
                                ![a].pc = IF j.todo = {x} THEN "insert" ELSE "close"]
    BY <1>11, <2>1 DEF CloseOld, OpenEdges, HasEdge
  <2>3. SameFact(a) /\ job'[a].edge = j.edge /\ job'[a].pc \in Writing
    <3> DEFINE s == IF j.todo = {x} THEN "insert" ELSE "close"
               t == j.todo \ {x}
    <3>1. job' = [job EXCEPT ![a].todo = t, ![a].pc = s] /\ s \in Writing
      BY <2>2 DEF Writing
    <3> HIDE DEF s, t
    <3> QED BY <1>1, <3>1 DEF MemoryInv, Jobs, SameFact, SameNode
  <2>4. x \in Edges /\ HasEdge(x) /\ edges[x].subject = n /\ edges[x].rel = j.rel
    BY <2>1 DEF OpenEdges, HasEdge
  <2>5. /\ edges'[x].state = "closed" /\ edges'[x].by = j.edge
        /\ \A f \in Edges : /\ f # x => edges'[f] = edges[f]
                            /\ edges'[f].rel = edges[f].rel /\ edges'[f].subject = edges[f].subject
    BY <2>2, <2>4, ClosedIsClosed
  <2>6. CASE e = x
    BY <1>0, <1>2, <2>3, <2>4, <2>5, <2>6 DEF Awaited, SameFact, SameNode
  <2>7. CASE e # x
    <3>1. edges'[e] = edges[e] /\ edges[e].by = w
      BY <1>2, <2>5, <2>7
    <3>2. CASE waits
      BY <1>0, <1>3, <2>3, <3>1, <3>2 DEF Awaited, SameFact, SameNode
    <3>3. CASE ~waits
      <4>1. HasEdge(w) /\ edges[w].rel = edges[e].rel /\ edges[w].subject = edges[e].subject
        BY <1>3, <2>1, <3>1, <3>3
      <4>2. HasEdge(w)' /\ edges'[w].rel = edges'[e].rel /\ edges'[w].subject = edges'[e].subject
        BY <1>4, <2>5, <3>1, <4>1 DEF HasEdge
      <4> QED BY <1>3, <3>1, <4>2 DEF Replaced, HasEdge
    <3> QED BY <3>2, <3>3
  <2> QED BY <2>6, <2>7
<1>12. CASE InsertFact(a)
  <2>1. PICK x \in Edges : x = j.edge
    BY <1>1, <1>12 DEF InsertFact, At, JobHolds, Writing
  <2>2. edges[x].state = "unwritten" /\ j.pc = "insert"
    BY <1>12, <2>1 DEF MemoryInv, DrawnOnce, Draws, InsertFact, At, Writing
  <2>3. /\ edges'[x].state = "open" /\ edges'[x].by = Nil
        /\ edges'[x].subject = n /\ edges'[x].rel = j.rel
        /\ \A f \in Edges : f # x => edges'[f] = edges[f]
    BY <1>0, <1>1, <1>12, <2>1 DEF InsertFact
  <2>4. edges'[e] = edges[e] /\ edges[e].by = w
    BY <1>2, <2>3
  <2>5. CASE waits
    BY <1>3, <2>1, <2>3, <2>4, <2>5 DEF Replaced, HasEdge
  <2>6. CASE ~waits
    <3>1. HasEdge(w) /\ edges[w].rel = edges[e].rel /\ edges[w].subject = edges[e].subject
      BY <1>3, <2>2, <2>4, <2>6
    <3>2. edges'[w] = edges[w]
      BY <1>4, <2>2, <2>3, <3>1 DEF HasEdge
    <3> QED BY <1>3, <2>4, <3>1, <3>2 DEF Replaced, HasEdge
  <2> QED BY <2>5, <2>6
<1>13. CASE DeleteFacts(a)
  <2>1. j.pc = "forget"
    BY <1>13 DEF DeleteFacts, At
  <2>2. \A f \in Edges :
          edges'[f] = IF HasEdge(f) /\ edges[f].subject = n THEN Forgotten(f) ELSE edges[f]
    BY <1>0, <1>13 DEF DeleteFacts
  <2>3. Forgotten(e).by = Nil
    BY <1>1 DEF Forgotten, EdgeRows
  <2>4. edges'[e] = edges[e] /\ edges[e].by = w /\ ~(HasEdge(e) /\ edges[e].subject = n)
    BY <1>2, <2>2, <2>3
  <2>5. /\ edges[e].state = "closed" /\ HasEdge(w) /\ edges[w].rel = edges[e].rel
        /\ edges[w].subject = edges[e].subject
    BY <1>3, <2>1, <2>4 DEF Writing
  <2>6. edges'[w] = edges[w]
    BY <1>4, <2>2, <2>4, <2>5 DEF HasEdge
  <2> QED BY <2>4, <2>5, <2>6 DEF Replaced, HasEdge
<1>14. \/ /\ UNCHANGED edges
          /\ j.pc \notin Writing /\ j.pc \notin {"settle", "moves", "move"}
       \/ CloseOld(a) \/ InsertFact(a) \/ Settle(a) \/ ReadMoves(a) \/ Move(a) \/ RetireFact(a)
       \/ DeleteFacts(a)
  BY DEF Step, ByKey, ByAlias, ByScan, FindAlias, KeepAlias, Touch, FindNode, EnrichNode, OpenNode,
         SetContent, ReadCurrent, Confirm, FindSource, FindTarget, ReadTheirs, ReadOurs,
         ReadAliases, MoveAlias, DropSource, FindFact, DeleteNode, At, Writing
<1> QED BY <1>6, <1>7, <1>8, <1>9, <1>10, <1>11, <1>12, <1>13, <1>14

LEMMA TidyInvNext ==
  OneActor /\ MaxFaults = 0 /\ MemoryInv /\ CurrentInv /\ TidyInv /\ [Next]_vars => TidyInv'
<1> SUFFICES ASSUME OneActor, MaxFaults = 0, MemoryInv, CurrentInv, TidyInv, [Next]_vars
             PROVE  TidyInv'
  OBVIOUS
<1>1. ASSUME NEW a \in Actors, Step(a) PROVE TidyInv'
  <2>1. Replacing(job[a]) /\ Absorbing(job[a]) /\ Placed(job[a]) /\ FactsPlaced /\ ChainsLead
    BY DEF CurrentInv, TidyInv
  <2>2. Placed(job[a])' /\ FactsPlaced' /\ ChainsLead'
    BY <1>1, <2>1, StepKeepsPlaced, StepKeepsFactsPlaced, StepKeepsChains
  <2> QED BY <2>2 DEF OneActor, TidyInv
<1>2. ASSUME NEW a \in Actors, Stop(a) PROVE FALSE
  BY <1>2 DEF Stop, MemoryInv, TablesTyped
<1>3. ASSUME NEW a \in Actors, NEW j, Start(a, j), j.pc \notin Adding, j.pc # "forget",
             j.op = "merge" => j.pc = "source", j.pc \notin {"ours", "settle", "move"}
      PROVE  TidyInv'
  <2>1. job[a] = Idle /\ job'[a] = j /\ UNCHANGED <<nodes, edges>>
    BY <1>3 DEF Start, MemoryInv
  <2>2. Placed(job[a])'
    BY <1>3, <2>1 DEF Placed, Moved, Naming
  <2>3. FactsPlaced'
    BY <1>3, <2>1 DEF TidyInv, FactsPlaced, Forgetting, HasEdge, HasNode, OneActor, Idle
  <2>4. ChainsLead'
    BY <1>3, <2>1 DEF TidyInv, ChainsLead, Replaced, Awaited, HasEdge, OneActor, Idle, Writing
  <2> QED BY <2>2, <2>3, <2>4 DEF OneActor, TidyInv
<1>4. ASSUME NEW a \in Actors, Learn(a) \/ Write(a) \/ Merge(a) \/ Retire(a) \/ Delete(a)
      PROVE  TidyInv'
  <2>1. CASE Learn(a)
    <3>1. PICK t, x, title, r, v : Start(a, ReadFact(t, x, title, r, v))
      BY <2>1 DEF Learn
    <3>2. ReadFact(t, x, title, r, v).pc = "byKey" /\ ReadFact(t, x, title, r, v).op = "learn"
      BY DEF ReadFact, Idle
    <3> QED BY <1>3, <3>1, <3>2 DEF Adding, Writing
  <2>2. CASE Write(a)
    <3>1. PICK x, title : Start(a, [Idle EXCEPT !.pc = "find", !.op = "write", !.at = clock + 1,
                                                !.key = x, !.title = title])
      BY <2>2 DEF Write
    <3> QED BY <1>3, <3>1 DEF Adding, Writing, Idle
  <2>3. CASE Merge(a)
    <3>1. PICK n, m : Start(a, [Idle EXCEPT !.pc = "source", !.op = "merge", !.at = clock + 1,
                                            !.node = n, !.into = m])
      BY <2>3 DEF Merge
    <3> QED BY <1>3, <3>1 DEF Adding, Writing, Idle
  <2>4. CASE Retire(a)
    <3>1. PICK e : Start(a, [Idle EXCEPT !.pc = "fact", !.op = "retire", !.edge = e])
      BY <2>4 DEF Retire
    <3> QED BY <1>3, <3>1 DEF Adding, Writing, Idle
  <2>5. CASE Delete(a)
    <3>1. PICK n : Start(a, [Idle EXCEPT !.pc = "delete", !.op = "delete", !.node = n])
      BY <2>5 DEF Delete
    <3> QED BY <1>3, <3>1 DEF Adding, Writing, Idle
  <2> QED BY <1>4, <2>1, <2>2, <2>3, <2>4, <2>5
<1>5. CASE UNCHANGED vars
  BY <1>5 DEF vars, TidyInv, Placed, FactsPlaced, Forgetting, ChainsLead, Replaced, Awaited, HasEdge,
              HasNode
<1> QED BY <1>1, <1>2, <1>4, <1>5 DEF Next, Actors

LEMMA TidyInvariant == ASSUME OneActor, MaxFaults = 0 PROVE Spec => [](CurrentInv /\ TidyInv)
<1>1. Init => CurrentInv /\ TidyInv
  BY DEF Init, CurrentInv, OneCurrent, Replacing, Absorbing, TidyInv, Placed, FactsPlaced, ChainsLead,
         HasEdge, NoEdge, Idle, None, Adding, Writing
<1>2. MemoryInv /\ CurrentInv /\ TidyInv /\ [Next]_vars => (CurrentInv /\ TidyInv)'
  BY CurrentInvNext, TidyInvNext
<1> QED BY <1>1, <1>2, MemoryIsTyped, PTL DEF Spec

\* While one call runs after another and each runs to its end, every fact
\* belongs to a concept the memory holds between two calls (delete_node,
\* merge_nodes, touch_node).
THEOREM FactsHaveConcepts == ASSUME OneActor, MaxFaults = 0 PROVE Spec => []NoOrphanFacts
<1>1. TidyInv => NoOrphanFacts
  BY DEF TidyInv, FactsPlaced, Forgetting, NoOrphanFacts, Quiet, Idle
<1> QED BY <1>1, TidyInvariant, PTL

\* While one call runs after another and each runs to its end, a fact that was
\* replaced points at the fact of its concept and relation that replaced it
\* (add_fact, merge_nodes).
THEOREM ChainsAreKept == ASSUME OneActor, MaxFaults = 0 PROVE Spec => []ChainsHold
<1>1. TidyInv => ChainsHold
  BY DEF TidyInv, ChainsLead, Replaced, Awaited, ChainsHold, Quiet, Idle, Writing, HasEdge
<1> QED BY <1>1, TidyInvariant, PTL
=============================================================================
