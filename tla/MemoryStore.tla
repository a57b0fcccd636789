---------------------------- MODULE MemoryStore ----------------------------
(***************************************************************************)
(* The long term memory: the tables of librarian/store.rs and the writes   *)
(* of librarian/facts.rs and librarian/service.rs.                         *)
(*                                                                         *)
(* The worker writes the facts it reads from a turn; an editor writes,     *)
(* merges and deletes concepts and retires facts by hand.  No call opens a *)
(* transaction, so calls interleave at every database call, and a call     *)
(* that fails or stops leaves what it has written.  Each step below is one *)
(* database call.                                                          *)
(*                                                                         *)
(* A name is one class of same_name, a relation one class of relation_key  *)
(* and a value one class of same_fact_value, so the comparisons of the     *)
(* code are equalities here.  Ratings, confirmations, the body of a        *)
(* concept and the time it last changed decide no step and are left out.   *)
(* The facts a call carries are those the gate keeps.                      *)
(***************************************************************************)
EXTENDS Naturals, FiniteSets

CONSTANTS
  Names, Relations, Values,
  Workers,     \* actors that read turns; the daemon starts one
  Editors,     \* actors that call the memory handlers
  MaxNodes,    \* bound on the concepts opened
  MaxEdges,    \* bound on the facts written
  MaxCalls,    \* bound on the calls
  MaxFaults    \* bound on the calls that stop half way

ASSUME BoundsAssumption ==
  MaxNodes \in Nat /\ MaxEdges \in Nat /\ MaxCalls \in Nat /\ MaxFaults \in Nat

VARIABLES
  nodes,    \* memory_node
  alias,    \* memory_alias: the concept each name belongs to
  edges,    \* memory_edge
  made,     \* how many identifiers of facts were drawn
  job,      \* the call each actor is in
  clock,    \* the time, which every call moves
  faults    \* calls that stopped half way so far

vars == <<nodes, alias, edges, made, job, clock, faults>>

Actors == Workers \cup Editors
Nodes == 1..MaxNodes
Edges == 1..MaxEdges
Times == 0..MaxCalls
None == "none"    \* no name, no relation, no value
Nil == 0          \* no concept, no fact

NoNode(state) == [state |-> state, key |-> None, title |-> None]
NoEdge == [state |-> "unwritten", subject |-> Nil, rel |-> None, val |-> None,
           at |-> 0, by |-> Nil]

Idle == [pc |-> "idle", op |-> None, at |-> 0,
         key |-> None, title |-> None, naming |-> "key",   \* the names of the call
         node |-> Nil, into |-> Nil,                       \* its concepts
         rel |-> None, val |-> None, edge |-> Nil,         \* its fact
         seen |-> {}, todo |-> {}, names |-> {}]           \* the rows it read

Init ==
  /\ nodes = [n \in Nodes |-> NoNode("unwritten")]
  /\ alias = [x \in Names |-> Nil]
  /\ edges = [e \in Edges |-> NoEdge]
  /\ made = 0
  /\ job = [a \in Actors |-> Idle]
  /\ clock = 0
  /\ faults = 0

HasNode(n) == n \in Nodes /\ nodes[n].state = "row"
HasEdge(e) == edges[e].state \in {"open", "closed"}
Keyed(x) == {n \in Nodes : HasNode(n) /\ nodes[n].key = x}
OpenEdges(n) == {e \in Edges : edges[e].state = "open" /\ edges[e].subject = n}

At(a, step) == job[a].pc = step
Go(a, step) == job' = [job EXCEPT ![a].pc = step]
Return(a) == job' = [job EXCEPT ![a] = Idle]

-----------------------------------------------------------------------------
\* Calls.  Each one reads the clock; a turn the worker reads may be older.

Start(a, call) ==
  /\ job[a] = Idle
  /\ clock < MaxCalls
  /\ clock' = clock + 1
  /\ job' = [job EXCEPT ![a] = call]
  /\ UNCHANGED <<nodes, alias, edges, made, faults>>

\* One fact of a turn of time t: its subject has to be resolved first.
ReadFact(t, x, title, r, v) ==
  [Idle EXCEPT !.pc = "byKey", !.op = "learn", !.at = t,
               !.key = x, !.title = title, !.rel = r, !.val = v]

Learn(a) ==
  \E t \in 1..(clock + 1), x, title \in Names, r \in Relations, v \in Values :
    Start(a, ReadFact(t, x, title, r, v))

Write(a) ==
  \E x, title \in Names :
    Start(a, [Idle EXCEPT !.pc = "find", !.op = "write", !.at = clock + 1,
                          !.key = x, !.title = title])

\* An editor names concepts and facts it has seen, which may be gone by now.
Seen(n) == nodes[n].state # "unwritten"

Merge(a) ==
  \E n, m \in {k \in Nodes : Seen(k)} :
    /\ n # m
    /\ Start(a, [Idle EXCEPT !.pc = "source", !.op = "merge", !.at = clock + 1,
                             !.node = n, !.into = m])

Retire(a) ==
  \E e \in Edges :
    /\ edges[e].state # "unwritten"
    /\ Start(a, [Idle EXCEPT !.pc = "fact", !.op = "retire", !.edge = e])

Delete(a) ==
  \E n \in Nodes :
    Seen(n) /\ Start(a, [Idle EXCEPT !.pc = "delete", !.op = "delete", !.node = n])

-----------------------------------------------------------------------------
\* resolve_subject: the key, then a known name, then a scan of the concepts.

ByKey(a) ==
  /\ At(a, "byKey")
  /\ \/ \E n \in Keyed(job[a].key) :
          job' = [job EXCEPT ![a].pc = "findAlias", ![a].node = n]
     \/ Keyed(job[a].key) = {} /\ Go(a, "byAlias")
  /\ UNCHANGED <<nodes, alias, edges, made, clock, faults>>

ByAlias(a) ==
  LET owner == alias[job[a].key] IN
  /\ At(a, "byAlias")
  /\ IF owner # Nil
     THEN job' = [job EXCEPT ![a].pc = "findAlias", ![a].node = owner]
     ELSE Go(a, "scan")
  /\ UNCHANGED <<nodes, alias, edges, made, clock, faults>>

\* The scan goes from the concept changed last, which may be any of them.
ByScan(a) ==
  LET same == {n \in Nodes : /\ HasNode(n)
                             /\ \/ nodes[n].key \in {job[a].key, job[a].title}
                                \/ nodes[n].title \in {job[a].key, job[a].title}}
  IN
  /\ At(a, "scan")
  /\ \/ \E n \in same : job' = [job EXCEPT ![a].pc = "findAlias", ![a].node = n]
     \/ same = {} /\ Go(a, "find")
  /\ UNCHANGED <<nodes, alias, edges, made, clock, faults>>

-----------------------------------------------------------------------------
\* record_alias, for the key and then the title the call names.

NameOf(a) == job[a][job[a].naming]
Owner(a) == IF job[a].op = "merge" THEN job[a].into ELSE job[a].node

Named(a) ==
  IF job[a].naming = "key"
  THEN job' = [job EXCEPT ![a].pc = "findAlias", ![a].naming = "title"]
  ELSE Go(a, IF job[a].op = "merge" THEN "drop" ELSE "touch")

FindAlias(a) ==
  /\ At(a, "findAlias")
  /\ IF alias[NameOf(a)] = Nil THEN Go(a, "keepAlias") ELSE Named(a)
  /\ UNCHANGED <<nodes, alias, edges, made, clock, faults>>

\* Seeded fault: the name is written over the one another call kept.
OverwriteAlias(a) ==
  /\ At(a, "keepAlias")
  /\ Named(a)
  /\ alias' = [alias EXCEPT ![NameOf(a)] = Owner(a)]
  /\ UNCHANGED <<nodes, edges, made, clock, faults>>

\* A name another call kept in the meantime is a conflict of the table.
KeepAlias(a) ==
  /\ At(a, "keepAlias")
  /\ IF alias[NameOf(a)] = Nil
     THEN Named(a) /\ alias' = [alias EXCEPT ![NameOf(a)] = Owner(a)]
     ELSE Return(a) /\ UNCHANGED alias
  /\ UNCHANGED <<nodes, edges, made, clock, faults>>

\* Seeded fault: the update of no row passes as a success.
TouchUnchecked(a) ==
  /\ At(a, "touch")
  /\ Go(a, "current")
  /\ UNCHANGED <<nodes, alias, edges, made, clock, faults>>

\* touch_node: the update of a concept that is gone is an error.
Touch(a) ==
  /\ At(a, "touch")
  /\ IF HasNode(job[a].node) THEN Go(a, "current") ELSE Return(a)
  /\ UNCHANGED <<nodes, alias, edges, made, clock, faults>>

-----------------------------------------------------------------------------
\* upsert_node and set_node_content.

FindNode(a) ==
  /\ At(a, "find")
  /\ \/ \E n \in Keyed(job[a].key) :
          job' = [job EXCEPT ![a].pc = "enrich", ![a].node = n]
     \/ Keyed(job[a].key) = {} /\ Go(a, "open")
  /\ UNCHANGED <<nodes, alias, edges, made, clock, faults>>

Upserted(a) == IF job[a].op = "write" THEN "content" ELSE "current"

EnrichNode(a) ==
  /\ At(a, "enrich")
  /\ IF HasNode(job[a].node)
     THEN /\ nodes' = [nodes EXCEPT ![job[a].node].title = job[a].title]
          /\ Go(a, Upserted(a))
     ELSE Return(a) /\ UNCHANGED nodes
  /\ UNCHANGED <<alias, edges, made, clock, faults>>

\* The key of a concept is unique in the table.
OpenNode(a) ==
  /\ At(a, "open")
  /\ \/ Keyed(job[a].key) # {} /\ Return(a) /\ UNCHANGED nodes
     \/ /\ Keyed(job[a].key) = {}
        /\ \E n \in Nodes :
             /\ nodes[n].state = "unwritten"
             /\ \A m \in 1..(n - 1) : nodes[m].state # "unwritten"
             /\ nodes' = [nodes EXCEPT ![n] =
                  [state |-> "row", key |-> job[a].key, title |-> job[a].title]]
             /\ job' = [job EXCEPT ![a].pc = Upserted(a), ![a].node = n]
  /\ UNCHANGED <<alias, edges, made, clock, faults>>

SetContent(a) ==
  /\ At(a, "content")
  /\ IF HasNode(job[a].node)
     THEN /\ nodes' = [nodes EXCEPT ![job[a].node].title = job[a].title]
          /\ \/ \E r \in Relations, v \in Values :
                  job' = [job EXCEPT ![a].pc = "current", ![a].rel = r, ![a].val = v]
             \/ Return(a)      \* the write names no fact
     ELSE Return(a) /\ UNCHANGED nodes
  /\ UNCHANGED <<alias, edges, made, clock, faults>>

-----------------------------------------------------------------------------
\* add_fact.

\* The call goes on with the next fact of its list or has written the last.
FactDone(a) ==
  LET j == job[a] IN
  \/ Return(a)
  \/ /\ j.op = "learn"
     /\ \E x, title \in Names, r \in Relations, v \in Values :
          job' = [job EXCEPT ![a] = ReadFact(j.at, x, title, r, v)]
  \/ /\ j.op = "write"
     /\ \E r \in Relations, v \in Values :
          job' = [job EXCEPT ![a] = [Idle EXCEPT
            !.pc = "current", !.op = "write", !.at = j.at, !.node = j.node,
            !.rel = r, !.val = v]]

\* A fact the memory holds is confirmed; a new one draws its identifier and
\* closes the values of the relation that were read.  The names of the call
\* have done their part.
ReadCurrent(a) ==
  LET current == {e \in OpenEdges(job[a].node) : edges[e].rel = job[a].rel}
      same == {e \in current : edges[e].val = job[a].val}
      call == [job[a] EXCEPT !.key = None, !.title = None, !.naming = "key"]
  IN
  /\ At(a, "current")
  /\ \/ \E e \in same :
          /\ job' = [job EXCEPT ![a] = [call EXCEPT !.pc = "confirm", !.edge = e]]
          /\ UNCHANGED made
     \/ /\ same = {} /\ made < MaxEdges
        /\ made' = made + 1
        /\ job' = [job EXCEPT ![a] = [call EXCEPT
             !.pc = IF current = {} THEN "insert" ELSE "close",
             !.edge = made + 1, !.todo = current]]
  /\ UNCHANGED <<nodes, alias, edges, clock, faults>>

\* Seeded fault: a fact that was closed in the meantime is true again.
ConfirmReopens(a) ==
  LET e == job[a].edge IN
  /\ At(a, "confirm")
  /\ IF HasEdge(e)
     THEN FactDone(a) /\ edges' = [edges EXCEPT ![e].state = "open"]
     ELSE Return(a) /\ UNCHANGED edges
  /\ UNCHANGED <<nodes, alias, made, clock, faults>>

Confirm(a) ==
  /\ At(a, "confirm")
  /\ IF HasEdge(job[a].edge) THEN FactDone(a) ELSE Return(a)
  /\ UNCHANGED <<nodes, alias, edges, made, clock, faults>>

Closed(e, winner) == [edges EXCEPT ![e].state = "closed", ![e].by = winner]

CloseOld(a) ==
  /\ At(a, "close")
  /\ \E e \in job[a].todo :
       IF HasEdge(e)
       THEN /\ edges' = Closed(e, job[a].edge)
            /\ job' = [job EXCEPT ![a].todo = @ \ {e},
                         ![a].pc = IF job[a].todo = {e} THEN "insert" ELSE "close"]
       ELSE Return(a) /\ UNCHANGED edges
  /\ UNCHANGED <<nodes, alias, made, clock, faults>>

InsertFact(a) ==
  LET j == job[a] IN
  /\ At(a, "insert")
  /\ edges' = [edges EXCEPT ![j.edge] = [state |-> "open", subject |-> j.node,
                 rel |-> j.rel, val |-> j.val, at |-> j.at, by |-> Nil]]
  /\ FactDone(a)
  /\ UNCHANGED <<nodes, alias, made, clock, faults>>

-----------------------------------------------------------------------------
\* merge_nodes.

FindSource(a) ==
  LET n == job[a].node IN
  /\ At(a, "source")
  /\ IF HasNode(n)
     THEN job' = [job EXCEPT ![a].pc = "target", ![a].key = nodes[n].key,
                             ![a].title = nodes[n].title]
     ELSE Return(a)
  /\ UNCHANGED <<nodes, alias, edges, made, clock, faults>>

FindTarget(a) ==
  /\ At(a, "target")
  /\ IF HasNode(job[a].into) THEN Go(a, "theirs") ELSE Return(a)
  /\ UNCHANGED <<nodes, alias, edges, made, clock, faults>>

ReadTheirs(a) ==
  /\ At(a, "theirs")
  /\ job' = [job EXCEPT ![a].pc = "ours", ![a].seen = OpenEdges(job[a].into)]
  /\ UNCHANGED <<nodes, alias, edges, made, clock, faults>>

\* Seeded fault: the merge settles no relation the two concepts share.
ReadNone(a) ==
  /\ At(a, "ours")
  /\ Go(a, "moves")
  /\ UNCHANGED <<nodes, alias, edges, made, clock, faults>>

\* The facts of the source whose relation the target holds too.
ReadOurs(a) ==
  LET shared == {e \in OpenEdges(job[a].node) :
                   \E c \in job[a].seen : edges[c].rel = edges[e].rel}
  IN
  /\ At(a, "ours")
  /\ job' = [job EXCEPT ![a].pc = IF shared = {} THEN "moves" ELSE "settle",
                        ![a].todo = shared]
  /\ UNCHANGED <<nodes, alias, edges, made, clock, faults>>

\* The newer value wins, and the target when they say the same.
Loser(e, clash) ==
  IF edges[clash].val = edges[e].val \/ edges[clash].at >= edges[e].at THEN e ELSE clash

Settle(a) ==
  /\ At(a, "settle")
  /\ \E e \in job[a].todo :
     \E clash \in {c \in job[a].seen : edges[c].rel = edges[e].rel} :
       LET lost == Loser(e, clash)
           won == IF lost = e THEN clash ELSE e
       IN
       IF HasEdge(lost)
       THEN /\ edges' = Closed(lost, won)
            /\ job' = [job EXCEPT ![a].todo = @ \ {e},
                         ![a].pc = IF job[a].todo = {e} THEN "moves" ELSE "settle"]
       ELSE Return(a) /\ UNCHANGED edges
  /\ UNCHANGED <<nodes, alias, made, clock, faults>>

\* Seeded fault: the merge moves only what is true now.
ReadOpenMoves(a) ==
  LET held == OpenEdges(job[a].node) IN
  /\ At(a, "moves")
  /\ job' = [job EXCEPT ![a].pc = IF held = {} THEN "aliases" ELSE "move",
                        ![a].todo = held]
  /\ UNCHANGED <<nodes, alias, edges, made, clock, faults>>

ReadMoves(a) ==
  LET held == {e \in Edges : HasEdge(e) /\ edges[e].subject = job[a].node} IN
  /\ At(a, "moves")
  /\ job' = [job EXCEPT ![a].pc = IF held = {} THEN "aliases" ELSE "move",
                        ![a].todo = held]
  /\ UNCHANGED <<nodes, alias, edges, made, clock, faults>>

Move(a) ==
  /\ At(a, "move")
  /\ \E e \in job[a].todo :
       IF HasEdge(e)
       THEN /\ edges' = [edges EXCEPT ![e].subject = job[a].into]
            /\ job' = [job EXCEPT ![a].todo = @ \ {e},
                         ![a].pc = IF job[a].todo = {e} THEN "aliases" ELSE "move"]
       ELSE Return(a) /\ UNCHANGED edges
  /\ UNCHANGED <<nodes, alias, made, clock, faults>>

ReadAliases(a) ==
  LET held == {x \in Names : alias[x] = job[a].node} IN
  /\ At(a, "aliases")
  /\ job' = [job EXCEPT ![a].pc = IF held = {} THEN "findAlias" ELSE "realias",
                        ![a].names = held]
  /\ UNCHANGED <<nodes, alias, edges, made, clock, faults>>

MoveAlias(a) ==
  /\ At(a, "realias")
  /\ \E x \in job[a].names :
       /\ alias' = [alias EXCEPT ![x] = job[a].into]
       /\ job' = [job EXCEPT ![a].names = @ \ {x},
                    ![a].pc = IF job[a].names = {x} THEN "findAlias" ELSE "realias"]
  /\ UNCHANGED <<nodes, edges, made, clock, faults>>

DropSource(a) ==
  /\ At(a, "drop")
  /\ nodes' = [nodes EXCEPT ![job[a].node] = NoNode("gone")]
  /\ Return(a)
  /\ UNCHANGED <<alias, edges, made, clock, faults>>

-----------------------------------------------------------------------------
\* retire_fact and delete_node.

FindFact(a) ==
  /\ At(a, "fact")
  /\ IF edges[job[a].edge].state = "open" THEN Go(a, "retire") ELSE Return(a)
  /\ UNCHANGED <<nodes, alias, edges, made, clock, faults>>

RetireFact(a) ==
  LET e == job[a].edge IN
  /\ At(a, "retire")
  /\ edges' = IF HasEdge(e) THEN [edges EXCEPT ![e].state = "closed"] ELSE edges
  /\ Return(a)
  /\ UNCHANGED <<nodes, alias, made, clock, faults>>

DeleteNode(a) ==
  LET n == job[a].node IN
  /\ At(a, "delete")
  /\ IF HasNode(n)
     THEN nodes' = [nodes EXCEPT ![n] = NoNode("gone")] /\ Go(a, "forget")
     ELSE Return(a) /\ UNCHANGED nodes
  /\ UNCHANGED <<alias, edges, made, clock, faults>>

\* A call that read the row before still knows what it said.
Forgotten(e) == [edges[e] EXCEPT !.state = "forgotten", !.subject = Nil, !.by = Nil]

DeleteFacts(a) ==
  /\ At(a, "forget")
  /\ edges' = [e \in Edges |->
       IF HasEdge(e) /\ edges[e].subject = job[a].node THEN Forgotten(e) ELSE edges[e]]
  /\ Return(a)
  /\ UNCHANGED <<nodes, alias, made, clock, faults>>

-----------------------------------------------------------------------------
\* A database error, a dropped connection or the end of the daemon.
Stop(a) ==
  /\ job[a] # Idle
  /\ faults < MaxFaults
  /\ faults' = faults + 1
  /\ Return(a)
  /\ UNCHANGED <<nodes, alias, edges, made, clock>>

Step(a) ==
  \/ ByKey(a) \/ ByAlias(a) \/ ByScan(a) \/ FindAlias(a) \/ KeepAlias(a) \/ Touch(a)
  \/ FindNode(a) \/ EnrichNode(a) \/ OpenNode(a) \/ SetContent(a)
  \/ ReadCurrent(a) \/ Confirm(a) \/ CloseOld(a) \/ InsertFact(a)
  \/ FindSource(a) \/ FindTarget(a) \/ ReadTheirs(a) \/ ReadOurs(a) \/ Settle(a)
  \/ ReadMoves(a) \/ Move(a) \/ ReadAliases(a) \/ MoveAlias(a) \/ DropSource(a)
  \/ FindFact(a) \/ RetireFact(a) \/ DeleteNode(a) \/ DeleteFacts(a)

Next ==
  \/ \E a \in Workers : Learn(a)
  \/ \E a \in Editors : Write(a) \/ Merge(a) \/ Retire(a) \/ Delete(a)
  \/ \E a \in Actors : Step(a) \/ Stop(a)

Spec == Init /\ [][Next]_vars
-----------------------------------------------------------------------------
\* Properties.

Quiet == \A a \in Actors : job[a] = Idle

\* A relation of a concept has one value that is true now, through every
\* merge of two concepts that each held it (facts.rs:66, 202-205).
OneCurrent ==
  \A e, f \in Edges :
    /\ edges[e].state = "open" /\ edges[f].state = "open"
    /\ edges[e].subject = edges[f].subject /\ edges[e].rel = edges[f].rel
    => e = f

\* Between calls, every fact belongs to a concept the memory holds: a delete
\* leaves none behind and a name of a deleted concept takes none (store.rs:177).
NoOrphanFacts ==
  Quiet => \A e \in Edges : HasEdge(e) => HasNode(edges[e].subject)

\* Between calls, a fact that was replaced points at the fact of the same
\* concept and relation that replaced it, also after a merge moved them.
ChainsHold ==
  Quiet => \A e \in Edges :
    edges[e].by # Nil =>
      LET f == edges[e].by IN
      /\ HasEdge(e) /\ edges[e].state = "closed" /\ HasEdge(f)
      /\ edges[f].subject = edges[e].subject /\ edges[f].rel = edges[e].rel

\* A name that belongs to a concept stays with it: only a merge moves it, onto
\* the concept that absorbs, whatever else writes names (facts.rs:168-170).
NamesStay ==
  [][ \A x \in Names :
        alias[x] # Nil /\ alias'[x] # alias[x] =>
          \E a \in Editors : At(a, "realias") /\ alias'[x] = job[a].into ]_vars

\* What each row says of its fact.
LifeOf(e) ==
  IF HasEdge(e)
  THEN [stage |-> IF edges[e].state = "open" THEN "current" ELSE "closed",
        concept |-> edges[e].subject, relation |-> edges[e].rel, value |-> edges[e].val]
  ELSE [stage |-> edges[e].state]

History == INSTANCE FactLife WITH
  Facts <- Edges, Concepts <- Nodes, life <- [e \in Edges |-> LifeOf(e)]

\* However calls interleave, fail and stop, a fact keeps what it says, a closed
\* fact is not true again, and only the end of a concept removes one
\* (facts.rs:3-7).
HistoryKept == History!Spec
-----------------------------------------------------------------------------
\* What the documentation says and the code does not do.

\* "a new value closes the older one rather than deleting it" (facts.rs:4): the
\* value that was closed is not the newer one.
OlderValueCloses ==
  \A e \in Edges : edges[e].by # Nil /\ HasEdge(edges[e].by) =>
    edges[e].at <= edges[edges[e].by].at \/ edges[e].val = edges[edges[e].by].val
=============================================================================
