--------------------------- MODULE CommandCatalog ---------------------------
(***************************************************************************)
(* The commands of the machine (catalog/), as the prompt of a script lists *)
(* them: fish names the commands, the manual pages say what they do, the   *)
(* list is cut to a size, kept for its lifetime (CatalogStore) and ranked  *)
(* against the message (CatalogRanker, commands_for of                     *)
(* resolver/service.rs).                                                   *)
(*                                                                         *)
(* A command is the place of its name in the order of names.  A sentence   *)
(* is the line it was read from.  A build runs fish and then man, one      *)
(* process after the other, and what is installed may change between them. *)
(***************************************************************************)
EXTENDS Naturals, Sequences, FiniteSets, SequencesExt

CONSTANTS
  Machines,     \* what fish and man print, for each state of the machine
  MaxCommands,  \* how many commands are kept, 0 for all
  Limit,        \* how many of them one prompt lists
  CatalogTtl,
  MaxScripts,   \* bound on the turns that ask
  MaxClock,     \* bound on the time
  NoCommands

ASSUME CatalogAssumption ==
  /\ \A m \in Machines :
       /\ m.fish \in Seq([command : Nat, says : {"nothing", "kind", "sentence"}])
       /\ m.man \in Seq([command : Nat, section : Nat])
  /\ MaxCommands \in Nat /\ Limit \in Nat /\ CatalogTtl \in Nat /\ MaxScripts \in Nat

VARIABLES
  machine,     \* what the machine prints now
  clock,
  cached,      \* the catalog in memory, its time and its reading; or NoCommands
  turns,       \* the turns that ask: what each waits for, and what it was given
  askCount     \* how many turns have asked

commandVars == <<machine, clock, cached, turns, askCount>>

-----------------------------------------------------------------------------
\* A printout is what fish printed, and what man printed after it; a tool that did
\* not run yet, or a manual that cannot be read, printed nothing.
NoPrintout == [fish |-> <<>>, man |-> <<>>]
Printouts == [fish : {<<>>} \cup {m.fish : m \in Machines},
             man : {<<>>} \cup {m.man : m \in Machines}]

\* What the tools print, read line by line.  A line of fish has a command and
\* says "nothing", only the "kind" of the command, or a "sentence"; a line of
\* the manual has a command and a section.

NoSentence == <<"none", 0>>

First(S) == CHOOSE n \in S : \A m \in S : n <= m

\* Of the lines of one command the first counts; the kind is no sentence.
FishSummary(fish, c) ==
  LET n == First({k \in DOMAIN fish : fish[k].command = c})
  IN  IF fish[n].says = "sentence" THEN <<"fish", n>> ELSE NoSentence

SectionRank(section) == CASE section = 1 -> 0 [] section = 8 -> 1 [] OTHER -> 2

\* The section a reader reaches first counts, and of one section the first line.
ManLines(man, c) ==
  LET pages == {n \in DOMAIN man : man[n].command = c}
      rank(n) == SectionRank(man[n].section)
  IN  {n \in pages : \A m \in pages : rank(n) < rank(m) \/ (rank(n) = rank(m) /\ n <= m)}

Summary(r, c) ==
  IF ManLines(r.man, c) # {} THEN <<"man", First(ManLines(r.man, c))>> ELSE FishSummary(r.fish, c)

Named(r) == {r.fish[n].command : n \in DOMAIN r.fish}

\* A set in an order, the pairs of which stand before which (sort_by).
Sorted(S, order) ==
  [n \in 1..Cardinality(S) |->
     CHOOSE e \in S : Cardinality({d \in S : <<d, e>> \in order}) = n - 1]

ByName(S) == Sorted(S, {p \in S \X S : p[1].command < p[2].command})

Entries(r) == {[command |-> c, summary |-> Summary(r, c)] : c \in Named(r)}
Build(r) == ByName(Entries(r))

\* Seeded fault: the list is cut in the order of names.
CapByName(list) ==
  IF MaxCommands = 0 \/ Len(list) <= MaxCommands THEN list ELSE SubSeq(list, 1, MaxCommands)

\* The commands with a sentence first, and of each kind by name.
SentenceFirst(S) ==
  {p \in S \X S :
     \/ p[1].summary # NoSentence /\ p[2].summary = NoSentence
     \/ /\ (p[1].summary = NoSentence) = (p[2].summary = NoSentence)
        /\ p[1].command < p[2].command}

\* A list that is too long keeps the first of that order.
Cap(list) ==
  IF MaxCommands = 0 \/ Len(list) <= MaxCommands THEN list
  ELSE SubSeq(Sorted(ToSet(list), SentenceFirst(ToSet(list))), 1, MaxCommands)

-----------------------------------------------------------------------------
\* The store and the turns.  A turn is a number; more than one may build.

CommandsInit ==
  /\ machine \in Machines /\ clock = 0
  /\ cached = NoCommands
  /\ turns = <<>> /\ askCount = 0

\* A turn asked at `since`, and reads a list that was kept at `at`.
Turn(state, r, list, since, at) ==
  [state |-> state, of |-> r, list |-> list, since |-> since, at |-> at]
SetTurn(t, turn) == turns' = [turns EXCEPT ![t] = turn]

Fresh == cached # NoCommands /\ clock - cached.at < CatalogTtl

AskCommands ==
  /\ askCount < MaxScripts /\ askCount' = askCount + 1
  /\ turns' = Append(turns, IF Fresh THEN Turn("read", cached.of, cached.list, clock, cached.at)
                            ELSE Turn("fish", NoPrintout, <<>>, clock, clock))
  /\ UNCHANGED <<machine, clock, cached>>

\* A build waits for fish, and then for the manual, which it can do without.
ReadFish(t) ==
  /\ turns[t].state = "fish"
  /\ SetTurn(t, [turns[t] EXCEPT !.state = "man", !.of.fish = machine.fish])
  /\ UNCHANGED <<machine, clock, cached, askCount>>

ReadManual(t) ==
  /\ turns[t].state = "man"
  /\ \E man \in {machine.man, <<>>} :
       SetTurn(t, [turns[t] EXCEPT !.state = "built", !.of.man = man])
  /\ UNCHANGED <<machine, clock, cached, askCount>>

\* It keeps its list under the time it ends at; the last to end is kept.
KeepCommands(t) ==
  LET r == turns[t].of
      list == Cap(Build(r))
  IN  /\ turns[t].state = "built"
      /\ cached' = [of |-> r, list |-> list, at |-> clock]
      /\ SetTurn(t, Turn("read", r, list, turns[t].since, clock))
      /\ UNCHANGED <<machine, clock, askCount>>

\* Without fish there is no catalog, and the prompt lists nothing.  A dropped
\* turn ends here too: its build goes on, and is not kept.
NoCatalogRead(t) ==
  /\ turns[t].state \in {"fish", "man", "built"}
  /\ SetTurn(t, [turns[t] EXCEPT !.state = "offers"])
  /\ UNCHANGED <<machine, clock, cached, askCount>>

Take(list) == IF Len(list) <= Limit THEN list ELSE SubSeq(list, 1, Limit)

\* The best of the list by the vectors; equals keep the order of the list.
Ranked(list, score) ==
  LET order == {p \in (DOMAIN list) \X (DOMAIN list) :
                  score[p[1]] > score[p[2]] \/ (score[p[1]] = score[p[2]] /\ p[1] < p[2])}
      best == Sorted(DOMAIN list, order)
  IN  Take([n \in DOMAIN best |-> list[best[n]]])

\* The list is ranked if the settings say so and the vectors are there.
Offer(t) ==
  LET list == turns[t].list IN
  /\ turns[t].state = "read"
  /\ \E offered \in {Take(list)} \cup {Ranked(list, s) : s \in [DOMAIN list -> 0..1]} :
       SetTurn(t, [turns[t] EXCEPT !.state = "offers", !.list = offered])
  /\ UNCHANGED <<machine, clock, cached, askCount>>

ChangeMachine ==
  /\ machine' \in Machines \ {machine}
  /\ UNCHANGED <<clock, cached, turns, askCount>>
Pass ==
  /\ clock < MaxClock /\ clock' = clock + 1
  /\ UNCHANGED <<machine, cached, turns, askCount>>

CommandsNext ==
  \/ AskCommands \/ ChangeMachine \/ Pass
  \/ \E t \in DOMAIN turns :
       ReadFish(t) \/ ReadManual(t) \/ KeepCommands(t) \/ NoCatalogRead(t) \/ Offer(t)

CommandsSpec == CommandsInit /\ [][CommandsNext]_commandVars
-----------------------------------------------------------------------------
\* Properties.

Pages(r, c) == {n \in DOMAIN r.man : r.man[n].command = c}

\* What fish says of a command is its first line, if that is a sentence.
Said(r, c) ==
  {n \in DOMAIN r.fish : /\ r.fish[n] = [command |-> c, says |-> "sentence"]
                         /\ \A k \in 1..n - 1 : r.fish[k].command # c}

Documented(r, c) == Pages(r, c) # {} \/ Said(r, c) # {}

\* The sentence is of the page a reader reaches first where the command has one,
\* and what fish says where it has none.
Tells(r, c, summary) ==
  \/ \E n \in Pages(r, c) :
       /\ summary = <<"man", n>>
       /\ \A k \in Pages(r, c) : SectionRank(r.man[n].section) <= SectionRank(r.man[k].section)
  \/ Pages(r, c) = {} /\ \E n \in Said(r, c) : summary = <<"fish", n>>
  \/ ~Documented(r, c) /\ summary = NoSentence

CatalogOf(r, list) ==
  LET kept == {list[n].command : n \in DOMAIN list}
  IN  /\ kept \subseteq Named(r) /\ Cardinality(kept) = Len(list)
      /\ Len(list) = IF MaxCommands \in 1..Cardinality(Named(r))
                     THEN MaxCommands ELSE Cardinality(Named(r))
      /\ \A n \in DOMAIN list :
           /\ Tells(r, list[n].command, list[n].summary)
           /\ list[n].summary = NoSentence =>
                \A c \in Named(r) : Documented(r, c) => c \in kept

\* The catalog a turn reads holds commands of one run of fish, each once and as
\* many as fit, under the sentences one run of the manual has for them, and drops
\* none that has a sentence before one that has none; and it was kept after the
\* turn asked, or less than its lifetime before (build_catalog, cap_entries,
\* CatalogStore::read), however builds, turns and installations overlap.
CommandsRead ==
  \A t \in DOMAIN turns : turns[t].state = "read" =>
    /\ CatalogOf(turns[t].of, turns[t].list)
    /\ turns[t].at >= turns[t].since \/ turns[t].since - turns[t].at < CatalogTtl
=============================================================================
