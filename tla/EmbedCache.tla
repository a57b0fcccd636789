----------------------------- MODULE EmbedCache -----------------------------
(***************************************************************************)
(* The vectors of texts (resolver/router/embed.rs): a turn asks one place  *)
(* for the vectors of many texts, and takes from the shared cache what any *)
(* turn has read before.  The lock of the cache is taken for one text at a *)
(* time, and the cache forgets everything when it is full, so it may lose  *)
(* or gain entries between any two steps of a turn.                        *)
(*                                                                         *)
(* A place is a model server or the built in engine with one of its        *)
(* models.  A vector is the text it stands for and the place that read it. *)
(***************************************************************************)
EXTENDS Naturals, Sequences, FiniteSets

CONSTANTS
  Turns,        \* the turns that ask at a time
  Texts,
  Places,
  LabelOf,      \* the name of a place in the cache
  MaxTexts,     \* bound on the texts of one call
  MaxEntries,
  NoVector

Vectors == [text : Texts, by : Places]
Entry(label, v) == [label |-> label, vector |-> v]

ASSUME EmbedAssumption ==
  /\ MaxEntries \in Nat \ {0} /\ MaxTexts \in Nat /\ DOMAIN LabelOf = Places
  /\ NoVector \notin Vectors

VARIABLES
  entries,    \* what the cache keeps
  asking,     \* each turn: "idle", "look up", "read", "keep" or "given"
  place,      \* the place it asks
  texts,      \* the texts it asks for
  found,      \* the vector of each text so far, or NoVector
  fresh       \* the vectors it has read and not yet kept

embedVars == <<entries, asking, place, texts, found, fresh>>

\* The place of a turn that asks none: any one stands for it.
NoPlace == CHOOSE p \in Places : TRUE

EmbedInit ==
  /\ entries = {}
  /\ asking = [t \in Turns |-> "idle"]
  /\ place = [t \in Turns |-> NoPlace]
  /\ texts = [t \in Turns |-> <<>>] /\ found = [t \in Turns |-> <<>>]
  /\ fresh = [t \in Turns |-> {}]

Key(p) == LabelOf[p]

Held(p, text) == {e.vector : e \in {x \in entries : x.label = Key(p) /\ x.vector.text = text}}

AskVectors(t) ==
  /\ asking[t] = "idle"
  /\ \E n \in 1..MaxTexts : \E asked \in [1..n -> Texts] : texts' = [texts EXCEPT ![t] = asked]
  /\ \E p \in Places : place' = [place EXCEPT ![t] = p]
  /\ found' = [found EXCEPT ![t] = <<>>]
  /\ asking' = [asking EXCEPT ![t] = "look up"]
  /\ UNCHANGED <<entries, fresh>>

LookUp(t) ==
  /\ asking[t] = "look up" /\ Len(found[t]) < Len(texts[t])
  /\ LET held == Held(place[t], texts[t][Len(found[t]) + 1])
     IN  found' = [found EXCEPT ![t] =
                     Append(@, IF held = {} THEN NoVector ELSE CHOOSE v \in held : TRUE)]
  /\ UNCHANGED <<entries, asking, place, texts, fresh>>

Wanted(t) == {texts[t][n] : n \in {m \in DOMAIN found[t] : found[t][m] = NoVector}}

End(t) ==
  /\ asking' = [asking EXCEPT ![t] = "idle"] /\ place' = [place EXCEPT ![t] = NoPlace]
  /\ fresh' = [fresh EXCEPT ![t] = {}]
  /\ texts' = [texts EXCEPT ![t] = <<>>] /\ found' = [found EXCEPT ![t] = <<>>]
  /\ UNCHANGED entries

\* What the cache did not hold is read in one request.  A reply that does not
\* carry one vector for each of its texts is refused, and ends the call.
ReadVectors(t) ==
  /\ asking[t] = "look up" /\ Len(found[t]) = Len(texts[t])
  /\ asking' = [asking EXCEPT ![t] = IF Wanted(t) = {} THEN "given" ELSE "keep"]
  /\ fresh' = [fresh EXCEPT ![t] = [text : Wanted(t), by : {place[t]}]]
  /\ UNCHANGED <<entries, place, texts, found>>

Refused(t) ==
  /\ asking[t] = "look up" /\ Wanted(t) # {}
  /\ End(t)

\* A full cache forgets everything before it keeps another vector.
Roomy == IF Cardinality(entries) >= MaxEntries THEN {} ELSE entries
Put(label, v) ==
  entries' = {e \in Roomy : e.label # label \/ e.vector.text # v.text} \cup {Entry(label, v)}

\* Seeded fault: the vectors that were read are taken out of the cache.
FillFromCache(t, v) ==
  [n \in DOMAIN found[t] |->
     IF found[t][n] = NoVector /\ Held(place[t], texts[t][n]) # {}
     THEN CHOOSE w \in Held(place[t], texts[t][n]) : TRUE ELSE found[t][n]]

\* A vector that was read stands for each of its texts of the call.
FillVectors(t, v) ==
  [n \in DOMAIN found[t] |->
     IF found[t][n] = NoVector /\ texts[t][n] = v.text THEN v ELSE found[t][n]]

Keep(t) ==
  /\ asking[t] = "keep"
  /\ \E v \in fresh[t] :
       /\ Put(Key(place[t]), v)
       /\ found' = [found EXCEPT ![t] = FillVectors(t, v)]
       /\ fresh' = [fresh EXCEPT ![t] = @ \ {v}]
       /\ asking' = [asking EXCEPT ![t] = IF fresh[t] = {v} THEN "given" ELSE "keep"]
  /\ UNCHANGED <<place, texts>>

\* The turn has used its vectors, or its client went away.
LetVectorsGo(t) ==
  /\ asking[t] # "idle"
  /\ End(t)

EmbedNext ==
  \E t \in Turns :
    AskVectors(t) \/ LookUp(t) \/ ReadVectors(t) \/ Refused(t) \/ Keep(t) \/ LetVectorsGo(t)

EmbedSpec == EmbedInit /\ [][EmbedNext]_embedVars
-----------------------------------------------------------------------------
\* Properties.

\* A turn that is given vectors is given one for each of its texts, the vector
\* of that text and of the model it asked, although the cache may forget all of
\* them between its look at the cache and the last one it keeps (vectors).
VectorsWhole ==
  \A t \in Turns : asking[t] = "given" =>
    /\ Len(found[t]) = Len(texts[t])
    /\ \A n \in DOMAIN texts[t] :
         /\ found[t][n] # NoVector
         /\ found[t][n].text = texts[t][n]
         /\ LabelOf[found[t][n].by] = LabelOf[place[t]]
=============================================================================
