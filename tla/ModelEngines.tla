---------------------------- MODULE ModelEngines ----------------------------
(***************************************************************************)
(* The engines that run the built in models: the models they keep loaded,  *)
(* and the device each one runs on.  LocalEngine (resolver/local/          *)
(* encoder.rs) keeps the newest models that read texts; LayaEngine         *)
(* (resolver/local/laya.rs) keeps decision models apart from them, with a  *)
(* bound of its own.                                                       *)
(* GlinerEngine (resolver/gliner/engine.rs) keeps one, which it reads with *)
(* its lock held.                                                          *)
(*                                                                         *)
(* A read first looks the model up on disk and then takes the lock of the  *)
(* engine, which it holds while it loads, so what happens under the lock   *)
(* is one step.  Files and devices come and go between the two.            *)
(***************************************************************************)
EXTENDS Naturals, Sequences, SequencesExt

CONSTANTS
  Reads,     \* the reads under way at a time
  Specs,       \* the built in models
  RoleOf,      \* what each of them is for
  Carried,     \* the accelerated devices the build carries
  Preferred,   \* bound: the devices the settings may name
  Changing,    \* bound: the models whose files come and go
  MaxLoaded,   \* how many models an engine keeps
  NoModel

Roles == {"embedding", "reranker", "decision", "span"}
Keepers == {"local", "laya"}
Keeper(role) == IF role = "decision" THEN "laya" ELSE "local"
Preferences == Preferred \cap {"auto", "cpu", "cuda", "gpu"}
Devices == {"cuda", "gpu", "cpu"}
Loads == [model : Specs, device : Devices]
Sessions == [model : Specs, device : Devices, requested : Devices]
Wishes == [model : Specs, role : Roles, on : Preferences]

ASSUME EnginesAssumption ==
  /\ RoleOf \in [Specs -> Roles] /\ Carried \subseteq {"cuda", "gpu"} /\ Changing \subseteq Specs
  /\ MaxLoaded \in [Keepers -> Nat \ {0}]
  /\ NoModel \notin Loads \cup Sessions \cup Wishes

VARIABLES
  usable,     \* the accelerated devices the runtime can use now
  onDisk,     \* the models whose files are there
  loaded,     \* the models each of the two engines keeps, the oldest first
  session,    \* the model the span engine keeps, or NoModel
  readStep,    \* each read: "idle", "found" on disk, or "runs"
  wish,       \* the model, the role and the device it asked for
  given       \* the model and the device it was given

engineVars == <<usable, onDisk, loaded, session, readStep, wish, given>>

EnginesInit ==
  /\ usable \in SUBSET Carried
  /\ onDisk \in {Specs \ missing : missing \in SUBSET Changing}
  /\ loaded = [k \in Keepers |-> <<>>] /\ session = NoModel
  /\ readStep = [r \in Reads |-> "idle"]
  /\ wish = [r \in Reads |-> NoModel] /\ given = [r \in Reads |-> NoModel]

On(m, d) == [model |-> m, device |-> d]

\* The best device is tried first, and `cuda` may mean any accelerated one.  A
\* wish for a device that cannot work has none.
BestDevice == IF "cuda" \in usable THEN "cuda" ELSE "gpu"
ActiveDevice(on) ==
  CASE on = "cpu" -> {"cpu"}
    [] on = "auto" -> {IF usable = {} THEN "cpu" ELSE BestDevice}
    [] on \in {"cuda", "gpu"} -> IF usable = {} THEN {} ELSE {BestDevice}

\* A stage never loads a model that answers another question.
Look(r) ==
  /\ readStep[r] = "idle"
  /\ \E m \in onDisk, on \in Preferences :
       wish' = [wish EXCEPT ![r] = [model |-> m, role |-> RoleOf[m], on |-> on]]
  /\ readStep' = [readStep EXCEPT ![r] = "found"]
  /\ UNCHANGED <<usable, onDisk, loaded, session, given>>

Run(r, load) ==
  /\ given' = [given EXCEPT ![r] = load]
  /\ readStep' = [readStep EXCEPT ![r] = "runs"]

\* A read that fails, or that its caller answers no more.
Let(r) ==
  /\ readStep' = [readStep EXCEPT ![r] = "idle"]
  /\ wish' = [wish EXCEPT ![r] = NoModel]
  /\ given' = [given EXCEPT ![r] = NoModel]

\* Seeded fault: a model that is loaded answers for any device.
FoundAnywhere(k, m, d) == {n \in DOMAIN loaded[k] : loaded[k][n].model = m}

Found(k, m, d) == {n \in DOMAIN loaded[k] : loaded[k][n] = On(m, d)}

\* The oldest model makes room before the new one is loaded.
Room(k) == IF Len(loaded[k]) >= MaxLoaded[k] THEN Tail(loaded[k]) ELSE loaded[k]
Load(k, m, d) == loaded' = [loaded EXCEPT ![k] = Append(Room(k), On(m, d))]

\* The model is taken from memory or loaded; it may have been removed, or fail.
TakeReader(r) ==
  LET m == wish[r].model
      k == Keeper(wish[r].role)
  IN
  /\ readStep[r] = "found" /\ wish[r].role # "span"
  /\ \/ \E d \in ActiveDevice(wish[r].on) :
          \/ \E n \in Found(k, m, d) :
               Run(r, loaded[k][n]) /\ UNCHANGED <<loaded, wish>>
          \/ /\ Found(k, m, d) = {} /\ m \in onDisk
             /\ Load(k, m, d) /\ Run(r, On(m, d)) /\ UNCHANGED wish
          \/ /\ Found(k, m, d) = {}
             /\ loaded' = [loaded EXCEPT ![k] = Room(k)] /\ Let(r)
     \/ ActiveDevice(wish[r].on) = {} /\ Let(r) /\ UNCHANGED loaded
  /\ UNCHANGED <<usable, onDisk, session>>

Current(m, d) == session # NoModel /\ session.model = m /\ session.requested = d

\* An accelerated device that answers nothing to a text it must read gives way
\* to the processor, which then answers for the device that was asked for.
LoadWorking(m, d) == [model : {m}, requested : {d}, device : {d, "cpu"}]

Infer(r) ==
  LET m == wish[r].model IN
  /\ readStep[r] = "found" /\ wish[r].role = "span"
  /\ \/ \E d \in ActiveDevice(wish[r].on) :
          \/ Current(m, d) /\ UNCHANGED session /\ Run(r, session) /\ UNCHANGED wish
          \/ /\ ~Current(m, d) /\ m \in onDisk
             /\ \E fresh \in LoadWorking(m, d) : session' = fresh /\ Run(r, fresh)
             /\ UNCHANGED wish
          \/ ~Current(m, d) /\ Let(r) /\ UNCHANGED session
     \/ ActiveDevice(wish[r].on) = {} /\ Let(r) /\ UNCHANGED session
  /\ UNCHANGED <<usable, onDisk, loaded>>

EndRead(r) ==
  /\ readStep[r] = "runs"
  /\ Let(r)
  /\ UNCHANGED <<usable, onDisk, loaded, session>>

\* The machine and the store.
ChangeDevices ==
  /\ usable' \in SUBSET Carried
  /\ UNCHANGED <<onDisk, loaded, session, readStep, wish, given>>
ChangeFiles ==
  /\ \E m \in Changing : onDisk' \in {onDisk \cup {m}, onDisk \ {m}}
  /\ UNCHANGED <<usable, loaded, session, readStep, wish, given>>

EnginesNext ==
  \/ \E r \in Reads : Look(r) \/ TakeReader(r) \/ Infer(r) \/ EndRead(r)
  \/ ChangeDevices \/ ChangeFiles

EnginesSpec == EnginesInit /\ [][EnginesNext]_engineVars
-----------------------------------------------------------------------------
\* Properties.

\* A read is answered by the model it asked for, and by a device it asked for:
\* one that asked for the processor never waits for a card, and one that asked
\* for a card is never answered by the processor in silence, whatever other
\* reads loaded meanwhile.  A span model that had to move is the exception
\* (active_device, load_working).  No engine loads a model twice for one device,
\* or one of the other engine.
ReadsAsAsked ==
  /\ \A r \in Reads : readStep[r] = "runs" =>
       /\ given[r].model = wish[r].model
       /\ wish[r].on = "cpu" => given[r].device = "cpu"
       /\ wish[r].on \in {"cuda", "gpu"} /\ wish[r].role # "span" =>
            given[r].device # "cpu"
  /\ \A k \in Keepers :
       /\ IsInjective(loaded[k])
       /\ \A load \in ToSet(loaded[k]) : Keeper(RoleOf[load.model]) = k
=============================================================================
