---------------------------- MODULE EventStream -----------------------------
(***************************************************************************)
(* The event bus (event_bus.rs) and the sockets that forward it to the     *)
(* surfaces (server/socket.rs).  The bus keeps the last events for the     *)
(* listeners that have not read them; a listener that falls behind what it *)
(* keeps ends, and so does its socket.                                     *)
(***************************************************************************)
EXTENDS Naturals

CONSTANTS
  Sockets,
  Capacity,      \* how many events the bus keeps
  MaxEvents      \* bound on the events

ASSUME CapacityAssumption == Capacity \in Nat \ {0}

VARIABLES
  published,   \* how many events were published
  socket,      \* "new", "open" or "closed"
  joined,      \* how many were published before the socket subscribed
  cursor,      \* the last event it took from the bus
  forwarded    \* the events it sent

streamVars == <<published, socket, joined, cursor, forwarded>>

StreamInit ==
  /\ published = 0
  /\ socket = [s \in Sockets |-> "new"]
  /\ joined = [s \in Sockets |-> 0] /\ cursor = [s \in Sockets |-> 0]
  /\ forwarded = [s \in Sockets |-> {}]

Publish(n) ==
  /\ published < MaxEvents
  /\ published' = published + n
  /\ UNCHANGED <<socket, joined, cursor, forwarded>>

Subscribe(s) ==
  /\ socket[s] = "new"
  /\ socket' = [socket EXCEPT ![s] = "open"]
  /\ joined' = [joined EXCEPT ![s] = published]
  /\ cursor' = [cursor EXCEPT ![s] = published]
  /\ UNCHANGED <<published, forwarded>>

Lags(s) == published - cursor[s] > Capacity

Forward(s) ==
  /\ socket[s] = "open" /\ cursor[s] < published /\ ~Lags(s)
  /\ cursor' = [cursor EXCEPT ![s] = @ + 1]
  /\ forwarded' = [forwarded EXCEPT ![s] = @ \cup {cursor[s] + 1}]
  /\ UNCHANGED <<published, socket, joined>>

\* Seeded fault: a listener that lags goes on with the oldest event kept.
SkipLost(s) ==
  /\ cursor' = [cursor EXCEPT ![s] = published - Capacity]
  /\ UNCHANGED socket

\* The bus tells a listener that lags that it missed events, which ends the
\* forwarding, and with it the socket.
EndLagging(s) ==
  /\ socket' = [socket EXCEPT ![s] = "closed"]
  /\ UNCHANGED cursor

Lag(s) ==
  /\ socket[s] = "open" /\ Lags(s)
  /\ EndLagging(s)
  /\ UNCHANGED <<published, joined, forwarded>>

\* The client closes the socket or does not take an event any more.
CloseSocket(s) ==
  /\ socket[s] = "open"
  /\ socket' = [socket EXCEPT ![s] = "closed"]
  /\ UNCHANGED <<published, joined, cursor, forwarded>>

StreamNext ==
  \/ Publish(1)
  \/ \E s \in Sockets : Subscribe(s) \/ Forward(s) \/ Lag(s) \/ CloseSocket(s)

StreamSpec == StreamInit /\ [][StreamNext]_streamVars
-----------------------------------------------------------------------------
\* Properties.

StreamTypeOK ==
  /\ published \in Nat
  /\ socket \in [Sockets -> {"new", "open", "closed"}]
  /\ joined \in [Sockets -> Nat] /\ cursor \in [Sockets -> Nat]
  /\ forwarded \in [Sockets -> SUBSET Nat]

\* A surface is shown every event from its subscription up to the last one it
\* is shown: a socket that is too slow closes, and never leaves a gap, so no
\* end of a command is missing between two events it forwards (handle_socket).
StreamContiguous ==
  \A s \in Sockets : forwarded[s] = (joined[s] + 1)..cursor[s]
=============================================================================
