------------------------------- MODULE WsHub -------------------------------
(* The WebSocket hubs of one process (src/src/ws.js), one per network, under *)
(* one shared capacity (src/src/server.js).  A connection leaves its hub by  *)
(* any of its socket's events, by a close frame, by the heartbeat, by a      *)
(* broadcast it cannot take or when the hub stops, often by several of them. *)
(* Every handler runs to its end between two events; destroying a socket     *)
(* only schedules its close event.                                           *)
EXTENDS Integers, FiniteSets

CONSTANTS Hubs,        \* one hub per network
          Sockets,     \* connections that may be open at the same time (bound)
          Addresses,   \* client addresses
          None,        \* no hub, no address
          SharedMax,   \* WS_MAX_CLIENTS, over all hubs
          MaxClients,  \* WS_MAX_CLIENTS_PER_NETWORK
          MaxPerIp     \* WS_MAX_PER_IP

ASSUME HubAssumption ==
  /\ IsFiniteSet(Sockets)
  /\ None \notin Hubs /\ None \notin Addresses
  /\ SharedMax \in Nat /\ MaxClients \in Nat /\ MaxPerIp \in Nat

VARIABLES
  wire,    \* "none", "open", "half" (the peer has ended), "ending" (we have) or "destroyed"
  buffer,  \* its writableLength: "room", "tight" (no frame fits) or "over" the limit
  ip,      \* sovIp
  hub,     \* the hub whose clients hold the socket, or None
  alive,   \* sovAlive
  perIp,   \* per hub and address, 0 when absent
  count,   \* sharedCapacity.count
  stopped  \* hubs whose stop() ran

vars == <<wire, buffer, ip, hub, alive, perIp, count, stopped>>

Clients(h) == {s \in Sockets : hub[s] = h}
AllClients == {s \in Sockets : hub[s] # None}
From(S, h, a) == {s \in S : hub[s] = h /\ ip[s] = a}

Max0(n) == IF n < 0 THEN 0 ELSE n

Init ==
  /\ wire = [s \in Sockets |-> "none"]
  /\ buffer = [s \in Sockets |-> "room"]
  /\ ip = [s \in Sockets |-> None]
  /\ hub = [s \in Sockets |-> None]
  /\ alive = [s \in Sockets |-> FALSE]
  /\ perIp = [h \in Hubs |-> [a \in Addresses |-> 0]]
  /\ count = 0
  /\ stopped = {}

-----------------------------------------------------------------------------
(* The hub.                                                                  *)

SharedRoomAtMost(h, a) ==  \* mutant: off by one at the shared capacity
  /\ Cardinality(Clients(h)) < MaxClients
  /\ count <= SharedMax
  /\ perIp[h][a] < MaxPerIp
\* handleUpgrade of a new connection s from address a that every check admits;
\* a refused connection leaves no trace.
HasRoom(h, a) == /\ Cardinality(Clients(h)) < MaxClients
                 /\ count < SharedMax
                 /\ perIp[h][a] < MaxPerIp

Upgrade(s, h, a) ==
  /\ wire[s] = "none"
  /\ HasRoom(h, a)
  /\ wire' = [wire EXCEPT ![s] = "open"]
  /\ buffer' = [buffer EXCEPT ![s] = "room"]
  /\ ip' = [ip EXCEPT ![s] = a]
  /\ hub' = [hub EXCEPT ![s] = h]
  /\ alive' = [alive EXCEPT ![s] = TRUE]
  /\ perIp' = [perIp EXCEPT ![h][a] = @ + 1]
  /\ count' = count + 1
  /\ UNCHANGED stopped

\* _drop of the sockets S, each only while it is a client.
DropBlind(S) ==  \* mutant: neither the guard nor the floor
  /\ hub' = [s \in Sockets |-> IF s \in S THEN None ELSE hub[s]]
  /\ count' = count - Cardinality(S)
  /\ perIp' = [h \in Hubs |-> [a \in Addresses |->
                 perIp[h][a] - Cardinality(From(S, h, a))]]
DropTwice(S) ==  \* mutant: the counts are given back at every event
  /\ hub' = [s \in Sockets |-> IF s \in S THEN None ELSE hub[s]]
  /\ count' = Max0(count - Cardinality(S))
  /\ perIp' = [h \in Hubs |-> [a \in Addresses |->
                 Max0(perIp[h][a] - Cardinality(From(S, h, a)))]]
DropKeepsIp(S) ==  \* mutant: the count of the address is not given back
  /\ hub' = [s \in Sockets |-> IF s \in S THEN None ELSE hub[s]]
  /\ count' = Max0(count - Cardinality(S \cap AllClients))
  /\ perIp' = perIp
Drop(S) ==
  /\ hub' = [s \in Sockets |-> IF s \in S THEN None ELSE hub[s]]
  /\ count' = Max0(count - Cardinality(S \cap AllClients))
  /\ perIp' = [h \in Hubs |-> [a \in Addresses |->
                 Max0(perIp[h][a] - Cardinality(From(S, h, a)))]]

Destroyed(S) == [s \in Sockets |-> IF s \in S THEN "destroyed" ELSE wire[s]]

\* The listeners of end, error and close.  After close nothing refers to the
\* socket: its name stands for a later connection.
SocketEnds(s) ==
  /\ wire[s] \in {"open", "ending"}
  /\ Drop({s})
  /\ wire' = [wire EXCEPT ![s] = IF @ = "open" THEN "half" ELSE "destroyed"]
  /\ UNCHANGED <<buffer, ip, alive, stopped>>
SocketErrors(s) ==
  /\ wire[s] = "destroyed"
  /\ Drop({s})
  /\ UNCHANGED <<wire, buffer, ip, alive, stopped>>
Forget(s) ==
  /\ wire' = [wire EXCEPT ![s] = "none"]
  /\ buffer' = [buffer EXCEPT ![s] = "room"]
  /\ ip' = [ip EXCEPT ![s] = None]
  /\ alive' = [alive EXCEPT ![s] = FALSE]
NoCloseListener(s) ==  \* mutant: only end and error are listened to
  /\ wire[s] = "destroyed"
  /\ Forget(s)
  /\ UNCHANGED <<hub, perIp, count, stopped>>
SocketCloses(s) ==
  /\ wire[s] = "destroyed"
  /\ Drop({s})
  /\ Forget(s)
  /\ UNCHANGED stopped

\* _onData.  A socket that has left its hub may still deliver frames.
Pong(s) ==
  /\ wire[s] \in {"open", "ending"}
  /\ alive' = [alive EXCEPT ![s] = TRUE]
  /\ UNCHANGED <<wire, buffer, ip, hub, perIp, count, stopped>>
CloseFrame(s) ==
  /\ wire[s] \in {"open", "ending"}
  /\ Drop({s})
  /\ wire' = [wire EXCEPT ![s] = IF @ = "open" THEN "ending" ELSE "destroyed"]
  /\ UNCHANGED <<buffer, ip, alive, stopped>>
BadFrame(s) ==
  /\ wire[s] \in {"open", "ending"}
  /\ Drop({s})
  /\ wire' = Destroyed({s})
  /\ UNCHANGED <<buffer, ip, alive, stopped>>

\* _pulse: silent, unwritable and overfull clients go, the others are asked.
SilenceForgiven(s) == wire[s] # "open" \/ buffer[s] = "over"  \* mutant: sovAlive unread
Unresponsive(s) == wire[s] # "open" \/ ~alive[s] \/ buffer[s] = "over"
Pulse(h) ==
  /\ h \notin stopped
  /\ LET S == {s \in Clients(h) : Unresponsive(s)} IN
       /\ Drop(S)
       /\ wire' = Destroyed(S)
       /\ alive' = [s \in Sockets |-> IF s \in Clients(h) \ S THEN FALSE ELSE alive[s]]
  /\ UNCHANGED <<buffer, ip, stopped>>

\* broadcast: clients that cannot take the frame go.
Broadcast(h) ==
  /\ LET S == {s \in Clients(h) : wire[s] # "open" \/ buffer[s] # "room"} IN
       /\ Drop(S)
       /\ wire' = Destroyed(S)
  /\ UNCHANGED <<buffer, ip, alive, stopped>>

\* stop: the process is shutting down.
Stop(h) ==
  /\ h \notin stopped
  /\ stopped' = stopped \cup {h}
  /\ hub' = [s \in Sockets |-> IF s \in Clients(h) THEN None ELSE hub[s]]
  /\ count' = Max0(count - Cardinality(Clients(h)))
  /\ perIp' = [perIp EXCEPT ![h] = [a \in Addresses |-> 0]]
  /\ wire' = Destroyed(Clients(h))
  /\ UNCHANGED <<buffer, ip, alive>>

-----------------------------------------------------------------------------
(* The other end of the wire.                                                *)

\* The peer resets the connection: the runtime destroys the socket.
Reset(s) ==
  /\ wire[s] \in {"open", "half", "ending"}
  /\ wire' = Destroyed({s})
  /\ UNCHANGED <<buffer, ip, hub, alive, perIp, count, stopped>>

\* The peer reads, or stops reading.
Reads(s, b) ==
  /\ wire[s] = "open"
  /\ b # buffer[s]
  /\ buffer' = [buffer EXCEPT ![s] = b]
  /\ UNCHANGED <<wire, ip, hub, alive, perIp, count, stopped>>

Next ==
  \/ \E s \in Sockets, h \in Hubs, a \in Addresses : Upgrade(s, h, a)
  \/ \E s \in Sockets : \/ SocketEnds(s) \/ SocketErrors(s) \/ SocketCloses(s)
                        \/ Pong(s) \/ CloseFrame(s) \/ BadFrame(s) \/ Reset(s)
  \/ \E s \in Sockets, b \in {"room", "tight", "over"} : Reads(s, b)
  \/ \E h \in Hubs : Pulse(h) \/ Broadcast(h) \/ Stop(h)

Spec == Init /\ [][Next]_vars

\* The heartbeat interval fires until the hub stops.
FairSpec == Spec /\ \A h \in Hubs : WF_vars(Pulse(h))

-----------------------------------------------------------------------------
(* Properties.                                                               *)

\* Every variable has its type.
TypeOK ==
  /\ wire \in [Sockets -> {"none", "open", "half", "ending", "destroyed"}]
  /\ buffer \in [Sockets -> {"room", "tight", "over"}]
  /\ ip \in [Sockets -> Addresses \cup {None}]
  /\ hub \in [Sockets -> Hubs \cup {None}]
  /\ alive \in [Sockets -> BOOLEAN]
  /\ perIp \in [Hubs -> [Addresses -> Nat]]
  /\ count \in Nat
  /\ stopped \subseteq Hubs

\* Whichever of its events drops a connection, and however many of them do, it
\* gives back its place exactly once: the shared count and the count of every
\* address are those of the clients the hubs hold.
CountsExact ==
  /\ count = Cardinality(AllClients)
  /\ \A h \in Hubs, a \in Addresses : perIp[h][a] = Cardinality(From(Sockets, h, a))

\* The connections held together never exceed the capacity of the process.
WithinCapacity ==
  /\ Cardinality(AllClients) <= SharedMax
  /\ \A h \in Hubs : Cardinality(Clients(h)) <= MaxClients

\* No hub keeps a connection whose socket is gone.
NoGhosts == \A s \in Sockets : wire[s] = "none" => hub[s] = None

\* Together: whatever order the events of a connection come in, the hubs count what
\* they hold, hold only live sockets, and never too many.
HubSound == TypeOK /\ CountsExact /\ NoGhosts /\ WithinCapacity

\* The hubs keep the promise of Capacity: a place is taken only while the process,
\* the network and the address all have one, and is given back once.
held == {<<s, hub[s], ip[s]>> : s \in AllClients}
Capacity == INSTANCE Capacity WITH held <- held, Hubs <- Hubs, Sockets <- Sockets,
  Addresses <- Addresses, SharedMax <- SharedMax, MaxClients <- MaxClients, MaxPerIp <- MaxPerIp
KeepsCapacity == Capacity!Spec

\* A client that stays silent is reaped: while its hub runs it cannot remain
\* unanswered for ever.
SilentReaped ==
  \A h \in Hubs, s \in Sockets : []<>(h \in stopped \/ hub[s] # h \/ alive[s])
=============================================================================
