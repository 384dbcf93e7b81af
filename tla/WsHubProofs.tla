---------------------------- MODULE WsHubProofs ----------------------------
(* The capacity accounting of WsHub for any number of networks, connections  *)
(* and addresses and any limits, and that it implements Capacity.            *)
EXTENDS WsHub, FiniteSetTheorems, TLAPS

-----------------------------------------------------------------------------
(* Sets of connections.                                                      *)

LEMMA SocketsFinite == \A S \in SUBSET Sockets :
                         IsFiniteSet(S) /\ Cardinality(S) \in Nat
BY HubAssumption, FS_Subset, FS_CardinalityType

\* Taking the part of S away from T lowers its count by that part, and the floor
\* at zero never acts.
LEMMA GiveBack ==
  ASSUME NEW T \in SUBSET Sockets, NEW U \in SUBSET T
  PROVE  Max0(Cardinality(T) - Cardinality(U)) = Cardinality(T \ U)
<1>1. Cardinality(T \ U) = Cardinality(T) - Cardinality(U)
  <2>1. T \cap U = U
    OBVIOUS
  <2> QED BY <2>1, SocketsFinite, FS_Difference
<1>2. Cardinality(T) \in Nat /\ Cardinality(U) \in Nat /\ Cardinality(T \ U) \in Nat
  <2>1. U \in SUBSET Sockets /\ T \ U \in SUBSET Sockets
    OBVIOUS
  <2> QED BY <2>1, SocketsFinite
<1> QED BY <1>1, <1>2 DEF Max0

LEMMA TakePlace ==
  ASSUME NEW T \in SUBSET Sockets, NEW s \in Sockets \ T
  PROVE  Cardinality(T \cup {s}) = Cardinality(T) + 1
BY SocketsFinite, FS_AddElement

\* A place is one triple per connection.
LEMMA OnePlaceEach ==
  ASSUME NEW S \in SUBSET Sockets
  PROVE  Cardinality({<<s, hub[s], ip[s]>> : s \in S}) = Cardinality(S)
<1> DEFINE P == {<<s, hub[s], ip[s]>> : s \in S}
           f == [s \in S |-> <<s, hub[s], ip[s]>>]
<1>1. f \in Bijection(S, P)
  <2>1. f \in [S -> P] /\ \A s, t \in S : f[s] = f[t] => s = t
    OBVIOUS
  <2>2. \A p \in P : \E s \in S : f[s] = p
    OBVIOUS
  <2> QED BY <2>1, <2>2 DEF Bijection, Injection, Surjection, IsInjective
<1>2. ExistsBijection(S, P)
  BY <1>1 DEF ExistsBijection
<1> QED BY <1>2, SocketsFinite, FS_Bijection

-----------------------------------------------------------------------------
(* The steps.                                                                *)

\* CountsExact needs NoGhosts: the name of a new connection must not be held.
IInv == TypeOK /\ NoGhosts /\ CountsExact /\ WithinCapacity

\* Leaving a hub, by whatever event.
LEMMA DropStep ==
  ASSUME IInv, NEW S \in SUBSET Sockets, Drop(S),
         \A s \in Sockets \ S : ip'[s] = ip[s]
  PROVE  /\ CountsExact' /\ WithinCapacity'
         /\ hub' \in [Sockets -> Hubs \cup {None}]
         /\ count' \in Nat /\ perIp' \in [Hubs -> [Addresses -> Nat]]
         /\ held' \in SUBSET held
<1> USE DEF IInv
<1>1. hub' \in [Sockets -> Hubs \cup {None}]
  BY DEF Drop, TypeOK
<1>2. AllClients' = AllClients \ S /\ \A h \in Hubs : Clients(h)' = Clients(h) \ S
  <2>1. \A s \in Sockets : hub'[s] = IF s \in S THEN None ELSE hub[s]
    BY DEF Drop
  <2> QED BY <2>1, HubAssumption DEF AllClients, Clients
<1>3. \A h \in Hubs, a \in Addresses :
        From(Sockets, h, a)' = From(Sockets, h, a) \ From(S, h, a)
  <2>1. \A s \in Sockets : hub'[s] = IF s \in S THEN None ELSE hub[s]
    BY DEF Drop
  <2> QED BY <2>1, HubAssumption DEF From
<1>4. count' = Cardinality(AllClients')
  <2>1. AllClients \in SUBSET Sockets /\ S \cap AllClients \in SUBSET AllClients
    BY DEF AllClients
  <2>2. AllClients \ S = AllClients \ (S \cap AllClients)
    OBVIOUS
  <2> QED BY <1>2, <2>1, <2>2, GiveBack DEF Drop, CountsExact
<1>5. \A h \in Hubs, a \in Addresses :
        perIp'[h][a] = Cardinality(From(Sockets, h, a)')
  <2> TAKE h \in Hubs, a \in Addresses
  <2>1. /\ From(Sockets, h, a) \in SUBSET Sockets
        /\ From(S, h, a) \in SUBSET From(Sockets, h, a)
    BY DEF From
  <2>2. perIp'[h][a] = Max0(perIp[h][a] - Cardinality(From(S, h, a)))
    BY DEF Drop
  <2> QED BY <1>3, <2>1, <2>2, GiveBack DEF CountsExact
<1>6. CountsExact'
  BY <1>4, <1>5 DEF CountsExact
<1>7. count' \in Nat /\ perIp' \in [Hubs -> [Addresses -> Nat]]
  <2>1. count' \in Nat
    BY <1>4, SocketsFinite DEF AllClients
  <2>2. \A h \in Hubs, a \in Addresses : perIp'[h][a] \in Nat
    <3> TAKE h \in Hubs, a \in Addresses
    <3>1. From(Sockets, h, a)' \in SUBSET Sockets
      BY DEF From
    <3> QED BY <1>5, <3>1, SocketsFinite
  <2> QED BY <2>1, <2>2 DEF Drop
<1>8. WithinCapacity'
  <2>1. AllClients' \in SUBSET AllClients /\ AllClients \in SUBSET Sockets
    BY <1>2 DEF AllClients
  <2>2. Cardinality(AllClients') <= SharedMax
    <3>1. Cardinality(AllClients') <= Cardinality(AllClients)
      BY <2>1, SocketsFinite, FS_Subset
    <3>2. Cardinality(AllClients') \in Nat /\ Cardinality(AllClients) \in Nat
      BY <2>1, SocketsFinite
    <3> QED BY <3>1, <3>2, HubAssumption DEF WithinCapacity
  <2>3. \A h \in Hubs : Cardinality(Clients(h)') <= MaxClients
    <3> TAKE h \in Hubs
    <3>1. Clients(h)' \in SUBSET Clients(h) /\ Clients(h) \in SUBSET Sockets
      BY <1>2 DEF Clients
    <3>2. Cardinality(Clients(h)') <= Cardinality(Clients(h))
      BY <3>1, SocketsFinite, FS_Subset
    <3>3. Cardinality(Clients(h)') \in Nat /\ Cardinality(Clients(h)) \in Nat
      BY <3>1, SocketsFinite
    <3> QED BY <3>2, <3>3, HubAssumption DEF WithinCapacity
  <2> QED BY <2>2, <2>3 DEF WithinCapacity
<1>9. held' \in SUBSET held
  <2>1. \A s \in AllClients' : s \in AllClients /\ hub'[s] = hub[s] /\ ip'[s] = ip[s]
    BY <1>2 DEF Drop, AllClients
  <2> QED BY <2>1 DEF held
<1> QED BY <1>1, <1>6, <1>7, <1>8, <1>9

\* A stopping hub drops its clients; clearing perIp changes nothing more.
LEMMA StopDrops ==
  ASSUME IInv, NEW h \in Hubs, Stop(h)
  PROVE  Drop(Clients(h))
<1> USE DEF IInv
<1>1. Clients(h) \cap AllClients = Clients(h)
  BY HubAssumption DEF Clients, AllClients
<1>2. ASSUME NEW g \in Hubs, NEW a \in Addresses
      PROVE  perIp'[g][a] = Max0(perIp[g][a] - Cardinality(From(Clients(h), g, a)))
  <2>1. CASE g = h
    <3>1. From(Clients(h), h, a) = From(Sockets, h, a)
      BY DEF From, Clients
    <3>2. From(Sockets, h, a) \in SUBSET Sockets
      BY DEF From
    <3>3. Max0(perIp[h][a] - Cardinality(From(Sockets, h, a))) = 0
      BY <3>2, SocketsFinite DEF CountsExact, Max0
    <3>4. perIp'[h][a] = 0
      BY DEF Stop, TypeOK
    <3> QED BY <2>1, <3>1, <3>3, <3>4
  <2>2. CASE g # h
    <3>1. From(Clients(h), g, a) = {}
      BY <2>2 DEF From, Clients
    <3>2. Max0(perIp[g][a] - Cardinality({})) = perIp[g][a]
      BY FS_EmptySet DEF TypeOK, Max0
    <3>3. perIp'[g][a] = perIp[g][a]
      BY <2>2 DEF Stop, TypeOK
    <3> QED BY <3>1, <3>2, <3>3
  <2> QED BY <2>1, <2>2
<1>3. perIp' = [g \in Hubs |-> [a \in Addresses |->
                 Max0(perIp[g][a] - Cardinality(From(Clients(h), g, a)))]]
  <2>1. perIp' \in [Hubs -> [Addresses -> Int]]
    BY DEF Stop, TypeOK
  <2> QED BY <1>2, <2>1
<1> QED BY <1>1, <1>3 DEF Stop, Drop

\* An upgrade takes one place of each kind.
LEMMA UpgradeStep ==
  ASSUME IInv, NEW s \in Sockets, NEW h \in Hubs, NEW a \in Addresses, Upgrade(s, h, a)
  PROVE  CountsExact' /\ WithinCapacity' /\ Capacity!Admit(s, h, a)
<1> USE DEF IInv
<1>0. hub[s] = None
  BY DEF Upgrade, NoGhosts
<1>1. AllClients' = AllClients \cup {s} /\ s \notin AllClients
  BY <1>0, HubAssumption DEF Upgrade, AllClients, TypeOK
<1>2. \A g \in Hubs : Clients(g)' = IF g = h THEN Clients(g) \cup {s} ELSE Clients(g)
  BY <1>0, HubAssumption DEF Upgrade, Clients, TypeOK
<1>3. s \notin Clients(h)
  BY <1>0, HubAssumption DEF Clients
<1>4. \A g \in Hubs, b \in Addresses :
        From(Sockets, g, b)' = IF g = h /\ b = a THEN From(Sockets, g, b) \cup {s}
                                                 ELSE From(Sockets, g, b)
  BY <1>0, HubAssumption DEF Upgrade, From, TypeOK
<1>5. s \notin From(Sockets, h, a)
  BY <1>0, HubAssumption DEF From
<1>6. /\ AllClients \in SUBSET Sockets
      /\ \A g \in Hubs : Clients(g) \in SUBSET Sockets
      /\ \A g \in Hubs, b \in Addresses : From(Sockets, g, b) \in SUBSET Sockets
  BY DEF AllClients, Clients, From
<1>7. CountsExact'
  <2>1. count' = Cardinality(AllClients')
    BY <1>1, <1>6, TakePlace DEF Upgrade, CountsExact
  <2>2. ASSUME NEW g \in Hubs, NEW b \in Addresses
        PROVE  perIp'[g][b] = Cardinality(From(Sockets, g, b)')
    <3>1. perIp'[g][b] = IF g = h /\ b = a THEN perIp[g][b] + 1 ELSE perIp[g][b]
      BY DEF Upgrade, TypeOK
    <3> QED BY <3>1, <1>4, <1>5, <1>6, TakePlace DEF CountsExact
  <2> QED BY <2>1, <2>2 DEF CountsExact
<1>8. WithinCapacity'
  <2>1. Cardinality(AllClients') <= SharedMax
    <3>1. Cardinality(AllClients) < SharedMax
      BY DEF Upgrade, HasRoom, CountsExact
    <3>2. Cardinality(AllClients) \in Nat
      BY <1>6, SocketsFinite
    <3> QED BY <1>1, <1>6, <3>1, <3>2, TakePlace, HubAssumption
  <2>2. ASSUME NEW g \in Hubs PROVE Cardinality(Clients(g)') <= MaxClients
    <3>1. Cardinality(Clients(h)) < MaxClients /\ Cardinality(Clients(g)) <= MaxClients
      BY DEF Upgrade, HasRoom, WithinCapacity
    <3>2. Cardinality(Clients(h)) \in Nat
      BY <1>6, SocketsFinite
    <3>3. Cardinality(Clients(h) \cup {s}) = Cardinality(Clients(h)) + 1
      BY <1>3, <1>6, TakePlace
    <3> QED BY <1>2, <3>1, <3>2, <3>3, HubAssumption
  <2> QED BY <2>1, <2>2 DEF WithinCapacity
<1>9. Capacity!Admit(s, h, a)
  <2>1. \A p \in held : p[1] # s
    BY <1>1 DEF held
  <2>2. Cardinality(held) < SharedMax
    BY <1>6, OnePlaceEach DEF held, Upgrade, HasRoom, CountsExact
  <2>3. Cardinality({p \in held : p[2] = h}) < MaxClients
    <3>1. {p \in held : p[2] = h} = {<<t, hub[t], ip[t]>> : t \in Clients(h)}
      BY HubAssumption DEF held, AllClients, Clients
    <3> QED BY <1>6, <3>1, OnePlaceEach DEF Upgrade, HasRoom
  <2>4. Cardinality({p \in held : p[2] = h /\ p[3] = a}) < MaxPerIp
    <3>1. {p \in held : p[2] = h /\ p[3] = a}
            = {<<t, hub[t], ip[t]>> : t \in From(Sockets, h, a)}
      BY HubAssumption DEF held, AllClients, From
    <3> QED BY <1>6, <3>1, OnePlaceEach DEF Upgrade, HasRoom, CountsExact
  <2>5. held' = held \cup {<<s, h, a>>}
    <3>1. hub'[s] = h /\ ip'[s] = a
      BY DEF Upgrade, TypeOK
    <3>2. \A t \in AllClients : hub'[t] = hub[t] /\ ip'[t] = ip[t]
      BY <1>1 DEF Upgrade, TypeOK, AllClients
    <3> QED BY <1>1, <3>1, <3>2 DEF held
  <2>6. \A S : Capacity!Cardinality(S) = Cardinality(S)
    BY DEF Capacity!Cardinality, Cardinality
  <2> QED BY <2>1, <2>2, <2>3, <2>4, <2>5, <2>6 DEF Capacity!Admit
<1> QED BY <1>7, <1>8, <1>9

\* Handlers that drop nobody.
LEMMA HoldStep ==
  ASSUME IInv, UNCHANGED <<hub, count, perIp>>,
         \A s \in Sockets : hub[s] # None => ip'[s] = ip[s]
  PROVE  CountsExact' /\ WithinCapacity' /\ held' = held
<1>1. AllClients' = AllClients /\ \A h \in Hubs : Clients(h)' = Clients(h)
  BY DEF AllClients, Clients
<1>2. \A h \in Hubs, a \in Addresses : From(Sockets, h, a)' = From(Sockets, h, a)
  BY HubAssumption DEF From
<1>3. \A s \in AllClients : hub'[s] = hub[s] /\ ip'[s] = ip[s]
  BY DEF AllClients
<1>4. held' = held
  BY <1>1, <1>3 DEF held
<1> QED BY <1>1, <1>2, <1>4 DEF IInv, CountsExact, WithinCapacity

-----------------------------------------------------------------------------
(* Every step keeps the invariant and is a step of Capacity or none.         *)

LEMMA HubStep ==
  ASSUME IInv, [Next]_vars
  PROVE  IInv' /\ [Capacity!Next]_held
<1> USE DEF IInv
<1>1. ASSUME NEW s \in Sockets, NEW h \in Hubs, NEW a \in Addresses, Upgrade(s, h, a)
      PROVE  IInv' /\ [Capacity!Next]_held
  <2>1. CountsExact' /\ WithinCapacity' /\ Capacity!Admit(s, h, a)
    BY <1>1, UpgradeStep
  <2>2. TypeOK' /\ NoGhosts'
    BY <1>1 DEF Upgrade, TypeOK, NoGhosts
  <2> QED BY <2>1, <2>2 DEF Capacity!Next
<1>2. ASSUME NEW S \in SUBSET Sockets, Drop(S),
             \A s \in Sockets \ S : ip'[s] = ip[s],
             wire' \in [Sockets -> {"none", "open", "half", "ending", "destroyed"}],
             \A s \in Sockets \ S : wire'[s] = "none" => wire[s] = "none",
             buffer' \in [Sockets -> {"room", "tight", "over"}],
             ip' \in [Sockets -> Addresses \cup {None}],
             alive' \in [Sockets -> BOOLEAN],
             stopped' \subseteq Hubs
      PROVE  IInv' /\ [Capacity!Next]_held
  <2>1. /\ CountsExact' /\ WithinCapacity'
        /\ hub' \in [Sockets -> Hubs \cup {None}]
        /\ count' \in Nat /\ perIp' \in [Hubs -> [Addresses -> Nat]]
        /\ held' \in SUBSET held
    BY <1>2, DropStep
  <2>2. TypeOK'
    BY <1>2, <2>1 DEF TypeOK
  <2>3. NoGhosts'
    BY <1>2 DEF NoGhosts, Drop
  <2> QED BY <2>1, <2>2, <2>3 DEF Capacity!Next, Capacity!Release
<1>3. ASSUME NEW s \in Sockets, SocketEnds(s) \/ SocketErrors(s) \/ SocketCloses(s)
                                \/ CloseFrame(s) \/ BadFrame(s)
      PROVE  IInv' /\ [Capacity!Next]_held
  <2>1. Drop({s}) /\ stopped' = stopped
    BY <1>3 DEF SocketEnds, SocketErrors, SocketCloses, CloseFrame, BadFrame
  <2>2. /\ \A t \in Sockets \ {s} : ip'[t] = ip[t] /\ wire'[t] = wire[t]
        /\ buffer' \in [Sockets -> {"room", "tight", "over"}]
        /\ ip' \in [Sockets -> Addresses \cup {None}]
        /\ alive' \in [Sockets -> BOOLEAN]
    BY <1>3 DEF SocketEnds, SocketErrors, SocketCloses, CloseFrame, BadFrame,
                Forget, Destroyed, TypeOK
  <2>3. wire' \in [Sockets -> {"none", "open", "half", "ending", "destroyed"}]
    BY <1>3 DEF SocketEnds, SocketErrors, SocketCloses, CloseFrame, BadFrame,
                Forget, Destroyed, TypeOK
  <2> QED BY <1>2, <2>1, <2>2, <2>3 DEF TypeOK
<1>4. ASSUME NEW h \in Hubs, Pulse(h) \/ Broadcast(h) \/ Stop(h)
      PROVE  IInv' /\ [Capacity!Next]_held
  <2>1. PICK S \in SUBSET Sockets : Drop(S) /\ wire' = Destroyed(S)
    <3>1. CASE Pulse(h)
      BY <3>1 DEF Pulse, Clients
    <3>2. CASE Broadcast(h)
      BY <3>2 DEF Broadcast, Clients
    <3>3. CASE Stop(h)
      <4>1. Clients(h) \in SUBSET Sockets
        BY DEF Clients
      <4> QED BY <3>3, <4>1, StopDrops DEF Stop
    <3> QED BY <1>4, <3>1, <3>2, <3>3
  <2>2. UNCHANGED <<ip, buffer>> /\ stopped' \subseteq Hubs
    BY <1>4 DEF Pulse, Broadcast, Stop, TypeOK
  <2>3. alive' \in [Sockets -> BOOLEAN]
    BY <1>4 DEF Pulse, Broadcast, Stop, TypeOK
  <2>4. /\ wire' \in [Sockets -> {"none", "open", "half", "ending", "destroyed"}]
        /\ \A s \in Sockets \ S : wire'[s] = wire[s]
    BY <2>1 DEF Destroyed, TypeOK
  <2> QED BY <1>2, <2>1, <2>2, <2>3, <2>4 DEF TypeOK
<1>5. ASSUME NEW s \in Sockets, Pong(s) \/ Reset(s) \/ \E b \in {"room", "tight", "over"} : Reads(s, b)
      PROVE  IInv' /\ [Capacity!Next]_held
  <2>1. UNCHANGED <<hub, count, perIp, ip, stopped>>
    BY <1>5 DEF Pong, Reset, Reads
  <2>2. CountsExact' /\ WithinCapacity' /\ held' = held
    BY <2>1, HoldStep
  <2>3. TypeOK'
    BY <1>5 DEF Pong, Reset, Reads, Destroyed, TypeOK
  <2>4. NoGhosts'
    BY <1>5 DEF Pong, Reset, Reads, Destroyed, NoGhosts, TypeOK
  <2> QED BY <2>2, <2>3, <2>4
<1>6. ASSUME UNCHANGED vars
      PROVE  IInv' /\ [Capacity!Next]_held
  <2>1. CountsExact' /\ WithinCapacity' /\ held' = held
    BY <1>6, HoldStep DEF vars
  <2> QED BY <1>6, <2>1 DEF vars, TypeOK, NoGhosts
<1> QED BY <1>1, <1>3, <1>4, <1>5, <1>6 DEF Next

LEMMA HubInit == Init => IInv /\ Capacity!Init
<1> SUFFICES ASSUME Init PROVE IInv /\ Capacity!Init
  OBVIOUS
<1>1. /\ AllClients = {} /\ \A h \in Hubs : Clients(h) = {}
      /\ \A h \in Hubs, a \in Addresses : From(Sockets, h, a) = {}
  BY HubAssumption DEF Init, AllClients, Clients, From
<1>2. CountsExact
  BY <1>1, FS_EmptySet DEF Init, CountsExact
<1>3. WithinCapacity
  BY <1>1, FS_EmptySet, HubAssumption DEF WithinCapacity
<1>4. TypeOK /\ NoGhosts
  BY DEF Init, TypeOK, NoGhosts
<1>5. Capacity!Init
  BY <1>1 DEF Capacity!Init, held
<1> QED BY <1>2, <1>3, <1>4, <1>5 DEF IInv

LEMMA HubInvariant == Spec => []IInv
<1>1. Init => IInv
  BY HubInit
<1>2. IInv /\ [Next]_vars => IInv'
  BY HubStep
<1> QED BY <1>1, <1>2, PTL DEF Spec

-----------------------------------------------------------------------------

\* Every variable of the hubs (constructor, handleUpgrade, _drop, _pulse) keeps
\* its type: in particular no count ever falls below zero.
THEOREM HubTypes == Spec => []TypeOK
<1>1. IInv => TypeOK
  BY DEF IInv
<1> QED BY <1>1, HubInvariant, PTL

\* _drop gives a place back exactly once, whichever handlers race to call it.
THEOREM CountsCorrect == Spec => []CountsExact
<1>1. IInv => CountsExact
  BY DEF IInv
<1> QED BY <1>1, HubInvariant, PTL

\* handleUpgrade never admits a connection beyond the capacity of the process or
\* of its network.
THEOREM CapacityRespected == Spec => []WithinCapacity
<1>1. IInv => WithinCapacity
  BY DEF IInv
<1> QED BY <1>1, HubInvariant, PTL

\* A closed socket is in no hub: handleUpgrade listens to every way out.
THEOREM GhostFree == Spec => []NoGhosts
<1>1. IInv => NoGhosts
  BY DEF IInv
<1> QED BY <1>1, HubInvariant, PTL

\* Counts, capacity and membership together: what KeepsCapacity rests on.
THEOREM HubCorrect == Spec => []HubSound
BY HubTypes, CountsCorrect, GhostFree, CapacityRespected, PTL DEF HubSound

\* handleUpgrade, _drop, _pulse, broadcast and stop implement Capacity: every
\* step takes one place of each kind, gives places back, or does neither.
THEOREM HubImplementsCapacity == Spec => KeepsCapacity
<1>1. Init => Capacity!Init
  BY HubInit
<1>2. IInv /\ [Next]_vars => [Capacity!Next]_held
  BY HubStep
<1> QED BY <1>1, <1>2, HubInvariant, PTL DEF Spec, KeepsCapacity, Capacity!Spec
=============================================================================
