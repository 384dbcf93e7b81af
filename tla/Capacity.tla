------------------------------ MODULE Capacity ------------------------------
(* What the WebSocket hubs promise: places of a process, of a network and of *)
(* an address.  A connection takes one of each or none, and gives them back  *)
(* together.                                                                 *)
EXTENDS Integers, FiniteSets

CONSTANTS Hubs, Sockets, Addresses, SharedMax, MaxClients, MaxPerIp

VARIABLE held  \* triples of a connection, its network and its address

Init == held = {}

Admit(s, h, a) ==
  /\ \A p \in held : p[1] # s
  /\ Cardinality(held) < SharedMax
  /\ Cardinality({p \in held : p[2] = h}) < MaxClients
  /\ Cardinality({p \in held : p[2] = h /\ p[3] = a}) < MaxPerIp
  /\ held' = held \cup {<<s, h, a>>}

Release == held' \in SUBSET held

Next == \/ \E s \in Sockets, h \in Hubs, a \in Addresses : Admit(s, h, a)
        \/ Release

Spec == Init /\ [][Next]_held
=============================================================================
