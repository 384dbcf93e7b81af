------------------------------ MODULE MCWsHub ------------------------------
(* Two hubs under one shared capacity, three connections from one address.   *)
EXTENDS WsHub

CONSTANTS h1, h2, s1, s2, s3, a1
=============================================================================
