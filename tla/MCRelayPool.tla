---------------------------- MODULE MCRelayPool ----------------------------
EXTENDS RelayPool
CONSTANTS r1, r2, g, a, b, x

\* Two branches over one genesis, their common beginning, and another network.
TheChains == {<<g>>, <<g, a>>, <<g, b>>, <<x, a>>}
\* The relays agree, lag, fork, or are of two networks; which is which is symmetric.
TheStarts == {[r \in Relays |-> IF r = r1 THEN <<g, a>> ELSE c] : c \in TheChains}
=============================================================================
