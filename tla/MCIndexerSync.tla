--------------------------- MODULE MCIndexerSync ---------------------------
(* Instances of IndexerSync for TLC: two branches that fork above height 1.  *)
EXTENDS IndexerSync, Sequences

CONSTANTS r1, r2, g, a1, a2, a3, b2, b3

Branch(s) == [h \in Heights |-> IF h + 1 <= Len(s) THEN s[h+1] ELSE NULL]

MCPrev == [b \in Blocks |-> CASE b = a1 -> g
                              [] b \in {a2, b2} -> a1
                              [] b = a3 -> a2
                              [] b = b3 -> b2
                              [] OTHER -> NULL]

A(n) == Branch(SubSeq(<<g, a1, a2, a3>>, 1, n))
B(n) == Branch(SubSeq(<<g, a1, b2, b3>>, 1, n))

ForkChains == {A(2), A(3), A(4), B(3), B(4)}
=============================================================================
