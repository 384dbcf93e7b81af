--------------------------- MODULE MCIndexerRest ---------------------------
(* One relay over two branches of one length that fork at genesis. *)
EXTENDS IndexerRest, Sequences

CONSTANTS r1, g, a1, a2, b1, b2

Branch(s) == [h \in Heights |-> IF h + 1 <= Len(s) THEN s[h+1] ELSE NULL]
MCPrev == [b \in Blocks |-> CASE b \in {a1, b1} -> g
                              [] b = a2 -> a1
                              [] b = b2 -> b1
                              [] OTHER -> NULL]
BranchA == Branch(<<g, a1, a2>>)
TwoChains == {BranchA, Branch(<<g, b1, b2>>)}

\* The branches differ in nothing but their names: the relay starts on the first.
MCInit == Init /\ RestInit /\ chain = [r \in Relays |-> BranchA]
MCRestSpec == MCInit /\ [][RestNext]_allVars /\ RestFairness
=============================================================================
