--------------------------- MODULE MCServeReplica ---------------------------
(* Two branches of four blocks that part above height 1; t2 is in both, at    *)
(* different heights.                                                         *)
EXTENDS ServeReplica

CONSTANTS a0, a1, a2, a3, b2, b3, t0, t2, t3, alice, miner, pool

MCParentOf == [b \in Blocks |-> CASE b = a1 -> a0 [] b \in {a2, b2} -> a1
                                  [] b = a3 -> a2 [] b = b3 -> b2 [] OTHER -> None]
MCHeightOf == [b \in Blocks |-> CASE b = a0 -> 0 [] b = a1 -> 1
                                  [] b \in {a2, b2} -> 2 [] OTHER -> 3]
MCSizeOf == [b \in Blocks |-> IF b = a3 THEN 3 ELSE 1]
MCProposerOf == [b \in Blocks |-> IF b \in {a2, b2} THEN pool ELSE miner]
MCTxOf == [b \in Blocks |-> CASE b = a0 -> t0 [] b \in {a2, b3} -> t2
                              [] b = a3 -> t3 [] OTHER -> None]
MCNoTx == [b \in Blocks |-> None]
MCAccountsOf == [t \in Txs |-> {alice}]
=============================================================================
