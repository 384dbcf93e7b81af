--------------------------- MODULE MCObjectIndex ---------------------------
(* A contract is locked, claimed and, on another branch, refunded; a token is *)
(* issued in between.                                                        *)
EXTENDS ObjectIndex

CONSTANTS g0, a1, a2, a3, b2, b3, c3,  \* blocks of three branches, a, b and c
          lock, claim, refund, issue,  \* transactions
          htlc, token

MCHeightOf == [b \in Blocks |-> CASE b = g0 -> 0 [] b = a1 -> 1 [] b \in {a2, b2} -> 2
                                  [] OTHER -> 3]

\* The branches order the claim and the issue differently; b claims and refunds; c
\* locks only when a and b have claimed.
MCTxOf == [b \in Blocks |-> CASE b = a1 -> lock [] b = a2 -> issue [] b = a3 -> claim
                              [] b = b2 -> claim [] b = b3 -> refund [] b = c3 -> lock
                              [] OTHER -> None]

MCObjectOf == [t \in Txs |-> IF t = issue THEN token ELSE htlc]

MCStatusOf == [t \in Txs |-> CASE t = lock -> "locked" [] t = claim -> "claimed"
                               [] t = refund -> "refunded" [] OTHER -> "active"]
=============================================================================
