----------------------------- MODULE MCApiReads -----------------------------
(* Six blocks of several sizes, some empty, in a store of three; c3 rivals  *)
(* b3.  Timestamps run backwards once; b1 predates the recorded signal word.  *)
EXTENDS GraphQL

CONSTANTS b0, b1, b2, b3, b4, c3,
          t0, t1, t3, t4, alice, bob, miner, pool, nobody

Order == <<b0, b1, b2, b3, b4>>
Place(b) == IF b = c3 THEN 3 ELSE (CHOOSE i \in DOMAIN Order : Order[i] = b) - 1

MCHeightOf == [b \in Blocks |-> Place(b)]
MCSizeOf == [b \in Blocks |-> IF b = b3 THEN 5 ELSE 1]
MCProposerOf == [b \in Blocks |-> IF b = b0 THEN nobody ELSE IF b \in {b2, b3} THEN miner ELSE pool]
MCTxOf == [b \in Blocks |-> CASE b = b0 -> t0 [] b = b1 -> t1 [] b = b3 -> t3
                              [] b = b4 -> t4 [] OTHER -> None]
MCAccountsOf == [t \in Txs |-> CASE t \in {t0, t3} -> {alice} [] t = t4 -> {bob}
                                 [] OTHER -> {alice, bob}]
MCTimeOf == [b \in Blocks |-> IF b = b2 THEN 4 ELSE 5 * Place(b)]
MCBitsOf == [b \in Blocks |-> IF b = b1 THEN None ELSE IF b = b4 THEN {} ELSE {1}]
MCChains == {{b0, b1, b2, b3, b4}, {b0, b1, b2, c3}}

\* All strings of up to six tokens; queries beside and beyond the limits.
MCInputs == UNION {[1..n -> Tokens] : n \in 0..6}
Forms == {<<"name">>, <<"query", ":", "name">>, <<"name", "(", "name", ":", "value", ")">>}
Under(S) == {[words |-> w, sub |-> s] : w \in Forms, s \in {Leaf} \cup S}
Flat(F) == UNION {[1..n -> F] : n \in 0..2}
Chain == {<<f>> : f \in Under({<<f>> : f \in Under({<<>>, <<[words |-> <<"name">>, sub |-> Leaf]>>})})}
MCQueries == Flat(Under(Flat(Under({})))) \cup Chain
               \cup {[i \in 1..n |-> [words |-> <<"name">>, sub |-> Leaf]] : n \in 0..(MaxSelections + 1)}
=============================================================================
