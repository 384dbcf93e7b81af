-------------------------------- MODULE Sums --------------------------------
(* The sum of a function into the naturals, as the number of its units: a    *)
(* form of SumFunction that the facts about finite sets apply to.            *)
EXTENDS Integers, FiniteSets

Units(f) == UNION {{x} \X (1..f[x]) : x \in DOMAIN f}
SumOf(f) == Cardinality(Units(f))
=============================================================================
