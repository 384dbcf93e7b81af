----------------------------- MODULE MCApiKeys -----------------------------
EXTENDS ApiKeys, TLC

\* A lost change or a swapped reload excuses every property for good.
Unspoilt == ~lost /\ ~swapped
Symmetric == Permutations(Ids) \cup Permutations(Runs)
=============================================================================
