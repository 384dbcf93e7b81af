---------------------------- MODULE GraphQLRoots ----------------------------
(* Execution of a parsed query (src/src/graphql.js): the root fields one      *)
(* after the other, each of which may fail by itself, within a budget for the *)
(* whole result.  A value is its encoded size.  Some roots read the store as  *)
(* it is.                                                                     *)
EXTENDS ApiReads, Sums

CONSTANTS MaxRoots,  \* MAX_ROOT_FIELDS
          MaxChars,  \* MAX_RESULT_CHARS
          Aliases    \* the names answers are given under

Nothing == 0

\* What is encoded is never empty.
ASSUME RootsAssumption == MaxChars \in Nat /\ \A b \in Blocks : SizeOf[b] # Nothing

-----------------------------------------------------------------------------
(* executeGraphql: a root field has an alias, its value a size, Nothing where *)
(* there is no such field or its resolver throws; the answer at an alias is   *)
(* Nothing where it is null for that reason.                                  *)

Roots == {[name |-> n, height |-> 0] : n \in {"head", "none"}} \cup {[name |-> "block", height |-> h] : h \in {0, MaxHeight - 1}}
Selections == [alias : Aliases, root : Roots]
Stored(h) == IF h \in Held THEN SizeOf[blocks[h]] ELSE 1  \* null is an answer too
schemaRoots(root) ==
  CASE root.name = "head" -> Stored(tip) [] root.name = "block" -> Stored(root.height) [] OTHER -> Nothing

CountedFirst(s, sel) ==  \* mutant: a value that does not fit is counted
  LET size == schemaRoots(sel.root)  fits == size # Nothing /\ s.chars + size <= MaxChars
  IN  [chars |-> s.chars + size,
       data |-> [s.data EXCEPT ![sel.alias] = IF fits THEN size ELSE Nothing],
       errors |-> IF fits THEN s.errors ELSE s.errors + 1]
Resolve(s, sel) ==
  LET size == schemaRoots(sel.root)  fits == size # Nothing /\ s.chars + size <= MaxChars
  IN  [chars |-> IF fits THEN s.chars + size ELSE s.chars,
       data |-> [s.data EXCEPT ![sel.alias] = IF fits THEN size ELSE Nothing],
       errors |-> IF fits THEN s.errors ELSE s.errors + 1]

executeGraphql(sels) ==
  LET start == [chars |-> 0, errors |-> 0, data |-> [a \in {sels[i].alias : i \in DOMAIN sels} |-> Nothing]]
      run[i \in 0..Len(sels)] == IF i = 0 THEN start ELSE Resolve(run[i - 1], sels[i])
  IN  run[Len(sels)]

-----------------------------------------------------------------------------
(* Property, in the states of the store: those where no page is cached or     *)
(* under way stand for all, no root reads the rest.                           *)

quiet == ~ evicting /\ load = None /\ history = <<>> /\ statsCache = None

First(sels, n) == SubSeq(sels, 1, n)
Without(sels, i) == First(sels, i - 1) \o SubSeq(sels, i + 1, Len(sels))

\* A root field that fails or does not fit changes nothing of the others' answers
\* (graphql.test.js, "a throwing resolver is isolated"), and what is sent is within
\* the budget.
FailureIsolated == quiet =>
  \A n \in 1..MaxRoots : \A sels \in [1..n -> Selections] :
    LET all == executeGraphql(sels) IN
    /\ all.chars <= MaxChars /\ SumOf(all.data) <= all.chars
    /\ \A i \in 1..n :
         LET rest == executeGraphql(Without(sels, i))
             refused == executeGraphql(First(sels, i)).errors > executeGraphql(First(sels, i - 1)).errors
         IN  refused => \A a \in DOMAIN rest.data \ {sels[i].alias} : all.data[a] = rest.data[a]
=============================================================================
