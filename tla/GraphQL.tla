------------------------------- MODULE GraphQL -------------------------------
(* The parser of src/src/graphql.js: recursive descent with limits.  A token  *)
(* is its type; strings and numbers are one type, "value", and the square     *)
(* brackets, which the parser reads nowhere, are left out.                    *)
EXTENDS GraphQLRoots

CONSTANTS MaxDepth, MaxSelections,  \* limits of a query, besides MaxRoots
          Levels,                   \* nesting of the queries examined (bound)
          Inputs,                   \* the token strings examined (bound)
          Queries                   \* the queries examined, as trees (bound)

Tokens == {"query", "name", "value", "{", "}", "(", ")", ":"}
Names == {"query", "name"}
Values == Names \cup {"value"}
Fail == [at |-> 0]
Leaf == <<[words |-> <<>>, sub |-> <<>>]>>  \* no selection set

peek(toks, p) == IF p \in DOMAIN toks THEN toks[p] ELSE "EOF"

-----------------------------------------------------------------------------
(* parse: every operator takes the position it reads from and gives the one   *)
(* it stops at, 0 where the code throws.                                      *)

parseArgs(toks, p) ==
  LET from[i \in 1..(Len(toks) + 1)] ==
        IF peek(toks, i) = ")" THEN i + 1
        ELSE IF peek(toks, i) \in Names /\ peek(toks, i + 1) = ":" /\ peek(toks, i + 2) \in Values
             THEN from[i + 3] ELSE 0
  IN  IF peek(toks, p) = "(" THEN from[p + 1] ELSE p

\* name, or alias : name, with its arguments.
FieldEnd(toks, p) ==
  IF peek(toks, p + 1) # ":" THEN parseArgs(toks, p + 1)
  ELSE IF peek(toks, p + 2) \in Names THEN parseArgs(toks, p + 3) ELSE 0

OneFieldMore(seen) == seen > MaxSelections  \* mutant: one field more
Exhausted(seen) == seen >= MaxSelections

\* Where the parser stands: position, depth, and selectionsSeen.
Spots(toks) == [at : 1..(Len(toks) + 1), depth : Nat, seen : Nat]

parseSelectionSet(toks, loop, x) ==
  IF x.depth > MaxDepth \/ peek(toks, x.at) # "{" THEN Fail ELSE loop[[x EXCEPT !.at = @ + 1]]

\* The loop over the fields of a set, from one of them to the closing brace.
Loop(toks, loop, x) ==
  LET end == FieldEnd(toks, x.at)
      sub == IF peek(toks, end) # "{" THEN [at |-> end, seen |-> x.seen + 1, sels |-> Leaf]
             ELSE parseSelectionSet(toks, loop, [at |-> end, depth |-> x.depth + 1, seen |-> x.seen + 1])
      others == loop[[at |-> sub.at, depth |-> x.depth, seen |-> sub.seen]]
      field == [words |-> SubSeq(toks, x.at, end - 1), sub |-> sub.sels]
  IN  IF peek(toks, x.at) = "}" THEN [at |-> x.at + 1, seen |-> x.seen, sels |-> <<>>]
      ELSE IF \/ peek(toks, x.at) \notin Names \/ Exhausted(x.seen)
              \/ end = 0 \/ sub = Fail \/ others = Fail
           THEN Fail
           ELSE [at |-> others.at, seen |-> others.seen, sels |-> <<field>> \o others.sels]

parse(toks) ==
  LET loop[x \in Spots(toks)] == Loop(toks, loop, x)
      first == IF peek(toks, 1) # "query" THEN 1 ELSE IF peek(toks, 2) \in Names THEN 3 ELSE 2
      set == parseSelectionSet(toks, loop, [at |-> first, depth |-> 1, seen |-> 0])
  IN  IF set = Fail \/ set.at # Len(toks) + 1 \/ Len(set.sels) > MaxRoots THEN Fail ELSE set

-----------------------------------------------------------------------------
(* What a query is: the words of a field are a name with or without an alias, *)
(* and pairs in brackets; a query of d levels is a list of fields, each a leaf *)
(* or with one of d - 1 levels under it.                                      *)

Part(k) == IF k = 0 THEN Names ELSE IF k = 1 THEN {":"} ELSE Values
ArgPairs(w, first, end) ==
  /\ (end - first) % 3 = 0
  /\ \A i \in first..(end - 1) : w[i] \in Part((i - first) % 3)
Field(w) ==
  LET k == IF peek(w, 2) = ":" THEN 3 ELSE 1 IN
  /\ Len(w) >= k /\ w[1] \in Names /\ w[k] \in Names
  /\ \/ Len(w) = k
     \/ Len(w) > k + 1 /\ w[k + 1] = "(" /\ w[Len(w)] = ")" /\ ArgPairs(w, k + 2, Len(w))
Fields == {w \in Seq(Tokens) : Field(w)}

\* How a list of fields is written, with its closing brace, how many fields it has
\* with those below, and on how many levels; under gives this for what is below.
Added(under, f, rest) ==
  IF f.sub = Leaf
  THEN [text |-> f.words \o rest.text, size |-> rest.size + 1, deep |-> rest.deep]
  ELSE LET b == under[f.sub] IN
       [text |-> f.words \o (<<"{">> \o (b.text \o rest.text)), size |-> rest.size + 1 + b.size,
        deep |-> Larger(rest.deep, b.deep + 1)]
Closed == [text |-> <<"}">>, size |-> 0, deep |-> 1]
Measured(under, sels) ==
  LET from[i \in 1..(Len(sels) + 1)] ==
        IF i > Len(sels) THEN Closed ELSE Added(under, sels[i], from[i + 1])
  IN  from[1]
Reading[d \in 0..Levels] ==
  IF d = 0 THEN <<>>
  ELSE [sels \in Seq([words : Fields, sub : {Leaf} \cup DOMAIN Reading[d - 1]]) |->
         Measured(Reading[d - 1], sels)]

Heads == {<<>>, <<"query">>} \cup {<<"query", n>> : n \in Names}
Written(head, d, sels) == head \o (<<"{">> \o Reading[d][sels].text)
Within(d, sels) ==
  LET measure == Reading[d][sels]
  IN  measure.deep <= MaxDepth /\ measure.size <= MaxSelections /\ Len(sels) <= MaxRoots

ASSUME ParserAssumption ==
  /\ {MaxDepth, MaxSelections, MaxRoots, Levels} \subseteq Nat /\ MaxDepth \in 1..Levels
  /\ Inputs \subseteq Seq(Tokens) /\ Queries \subseteq DOMAIN Reading[Levels]

-----------------------------------------------------------------------------
(* Property.                                                                  *)

\* The parser takes every query within the limits on depth, fields and roots, with
\* and without a name for the operation, as the tree it was written from, and refuses
\* every one beyond them; and what it takes, of all token strings, is a query within
\* the limits: written again, it is the string.
ParsesExactly == quiet /\ tip = -1 =>  \* once: the parser reads no state
  /\ \A q \in Queries, head \in Heads :
       LET set == parse(Written(head, Levels, q))
       IN  (set # Fail <=> Within(Levels, q)) /\ (Within(Levels, q) => set.sels = q)
  /\ \A s \in Inputs : parse(s) # Fail =>
       LET q == parse(s).sels
       IN  q \in DOMAIN Reading[MaxDepth] /\ Within(MaxDepth, q) /\ \E head \in Heads : s = Written(head, MaxDepth, q)
=============================================================================
