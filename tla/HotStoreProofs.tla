--------------------------- MODULE HotStoreProofs ---------------------------
(* The store for any blocks, sizes and limits: eviction ends within the       *)
(* limits, goes from the bottom and never reaches the newest block; the       *)
(* tables are those of the blocks held, also in a replica; the caches over    *)
(* the store give what it and the node would; its lists, its search and its   *)
(* statistics of a window answer for the blocks held and for no others; the   *)
(* fields of a query fail by themselves; and the parser takes the queries     *)
(* within the limits, as they are written, and no other string.               *)
EXTENDS ServeReplica, GraphQL, FiniteSetTheorems, SequenceTheorems, WellFoundedInduction, TLAPS

LEMMA HeldFinite ==
  /\ IsFiniteSet(Held) /\ Cardinality(Held) \in Nat
  /\ Cardinality(Held) > 1 => \A h \in Heights : \E k \in Held : k # h
<1>1. IsFiniteSet(Heights)
  BY StoreAssumption, FS_Interval DEF Heights
<1>2. IsFiniteSet(Held) /\ Cardinality(Held) \in Nat
  BY <1>1, FS_Subset, FS_CardinalityType DEF Held
<1>3. ASSUME NEW h, Held \subseteq {h}
      PROVE  Cardinality(Held) <= 1
  <2>1. IsFiniteSet({h}) /\ Cardinality({h}) = 1
    BY FS_Singleton
  <2> QED BY <1>3, <2>1, FS_Subset
<1> QED BY <1>2, <1>3

\* What is left of an account's ids is a sequence of ids.
LEMMA CleanFrontType ==
  ASSUME NEW s \in Seq(Txs), NEW live
  PROVE  CleanFront(s, live) \in Seq(Txs)
<1> DEFINE at == {i \in 1..Len(s) : s[i] \in live}
           first(i) == \A j \in at : i <= j
<1>1. CASE at = {}
  BY <1>1 DEF CleanFront
<1>2. CASE at # {}
  <2>1. PICK i \in at : \A j \in at : ~ (<<j, i>> \in OpToRel(<, Nat))
    <3>1. at \subseteq Nat
      OBVIOUS
    <3> HIDE DEF at
    <3> QED BY ONLY <3>1, <1>2, WFMin, NatLessThanWellFounded
  <2>2. first(i)
    <3>1. i \in Nat /\ \A j \in at : j \in Nat
      OBVIOUS
    <3>2. \A j \in at : ~ (j < i)
      BY <2>1, <3>1 DEF OpToRel
    <3> QED BY <3>1, <3>2
  <2> DEFINE c == CHOOSE k \in at : first(k)
  <2>3. c \in at
    BY <2>2
  <2>4. c \in 1..Len(s) /\ Len(s) \in Nat
    BY <2>3
  <2> HIDE DEF c
  <2>5. c \in 1..Len(s) + 1 /\ Len(s) \in c - 1..Len(s)
    BY <2>4
  <2>6. SubSeq(s, c, Len(s)) \in Seq(Txs)
    BY <2>5, SubSeqProperties
  <2> QED BY <1>2, <2>6 DEF CleanFront, c
<1> QED BY <1>1, <1>2

-----------------------------------------------------------------------------

\* Eviction removes the block at low; NewestKept is what says that it is a block
\* below the tip, and that low stays a height.
IInv == TypeOK /\ NewestKept /\ Bounded

LEMMA InitInv == Init => IInv
<1> SUFFICES ASSUME Init PROVE IInv
  OBVIOUS
<1> USE StoreAssumption DEF Init, EmptyStore
<1>1. Held = {}
  BY DEF Held
<1>2. TypeOK
  <2>1. ids \in [Accounts -> Seq(Txs)]
    OBVIOUS
  <2>2. proposers \in [Proposers -> [blocks : Nat, lastHeight : Heights \cup {-1}]]
    OBVIOUS
  <2>3. blocks \in [Heights -> Blocks \cup {None}]
    OBVIOUS
  <2> QED BY <2>1, <2>2, <2>3 DEF TypeOK
<1> QED BY <1>1, <1>2, FS_EmptySet DEF IInv, NewestKept, Bounded

LEMMA ReplaceStep ==
  ASSUME IInv, NEW b \in Blocks, Commit(b), Replace(b)
  PROVE  IInv'
<1> USE StoreAssumption DEF IInv, Replace
<1>1. HeightOf[b] \in Heights
  OBVIOUS
<1>2. Held' = Held
  BY <1>1 DEF Held, TypeOK
<1>3. TypeOK'
  BY <1>1 DEF TypeOK
<1>4. NewestKept' /\ Bounded'
  BY <1>2 DEF NewestKept, Bounded
<1> QED BY <1>3, <1>4

LEMMA InsertStep ==
  ASSUME IInv, NEW b \in Blocks, Insert(b)
  PROVE  IInv'
<1> DEFINE h == HeightOf[b]
<1> USE StoreAssumption DEF IInv
<1>1. h \in Heights /\ h \in Nat /\ SizeOf[b] \in Nat /\ ProposerOf[b] \in Proposers
      /\ TxOf[b] \in Txs \cup {None}
  BY DEF Heights
<1>2. Held' = Held \cup {h}
  BY <1>1 DEF Held, TypeOK, Insert
<1>3. TypeOK'
  <2>1. tip' \in Heights \cup {-1} /\ low' \in Heights \cup {Infinity}
    BY <1>1 DEF TypeOK, Insert, Lowered
  <2>2. blocks' \in [Heights -> Blocks \cup {None}] /\ hashed' \subseteq Blocks
    BY <1>1 DEF TypeOK, Insert
  <2>3. txs' \subseteq Txs /\ latest' \in Txs \cup {None}
        /\ bytes' \in Nat /\ signed' \in Nat /\ evicting' \in BOOLEAN
    BY <1>1 DEF TypeOK, Insert
  <2>4. ids' \in [Accounts -> Seq(Txs)]
    <3>1. \A a \in Accounts :
            (IF TxOf[b] # None /\ a \in AccountsOf[TxOf[b]]
             THEN Append(ids[a], TxOf[b]) ELSE ids[a]) \in Seq(Txs)
      BY <1>1, AppendProperties DEF TypeOK
    <3> QED BY <3>1 DEF Insert
  <2>5. proposers' \in [Proposers -> [blocks : Nat, lastHeight : Heights \cup {-1}]]
    BY <1>1 DEF TypeOK, Insert
  <2> QED BY <2>1, <2>2, <2>3, <2>4, <2>5 DEF TypeOK
<1>4. NewestKept'
  <2>1. tip \in Int /\ low \in Int /\ \A k \in Held : k \in Nat
    BY DEF TypeOK, Heights, Infinity, Held
  <2>2. tip' = IF h > tip THEN h ELSE tip
    BY DEF Insert
  <2>3. low' = IF h < low THEN h ELSE low
    BY DEF Insert, Lowered
  <2>4. tip' \in Held'
    BY <1>1, <1>2, <2>1, <2>2 DEF NewestKept, TypeOK, Heights
  <2>5. ASSUME NEW k \in Held' PROVE low' <= k /\ k <= tip'
    BY <1>1, <1>2, <2>1, <2>2, <2>3 DEF NewestKept
  <2> QED BY <2>4, <2>5 DEF NewestKept
<1>5. Bounded'
  BY DEF Bounded, Insert
<1> QED BY <1>3, <1>4, <1>5

\* Whatever makes eviction go on, there is a block below the tip to give up.
LEMMA LowBelowTip ==
  ASSUME IInv, Over
  PROVE  low \in Heights /\ low < tip /\ tip \in Held /\ low + 1 \in Heights
<1>1. Cardinality(Held) > 1
  BY StoreAssumption, HeldFinite DEF Over
<1>2. tip \in Heights \cup {-1} /\ low \in Heights \cup {Infinity}
  BY DEF IInv, TypeOK
<1>3. PICK k \in Held : TRUE
  BY <1>1, HeldFinite, FS_EmptySet
<1>4. tip \in Held
  BY <1>2, <1>3, StoreAssumption DEF IInv, NewestKept, Held, Heights
<1>5. PICK j \in Held : j # tip
  BY <1>1, <1>4, HeldFinite DEF Held
<1>6. low <= j /\ j <= tip /\ j \in Nat /\ tip \in Nat /\ low \in Nat
  BY <1>2, <1>4, <1>5, StoreAssumption DEF IInv, NewestKept, Held, Heights, Infinity
<1> QED BY <1>2, <1>4, <1>5, <1>6, StoreAssumption DEF Heights, Infinity, Held

LEMMA EvictOneStep ==
  ASSUME IInv, EvictOne
  PROVE  IInv'
<1> DEFINE b == blocks[low]
           t == IF b = None THEN None ELSE TxOf[b]
<1> USE StoreAssumption
<1>1. low \in Heights /\ low < tip /\ tip \in Held /\ low + 1 \in Heights
  BY LowBelowTip DEF EvictOne
<1>2. Held' = Held \ {low}
  BY <1>1 DEF IInv, TypeOK, Held, EvictOne
<1>3. TypeOK'
  <2>1. b \in Blocks \cup {None} /\ t \in Txs \cup {None}
    BY <1>1 DEF IInv, TypeOK
  <2>2. blocks' \in [Heights -> Blocks \cup {None}] /\ hashed' \subseteq Blocks
        /\ txs' \subseteq Txs
    BY <1>1 DEF IInv, TypeOK, EvictOne
  <2>3. ids' \in [Accounts -> Seq(Txs)]
    <3>1. \A a \in Accounts :
            (IF t # None /\ a \in AccountsOf[t]
             THEN CleanFront(ids[a], txs \ {t}) ELSE ids[a]) \in Seq(Txs)
      BY CleanFrontType DEF IInv, TypeOK
    <3> QED BY <3>1 DEF EvictOne
  <2>4. proposers' \in [Proposers -> [blocks : Nat, lastHeight : Heights \cup {-1}]]
    <3>1. CASE b = None
      BY <3>1 DEF IInv, TypeOK, EvictOne
    <3>2. CASE b # None
      <4> DEFINE p == ProposerOf[b]
                 entry == [blocks : Nat, lastHeight : Heights \cup {-1}]
                 r == IF proposers[p].blocks > 1
                      THEN [blocks |-> proposers[p].blocks - 1,
                            lastHeight |-> proposers[p].lastHeight]
                      ELSE [blocks |-> 0, lastHeight |-> -1]
      <4>1. p \in Proposers
        BY <2>1, <3>2
      <4>2. proposers \in [Proposers -> entry]
        BY DEF IInv, TypeOK
      <4>3. r \in entry
        <5>1. proposers[p] \in entry
          BY <4>1, <4>2
        <5> HIDE DEF p
        <5> QED BY <5>1
      <4>4. proposers' = [proposers EXCEPT ![p] = r]
        BY <3>2 DEF EvictOne
      <4> HIDE DEF p, r, entry
      <4>5. proposers' \in [Proposers -> entry]
        BY <4>1, <4>2, <4>3, <4>4
      <4> QED BY <4>5 DEF entry
    <3> QED BY <3>1, <3>2
  <2>5. bytes' \in Nat
    BY <2>1 DEF IInv, TypeOK, EvictOne, BytesLess
  <2>6. signed' \in Nat /\ latest' \in Txs \cup {None}
    BY DEF IInv, TypeOK, EvictOne, LatestAfter
  <2>7. tip' \in Heights \cup {-1} /\ low' \in Heights \cup {Infinity} /\ evicting' \in BOOLEAN
    BY <1>1 DEF IInv, TypeOK, EvictOne
  <2> QED BY <2>2, <2>3, <2>4, <2>5, <2>6, <2>7 DEF TypeOK
<1>4. NewestKept'
  <2>1. tip' = tip /\ low' = low + 1
    BY DEF EvictOne
  <2>2. \A k \in Held : k \in Nat /\ low <= k /\ k <= tip
    BY DEF Held, Heights, IInv, NewestKept
  <2>3. low \in Nat /\ tip \in Nat
    BY <1>1 DEF Held, Heights
  <2> QED BY <1>1, <1>2, <2>1, <2>2, <2>3 DEF NewestKept
<1>5. Bounded'
  BY DEF EvictOne, Bounded
<1> QED BY <1>3, <1>4, <1>5 DEF IInv

\* When eviction stops, it stops within the limits.
LEMMA EvictDoneStep ==
  ASSUME IInv, EvictDone
  PROVE  IInv'
<1>1. Held' = Held
  BY DEF Held, EvictDone
<1>2. TypeOK' /\ NewestKept'
  BY <1>1 DEF IInv, TypeOK, NewestKept, EvictDone
<1>3. Bounded'
  <2>1. bytes \in Nat
    BY DEF IInv, TypeOK
  <2> QED BY <1>1, <2>1, HeldFinite, StoreAssumption DEF Bounded, EvictDone, Over
<1> QED BY <1>2, <1>3 DEF IInv

LEMMA ResetStep ==
  ASSUME IInv, Reset
  PROVE  IInv'
<1> USE StoreAssumption DEF Reset
<1>1. Held' = {}
  BY DEF Held
<1>2. TypeOK'
  <2>1. ids' \in [Accounts -> Seq(Txs)]
    OBVIOUS
  <2>2. proposers' \in [Proposers -> [blocks : Nat, lastHeight : Heights \cup {-1}]]
    OBVIOUS
  <2>3. blocks' \in [Heights -> Blocks \cup {None}]
    OBVIOUS
  <2> QED BY <2>1, <2>2, <2>3 DEF IInv, TypeOK
<1>3. NewestKept' /\ Bounded'
  BY <1>1, FS_EmptySet DEF NewestKept, Bounded
<1> QED BY <1>2, <1>3 DEF IInv

LEMMA StoreStep == IInv /\ [Next]_storeVars => IInv'
<1> SUFFICES ASSUME IInv, [Next]_storeVars PROVE IInv'
  OBVIOUS
<1>1. ASSUME NEW b \in Blocks, Commit(b) PROVE IInv'
  BY <1>1, ReplaceStep, InsertStep DEF Commit, AddBlock
<1>2. CASE Evict
  BY <1>2, EvictOneStep, EvictDoneStep DEF Evict
<1>3. CASE Reset
  BY <1>3, ResetStep
<1>4. CASE UNCHANGED storeVars
  <2>1. Held' = Held
    BY <1>4 DEF storeVars, Held
  <2> QED BY <1>4, <2>1 DEF IInv, TypeOK, NewestKept, Bounded, storeVars
<1> QED BY <1>1, <1>2, <1>3, <1>4 DEF Next

LEMMA StoreInv == Spec => []IInv
BY InitInv, StoreStep, PTL DEF Spec

-----------------------------------------------------------------------------
(* The tables of blocks.                                                     *)

\* A block lies at its own height, so it is held once.
Placed == \A h \in Held : HeightOf[blocks[h]] = h
Won(p) == {h \in Held : ProposerOf[blocks[h]] = p}

LEMMA BytesCounted ==
  ASSUME NEW b \in Blocks
  PROVE  IsFiniteSet(Bytes({b})) /\ Cardinality(Bytes({b})) = SizeOf[b] /\ SizeOf[b] \in Nat
<1> DEFINE n == SizeOf[b]
           f == [i \in 1..n |-> <<b, i>>]
<1>1. n \in Nat
  BY StoreAssumption
<1>2. IsFiniteSet(1..n) /\ Cardinality(1..n) = n
  BY <1>1, FS_Interval
<1>3. f \in Surjection(1..n, Bytes({b}))
  BY DEF Surjection, Bytes
<1>4. f \in Injection(1..n, Bytes({b}))
  BY DEF Injection, IsInjective, Bytes
<1> QED BY <1>1, <1>2, <1>3, <1>4, FS_Surjection

LEMMA BytesFinite ==
  ASSUME NEW S \in SUBSET Blocks, IsFiniteSet(S)
  PROVE  IsFiniteSet(Bytes(S))
<1> DEFINE Bad == {T \in FiniteSubsetsOf(S) : ~ IsFiniteSet(Bytes(T))}
<1>1. S \in FiniteSubsetsOf(S)
  BY FS_FiniteSubsetsOfFinite
<1> SUFFICES ASSUME Bad # {} PROVE FALSE
  BY <1>1
<1>2. PICK T \in Bad : \A U \in Bad : ~ (<<U, T>> \in StrictSubsetOrdering(S))
  <2>1. Bad \subseteq FiniteSubsetsOf(S)
    OBVIOUS
  <2> HIDE DEF Bad
  <2> QED BY <2>1, WFMin, FS_StrictSubsetOrderingWellFounded
<1>3. T \in SUBSET S /\ ~ IsFiniteSet(Bytes(T))
  BY <1>2, FS_FiniteSubsetsOfFinite
<1>4. PICK b \in T : TRUE
  <2>1. T = {} => Bytes(T) = {}
    BY DEF Bytes
  <2> QED BY <1>3, <2>1, FS_EmptySet
<1>5. T \ {b} \in FiniteSubsetsOf(S) /\ <<T \ {b}, T>> \in StrictSubsetOrdering(S)
  BY <1>3, <1>4, FS_FiniteSubsetsOfFinite DEF StrictSubsetOrdering
<1>6. IsFiniteSet(Bytes(T \ {b}))
  BY <1>2, <1>5
<1>7. Bytes(T) = Bytes(T \ {b}) \cup Bytes({b})
  BY <1>4 DEF Bytes
<1>8. IsFiniteSet(Bytes({b}))
  BY <1>3, <1>4, BytesCounted
<1>9. IsFiniteSet(Bytes(T \ {b}) \cup Bytes({b}))
  BY <1>6, <1>8, FS_Union
<1> QED BY <1>3, <1>7, <1>9

\* Bytes add up, block by block.
LEMMA TotalAdd ==
  ASSUME NEW S \in SUBSET Blocks, IsFiniteSet(S), NEW b \in Blocks, b \notin S
  PROVE  Total(S) \in Nat /\ Total(S \cup {b}) = Total(S) + SizeOf[b]
<1>1. IsFiniteSet(Bytes(S)) /\ IsFiniteSet(Bytes({b}))
      /\ Cardinality(Bytes({b})) = SizeOf[b] /\ SizeOf[b] \in Nat
  BY BytesFinite, BytesCounted
<1>2. Bytes(S \cup {b}) = Bytes(S) \cup Bytes({b})
  BY DEF Bytes
<1>3. Bytes(S) \cap Bytes({b}) = {}
  BY DEF Bytes
<1>4. Cardinality(Bytes(S)) \in Nat
  BY <1>1, FS_CardinalityType
<1>5. Cardinality(Bytes(S) \cup Bytes({b})) = Cardinality(Bytes(S)) + Cardinality(Bytes({b}))
  <2>1. Cardinality(Bytes(S) \cup Bytes({b}))
          = Cardinality(Bytes(S)) + Cardinality(Bytes({b})) - Cardinality({})
    BY <1>1, <1>3, FS_Union
  <2>2. Cardinality({}) = 0
    BY FS_EmptySet
  <2> QED BY <1>1, <1>4, <2>1, <2>2
<1>6. Cardinality(Bytes(S \cup {b})) = Cardinality(Bytes(S)) + SizeOf[b]
  BY <1>1, <1>2, <1>5
<1> QED BY <1>4, <1>6 DEF Total

LEMMA RetainedFinite ==
  ASSUME TypeOK
  PROVE  Retained \in SUBSET Blocks /\ IsFiniteSet(Retained)
<1>1. Retained \in SUBSET Blocks
  BY DEF TypeOK, Retained, Held
<1>2. [h \in Held |-> blocks[h]] \in Surjection(Held, Retained)
  BY DEF Surjection, Retained
<1> QED BY <1>1, <1>2, HeldFinite, FS_Surjection

\* What an insertion does to the set of held blocks.
LEMMA InsertEffect ==
  ASSUME TypeOK, Placed, NEW b \in Blocks, Insert(b)
  PROVE  /\ HeightOf[b] \in Heights \ Held /\ b \notin Retained
         /\ Held' = Held \cup {HeightOf[b]}
         /\ blocks'[HeightOf[b]] = b /\ \A k \in Held : blocks'[k] = blocks[k]
         /\ Retained' = Retained \cup {b}
         /\ Placed'
<1>1. HeightOf[b] \in Heights /\ b # None /\ blocks[HeightOf[b]] = None
  BY StoreAssumption DEF Insert
<1>2. \A k \in Heights : blocks'[k] = IF k = HeightOf[b] THEN b ELSE blocks[k]
  BY <1>1 DEF Insert, TypeOK
<1>3. Held' = Held \cup {HeightOf[b]} /\ HeightOf[b] \notin Held
  BY <1>1, <1>2 DEF Held
<1>4. \A k \in Held : blocks'[k] = blocks[k]
  BY <1>2, <1>3 DEF Held
<1>5. Retained' = Retained \cup {b}
  BY <1>1, <1>2, <1>3, <1>4 DEF Retained
<1>6. b \notin Retained
  BY <1>3 DEF Retained, Placed
<1>7. Placed'
  BY <1>1, <1>2, <1>3, <1>4 DEF Placed
<1> QED BY <1>1, <1>2, <1>3, <1>4, <1>5, <1>6, <1>7

\* What a round of eviction does to it.
LEMMA EvictEffect ==
  ASSUME IInv, Placed, EvictOne
  PROVE  /\ low \in Heights
         /\ Held' = Held \ {low} /\ \A k \in Held' : blocks'[k] = blocks[k]
         /\ Retained' = Retained \ {blocks[low]}
         /\ blocks[low] # None => blocks[low] \in Retained /\ low \in Held
         /\ blocks[low] = None => Retained' = Retained /\ Held' = Held
         /\ Placed'
<1>1. low \in Heights
  BY LowBelowTip DEF EvictOne
<1>2. \A k \in Heights : blocks'[k] = IF k = low THEN None ELSE blocks[k]
  BY <1>1 DEF EvictOne, IInv, TypeOK
<1>3. Held' = Held \ {low} /\ \A k \in Held' : blocks'[k] = blocks[k]
  BY <1>1, <1>2 DEF Held
<1>4. Retained' = {blocks[k] : k \in Held \ {low}}
  BY <1>3 DEF Retained
<1>5. blocks[low] # None => low \in Held
  BY <1>1 DEF Held
<1>6. blocks[low] = None => low \notin Held /\ None \notin Retained
  BY DEF Held, Retained
<1>7. \A k \in Held \ {low} : blocks[k] # blocks[low]
  BY <1>5, <1>6 DEF Placed, Held
<1>8. Retained' = Retained \ {blocks[low]}
  BY <1>4, <1>7 DEF Retained
<1>9. Placed'
  BY <1>3 DEF Placed
<1> QED BY <1>1, <1>3, <1>5, <1>6, <1>8, <1>9 DEF Retained

LEMMA InsertBlocks ==
  ASSUME IInv, Placed, BlocksExact, NEW b \in Blocks, Insert(b)
  PROVE  BlocksExact'
<1> DEFINE h == HeightOf[b]
           p == ProposerOf[b]
<1>1. /\ h \in Heights /\ h \notin Held /\ b \notin Retained /\ p \in Proposers /\ h \in Nat
      /\ Held' = Held \cup {h} /\ Retained' = Retained \cup {b}
      /\ blocks'[h] = b /\ \A k \in Held : blocks'[k] = blocks[k]
  BY InsertEffect, StoreAssumption DEF IInv, Heights
<1>2. hashed' = Retained'
  BY <1>1 DEF Insert, BlocksExact
<1>3. bytes' = Total(Retained)'
  <2>1. Total(Retained \cup {b}) = Total(Retained) + SizeOf[b]
    BY <1>1, TotalAdd, RetainedFinite DEF IInv
  <2>2. Total(Retained)' = Total(Retained \cup {b})
    BY <1>1 DEF Total
  <2> QED BY <2>1, <2>2 DEF Insert, BlocksExact
<1>4. \A q \in Proposers : Won(q)' = IF q = p THEN Won(q) \cup {h} ELSE Won(q)
  BY <1>1 DEF Won
<1>5. \A q \in Proposers :
        /\ IsFiniteSet(Won(q)) /\ Cardinality(Won(q)) \in Nat
        /\ Won(q) \subseteq Held /\ h \notin Won(q)
        /\ Cardinality(Won(q) \cup {h}) = Cardinality(Won(q)) + 1
  BY <1>1, HeldFinite, FS_Subset, FS_AddElement, FS_CardinalityType DEF Won
<1>6. \A q \in Proposers :
        /\ proposers[q].blocks = Cardinality(Won(q)) /\ proposers[q].lastHeight \in Won(q) \cup {-1}
        /\ \A k \in Won(q) : k <= proposers[q].lastHeight
  BY DEF BlocksExact, Won
<1>7. proposers' = [proposers EXCEPT ![p] =
         [blocks |-> proposers[p].blocks + 1,
          lastHeight |-> IF h > proposers[p].lastHeight THEN h ELSE proposers[p].lastHeight]]
  BY DEF Insert
<1>8. proposers \in [Proposers -> [blocks : Nat, lastHeight : Heights \cup {-1}]]
  BY DEF IInv, TypeOK
<1> HIDE DEF h, p
<1>9. ASSUME NEW q \in Proposers
      PROVE  /\ proposers'[q].blocks = Cardinality(Won(q)')
             /\ proposers'[q].lastHeight \in Won(q)' \cup {-1}
             /\ \A k \in Won(q)' : k <= proposers'[q].lastHeight
  <2>1. CASE q # p
    BY <1>4, <1>6, <1>7, <1>8, <2>1
  <2>2. CASE q = p
    <3>1. /\ proposers'[q].blocks = proposers[p].blocks + 1
          /\ proposers'[q].lastHeight
               = IF h > proposers[p].lastHeight THEN h ELSE proposers[p].lastHeight
      BY <1>1, <1>7, <1>8, <2>2
    <3>2. proposers[p].lastHeight \in Int /\ \A k \in Won(p) : k \in Nat
      <4>1. proposers[p].lastHeight \in Heights \cup {-1} /\ Won(p) \subseteq Heights
        BY <1>1, <1>8 DEF Held, Won
      <4> QED BY <4>1 DEF Heights
    <3> QED BY <1>1, <1>4, <1>5, <1>6, <2>2, <3>1, <3>2
  <2> QED BY <2>1, <2>2
<1> QED BY <1>2, <1>3, <1>9 DEF BlocksExact, Won

LEMMA EvictBlocks ==
  ASSUME IInv, Placed, BlocksExact, EvictOne
  PROVE  BlocksExact'
<1> DEFINE b == blocks[low]
           p == ProposerOf[b]
<1>1. /\ low \in Heights /\ low \in Nat
      /\ Held' = Held \ {low} /\ \A k \in Held' : blocks'[k] = blocks[k]
      /\ Retained' = Retained \ {b}
      /\ b # None => b \in Retained /\ low \in Held
      /\ b = None => Retained' = Retained /\ Held' = Held
  BY EvictEffect DEF Heights
<1>2. CASE b = None
  <2>1. UNCHANGED <<hashed, proposers, bytes>>
    BY <1>2 DEF EvictOne
  <2>2. Total(Retained)' = Total(Retained)
    BY <1>1, <1>2 DEF Total
  <2>3. \A q \in Proposers : Won(q)' = Won(q)
    BY <1>1, <1>2 DEF Won
  <2> QED BY <1>1, <1>2, <2>1, <2>2, <2>3 DEF BlocksExact, Won
<1>3. CASE b # None
  <2>1. b \in Blocks /\ p \in Proposers /\ SizeOf[b] \in Nat
    BY <1>1, <1>3, StoreAssumption DEF IInv, TypeOK
  <2>2. hashed' = Retained'
    BY <1>1, <1>3 DEF EvictOne, BlocksExact
  <2>3. bytes' = Total(Retained)'
    <3> DEFINE S == Retained \ {b}
    <3>1. S \in SUBSET Blocks /\ IsFiniteSet(S) /\ b \notin S /\ Retained = S \cup {b}
      BY <1>1, <1>3, RetainedFinite, FS_Subset DEF IInv
    <3> HIDE DEF S
    <3>2. Total(S) \in Nat /\ Total(Retained) = Total(S) + SizeOf[b]
      BY <2>1, <3>1, TotalAdd
    <3>3. Total(Retained)' = Total(S)
      BY <1>1 DEF Total, S
    <3>4. bytes' = BytesLess(b)
      BY <1>3 DEF EvictOne
    <3> QED BY <2>1, <3>2, <3>3, <3>4 DEF BytesLess, BlocksExact
  <2>4. \A q \in Proposers : Won(q)' = IF q = p THEN Won(q) \ {low} ELSE Won(q)
    BY <1>1 DEF Won
  <2>5. \A q \in Proposers :
          /\ IsFiniteSet(Won(q)) /\ Cardinality(Won(q)) \in Nat
          /\ Won(q) \subseteq Held
          /\ low \in Won(q) => Cardinality(Won(q) \ {low}) = Cardinality(Won(q)) - 1
          /\ Cardinality(Won(q)) = 0 => Won(q) = {}
          /\ Cardinality(Won(q)) = 1 => \E k : Won(q) = {k}
    BY HeldFinite, FS_Subset, FS_RemoveElement, FS_CardinalityType, FS_EmptySet, FS_Singleton DEF Won
  <2>6. low \in Won(p)
    BY <1>1, <1>3 DEF Won
  <2>7. \A q \in Proposers :
          /\ proposers[q].blocks = Cardinality(Won(q)) /\ proposers[q].lastHeight \in Won(q) \cup {-1}
          /\ \A k \in Won(q) : k <= proposers[q].lastHeight
    BY DEF BlocksExact, Won
  <2>8. proposers \in [Proposers -> [blocks : Nat, lastHeight : Heights \cup {-1}]]
    BY DEF IInv, TypeOK
  <2>9. proposers' = [proposers EXCEPT ![p] =
           IF proposers[p].blocks > 1
           THEN [blocks |-> proposers[p].blocks - 1, lastHeight |-> proposers[p].lastHeight]
           ELSE [blocks |-> 0, lastHeight |-> -1]]
    BY <1>3 DEF EvictOne
  <2>10. \A k \in Held : k \in Nat /\ low <= k
    BY DEF IInv, NewestKept, Held, Heights
  <2> HIDE DEF b, p
  <2>11. ASSUME NEW q \in Proposers
         PROVE  /\ proposers'[q].blocks = Cardinality(Won(q)')
                /\ proposers'[q].lastHeight \in Won(q)' \cup {-1}
                /\ \A k \in Won(q)' : k <= proposers'[q].lastHeight
    <3>1. CASE q # p
      BY <2>4, <2>7, <2>8, <2>9, <3>1
    <3>2. CASE q = p /\ Cardinality(Won(p)) > 1
      <4>1. /\ proposers'[q].blocks = Cardinality(Won(p)) - 1
            /\ proposers'[q].lastHeight = proposers[p].lastHeight
        BY <2>1, <2>7, <2>8, <2>9, <3>2
      <4>2. PICK k \in Won(p) : k # low
        <5>1. Won(p) # {low}
          BY <3>2, FS_Singleton
        <5> QED BY <2>6, <5>1
      <4>3. proposers[p].lastHeight # low
        <5>1. k \in Held
          BY <4>2 DEF Won
        <5>2. k <= proposers[p].lastHeight
          BY <2>1, <2>7, <4>2
        <5> QED BY <1>1, <2>10, <4>2, <5>1, <5>2
      <4> QED BY <2>1, <2>4, <2>5, <2>6, <2>7, <3>2, <4>1, <4>3
    <3>3. CASE q = p /\ ~ (Cardinality(Won(p)) > 1)
      <4> DEFINE W == Won(p)
      <4>1. /\ Cardinality(W) \in Nat /\ W # {}
            /\ Cardinality(W) = 0 => W = {}
            /\ Cardinality(W) = 1 => \E k : W = {k}
        BY <2>1, <2>5, <2>6
      <4>2. W = {low}
        <5>1. Cardinality(W) = 1
          BY <3>3, <4>1
        <5>2. low \in W
          BY <2>6
        <5> QED BY <4>1, <5>1, <5>2
      <4>3. Won(q)' = {}
        BY <2>1, <2>4, <3>3, <4>2
      <4>4. proposers'[q] = [blocks |-> 0, lastHeight |-> -1]
        BY <2>1, <2>7, <2>8, <2>9, <3>3
      <4>5. Cardinality({}) = 0
        BY FS_EmptySet
      <4> QED BY <4>3, <4>4, <4>5
    <3> QED BY <3>1, <3>2, <3>3
  <2> QED BY <2>2, <2>3, <2>11 DEF BlocksExact, Won
<1> QED BY <1>2, <1>3

LEMMA EmptyBlocks ==
  ASSUME blocks' = [h \in Heights |-> None], hashed' = {}, bytes' = 0,
         proposers' = [p \in Proposers |-> [blocks |-> 0, lastHeight |-> -1]]
  PROVE  Held' = {} /\ Retained' = {} /\ Placed' /\ BlocksExact'
<1>1. Held' = {} /\ Retained' = {}
  BY DEF Held, Retained
<1>2. Total(Retained)' = 0
  <2>1. Bytes({}) = {}
    BY DEF Bytes
  <2>2. Total({}) = 0
    BY <2>1, FS_EmptySet DEF Total
  <2> QED BY <1>1, <2>2 DEF Total
<1>3. \A p \in Proposers : Won(p)' = {}
  BY <1>1 DEF Won
<1> QED BY <1>1, <1>2, <1>3, FS_EmptySet DEF Placed, BlocksExact, Won

-----------------------------------------------------------------------------
(* The replica.                                                              *)

\* What refresh reads are at most MaxBlocks archived blocks: the page is counted
\* from the newest height down, and every place in it is some height's.
Below(S, h) == {k \in S : k <= h}

LEMMA LeastNat ==
  ASSUME NEW S \in SUBSET Nat, S # {}
  PROVE  \E h \in S : \A k \in S : h <= k
<1>1. PICK h \in S : \A k \in S : ~ (<<k, h>> \in OpToRel(<, Nat))
  BY WFMin, NatLessThanWellFounded
<1>2. \A k \in S : ~ (k < h)
  BY <1>1 DEF OpToRel
<1> QED BY <1>2

LEMMA GreatestUpto ==
  ASSUME NEW n \in Nat, NEW S \in SUBSET (0..n), S # {}
  PROVE  \E h \in S : \A k \in S : k <= h
<1> DEFINE D == {n - h : h \in S}
<1>1. D \in SUBSET Nat /\ D # {}
  <2>1. \A h \in S : n - h \in Nat
    OBVIOUS
  <2> QED BY <2>1
<1>2. PICK d \in D : \A k \in D : d <= k
  <2> HIDE DEF D
  <2> QED BY <1>1, LeastNat
<1>3. PICK h \in S : d = n - h
  BY <1>2
<1>4. \A k \in S : n - h <= n - k
  BY <1>2, <1>3
<1> HIDE DEF D
<1>5. ASSUME NEW k \in S PROVE k <= h
  <2>1. n - h <= n - k
    BY <1>4
  <2> QED BY <2>1
<1> QED BY <1>5

LEMMA UptoFinite ==
  ASSUME NEW n \in Nat, NEW S \in SUBSET (0..n)
  PROVE  IsFiniteSet(S) /\ Cardinality(S) \in Nat
<1>1. IsFiniteSet(0..n)
  BY FS_Interval
<1> QED BY <1>1, FS_Subset, FS_CardinalityType

\* The members of a set, counted upward, take the places from 1 to their number.
LEMMA RankRises ==
  ASSUME NEW n \in Nat, NEW S \in SUBSET (0..n), NEW h \in S
  PROVE  /\ Cardinality(Below(S, h)) \in 1..Cardinality(S)
         /\ \A k \in S : h < k => Cardinality(Below(S, h)) < Cardinality(Below(S, k))
<1>1. \A k \in S : IsFiniteSet(Below(S, k)) /\ Cardinality(Below(S, k)) \in Nat
  <2>1. \A k \in S : Below(S, k) \in SUBSET (0..n)
    BY DEF Below
  <2> QED BY <2>1, UptoFinite
<1>2. IsFiniteSet(S) /\ Cardinality(S) \in Nat
  BY UptoFinite
<1>3. Cardinality(Below(S, h)) <= Cardinality(S)
  BY <1>2, FS_Subset DEF Below
<1>4. Cardinality(Below(S, h)) # 0
  <2>1. h \in Below(S, h)
    BY DEF Below
  <2> QED BY <1>1, <2>1, FS_EmptySet
<1>5. ASSUME NEW k \in S, h < k
      PROVE  Cardinality(Below(S, h)) < Cardinality(Below(S, k))
  <2>0. h \in Int /\ k \in Int /\ \A i \in S : i \in Int
    OBVIOUS
  <2>1. Below(S, h) \subseteq Below(S, k)
    <3>1. \A i \in S : i <= h => i <= k
      BY <1>5, <2>0
    <3> QED BY <3>1 DEF Below
  <2>2. k \in Below(S, k) /\ k \notin Below(S, h)
    BY <1>5, <2>0 DEF Below
  <2>3. Cardinality(Below(S, h)) <= Cardinality(Below(S, k))
    BY <1>1, <2>1, FS_Subset
  <2>4. Cardinality(Below(S, h)) # Cardinality(Below(S, k))
    BY <1>1, <2>1, <2>2, FS_Subset
  <2> QED BY <1>1, <2>3, <2>4
<1> QED BY <1>1, <1>2, <1>3, <1>4, <1>5

LEMMA PlaceTaken ==
  ASSUME NEW n \in Nat, NEW S \in SUBSET (0..n), NEW i \in 1..Cardinality(S)
  PROVE  \E h \in S : Cardinality(Below(S, h)) = i
<1> DEFINE rank(h) == Cardinality(Below(S, h))
           T == {h \in S : rank(h) >= i}
<1>1. \A h \in S : Below(S, h) \in SUBSET (0..n) /\ rank(h) \in Nat /\ IsFiniteSet(Below(S, h))
  <2>1. \A h \in S : Below(S, h) \in SUBSET (0..n)
    BY DEF Below
  <2> QED BY <2>1, UptoFinite
<1>2. S # {} /\ Cardinality(S) \in Nat
  <2>1. Cardinality(S) \in Nat /\ IsFiniteSet(S)
    BY UptoFinite
  <2>2. S = {} => Cardinality(S) = 0
    BY FS_EmptySet
  <2> QED BY <2>1, <2>2
<1>3. T # {}
  <2>1. PICK g \in S : \A k \in S : k <= g
    BY <1>2, GreatestUpto
  <2>2. Below(S, g) = S
    BY <2>1 DEF Below
  <2>3. rank(g) = Cardinality(S)
    BY <2>2
  <2> QED BY <1>2, <2>3
<1>4. PICK h \in T : \A k \in T : h <= k
  <2>1. T \in SUBSET Nat
    <3>1. S \in SUBSET Nat /\ T \subseteq S
      OBVIOUS
    <3> HIDE DEF T
    <3> QED BY <3>1
  <2> HIDE DEF T
  <2> QED BY <1>3, <2>1, LeastNat
<1> DEFINE P == {k \in S : k < h}
<1>5. /\ h \in S /\ h \in Nat /\ rank(h) >= i /\ rank(h) \in Nat
      /\ \A k \in S : k \in Nat /\ (k < h => rank(k) < i)
  <2>1. \A k \in S : k \in Nat /\ rank(k) \in Nat
    BY <1>1
  <2> QED BY <1>1, <1>4, <2>1
<1>6. rank(h) = Cardinality(P) + 1 /\ P \in SUBSET (0..n) /\ Cardinality(P) \in Nat
  <2>1. P \in SUBSET (0..n)
    OBVIOUS
  <2>2. IsFiniteSet(P) /\ Cardinality(P) \in Nat
    BY <2>1, UptoFinite
  <2>3. Below(S, h) = P \cup {h} /\ h \notin P
    <3>1. \A k \in S : k <= h <=> k < h \/ k = h
      BY <1>5
    <3>2. ~ h < h
      BY <1>5
    <3> QED BY <1>5, <3>1, <3>2 DEF Below
  <2> HIDE DEF P
  <2>4. Cardinality(P \cup {h}) = Cardinality(P) + 1
    BY <2>2, <2>3, FS_AddElement
  <2> QED BY <2>1, <2>2, <2>3, <2>4
<1>7. Cardinality(P) < i
  <2>1. CASE P = {}
    BY <2>1, FS_EmptySet
  <2>2. CASE P # {}
    <3>1. PICK g \in P : \A k \in P : k <= g
      <4> HIDE DEF P
      <4> QED BY <1>6, <2>2, GreatestUpto
    <3>2. Below(S, g) = P
      <4>1. h \in Nat /\ g \in S /\ g < h /\ \A k \in S : k \in Nat /\ (k < h => k <= g)
        BY <1>5, <3>1
      <4>2. \A k \in S : k <= g <=> k < h
        BY <4>1
      <4> QED BY <4>2 DEF Below
    <3>3. rank(g) < i
      BY <1>5, <3>1
    <3> QED BY <3>2, <3>3
  <2> QED BY <2>1, <2>2
<1> QED BY <1>5, <1>6, <1>7

LEMMA LeastHeight ==
  ASSUME NEW S \in SUBSET Heights, S # {}
  PROVE  \E h \in S : \A k \in S : h <= k
<1>1. S \in SUBSET Nat
  BY StoreAssumption DEF Heights
<1> QED BY <1>1, LeastNat

LEMMA GreatestHeight ==
  ASSUME NEW S \in SUBSET Heights, S # {}
  PROVE  \E h \in S : \A k \in S : k <= h
<1>1. MaxHeight \in Nat /\ S \in SUBSET (0..MaxHeight)
  BY StoreAssumption DEF Heights
<1> QED BY <1>1, GreatestUpto

LEMMA HeightsFinite ==
  ASSUME NEW S \in SUBSET Heights
  PROVE  IsFiniteSet(S) /\ Cardinality(S) \in Nat
<1>1. MaxHeight \in Nat /\ S \in SUBSET (0..MaxHeight)
  BY StoreAssumption DEF Heights
<1> QED BY <1>1, UptoFinite

LEMMA NewestBounded ==
  Cardinality(Newest) <= MaxBlocks /\ Cardinality(Newest) \in Nat /\ Newest \in SUBSET Archived
<1>0. Newest \in SUBSET Archived /\ Archived \in SUBSET Heights
  BY DEF Newest, Archived
<1>1. CASE Newest = {}
  BY <1>0, <1>1, FS_EmptySet, StoreAssumption
<1>2. CASE Newest # {}
  <2>1. PICK m \in Newest : \A k \in Newest : m <= k
    BY <1>0, <1>2, LeastHeight
  <2> DEFINE U == {k \in Archived : k >= m}
  <2>2. Newest \in SUBSET U /\ U \in SUBSET Heights
    BY <1>0, <2>1 DEF Heights
  <2>3. Cardinality(U) <= MaxBlocks
    BY <2>1 DEF Newest
  <2> HIDE DEF U
  <2>4. Cardinality(Newest) <= Cardinality(U) /\ Cardinality(U) \in Nat /\ Cardinality(Newest) \in Nat
    <3>1. IsFiniteSet(U) /\ Cardinality(U) \in Nat
      BY <2>2, HeightsFinite
    <3>2. Cardinality(Newest) <= Cardinality(U)
      BY <2>2, <3>1, FS_Subset
    <3>3. Cardinality(Newest) \in Nat
      BY <1>0, HeightsFinite
    <3> QED BY <3>1, <3>2, <3>3
  <2> QED BY <1>0, <2>3, <2>4, StoreAssumption
<1> QED BY <1>1, <1>2

LEMMA EveryPlaceTaken ==
  ASSUME NEW S \in SUBSET Heights, NEW i \in 1..Cardinality(S)
  PROVE  \E h \in S : Cardinality(Below(S, h)) = i
<1>1. MaxHeight \in Nat /\ S \in SUBSET (0..MaxHeight)
  BY StoreAssumption DEF Heights
<1> QED BY <1>1, PlaceTaken

LEMMA UpwardType ==
  ASSUME archive \in [Heights -> Blocks \cup {None}], NEW S \in SUBSET Archived
  PROVE  Upward(S) \in Seq(Blocks) /\ Len(Upward(S)) = Cardinality(S)
<1>1. S \in SUBSET Heights /\ Cardinality(S) \in Nat
  BY HeightsFinite DEF Archived
<1>2. ASSUME NEW i \in 1..Cardinality(S)
      PROVE  archive[CHOOSE h \in S : Cardinality({k \in S : k <= h}) = i] \in Blocks
  <2>1. \E h \in S : Cardinality({k \in S : k <= h}) = i
    BY <1>1, EveryPlaceTaken DEF Below
  <2> DEFINE c == CHOOSE h \in S : Cardinality({k \in S : k <= h}) = i
  <2>2. c \in S
    BY <2>1
  <2> HIDE DEF c
  <2>3. archive[c] \in Blocks
    BY <2>2 DEF Archived
  <2> QED BY <2>3 DEF c
<1>3. Upward(S) \in [1..Cardinality(S) -> Blocks]
  BY <1>2 DEF Upward
<1> QED BY <1>1, <1>3

ServeInv == IInv /\ Placed /\ BlocksExact /\ ServeTypeOK

LEMMA ServeStepCases ==
  ASSUME [ServeNext]_vars
  PROVE  \/ \E b \in Blocks : Ingest(b)
         \/ clearChainData \/ Refresh \/ AddRecord \/ EvictRecord
         \/ UNCHANGED vars
BY DEF ServeNext, Serve

LEMMA StoreStill ==
  ASSUME IInv, Placed, BlocksExact, UNCHANGED storeVars
  PROVE  IInv' /\ Placed' /\ BlocksExact'
<1>1. Held' = Held /\ Retained' = Retained
  BY DEF storeVars, Held, Retained
<1>2. IInv'
  BY <1>1 DEF IInv, TypeOK, NewestKept, Bounded, storeVars
<1>3. Placed'
  BY <1>1 DEF Placed, storeVars
<1>4. Total(Retained)' = Total(Retained) /\ \A p \in Proposers : Won(p)' = Won(p)
  BY <1>1 DEF Total, Bytes, Won, storeVars
<1> QED BY <1>1, <1>2, <1>3, <1>4 DEF BlocksExact, Won, storeVars

LEMMA EvictStep ==
  ASSUME IInv, Placed, BlocksExact, Evict
  PROVE  IInv' /\ Placed' /\ BlocksExact'
<1>1. CASE EvictOne
  BY <1>1, EvictOneStep, EvictEffect, EvictBlocks
<1>2. CASE EvictDone
  <2>1. IInv'
    BY <1>2, EvictDoneStep
  <2>2. Held' = Held /\ Retained' = Retained /\ UNCHANGED <<blocks, hashed, bytes, proposers>>
    BY <1>2 DEF EvictDone, Held, Retained
  <2>3. Placed'
    BY <2>2 DEF Placed
  <2>4. Total(Retained)' = Total(Retained) /\ \A p \in Proposers : Won(p)' = Won(p)
    BY <2>2 DEF Total, Bytes, Won
  <2> QED BY <2>1, <2>2, <2>3, <2>4 DEF BlocksExact, Won
<1> QED BY <1>1, <1>2 DEF Evict

LEMMA ServeInitInv == ServeInit => ServeInv
<1> SUFFICES ASSUME ServeInit PROVE ServeInv
  OBVIOUS
<1>1. IInv
  BY InitInv DEF ServeInit, Init
<1>2. Held = {} /\ Retained = {}
  BY DEF ServeInit, EmptyStore, Held, Retained
<1>3. Total(Retained) = 0 /\ \A p \in Proposers : Won(p) = {}
  <2>1. Bytes({}) = {}
    BY DEF Bytes
  <2> QED BY <1>2, <2>1, FS_EmptySet DEF Total, Won
<1>4. Placed /\ BlocksExact
  BY <1>2, <1>3, FS_EmptySet DEF ServeInit, EmptyStore, Placed, BlocksExact, Won
<1>5. ServeTypeOK
  <2>1. records = <<>> /\ wipes = 0 /\ archive = [h \in Heights |-> None]
    BY DEF ServeInit
  <2>2. archive \in [Heights -> Blocks \cup {None}]
    BY <2>1
  <2>3. records \in Seq(Blocks) /\ Len(records) <= MaxBlocks
    BY <2>1, StoreAssumption
  <2> QED BY <1>1, <2>1, <2>2, <2>3, ReplicaAssumption DEF ServeTypeOK, IInv
<1> QED BY <1>1, <1>4, <1>5 DEF ServeInv

\* Whatever the ingest process has made of the archive by then, a record that is
\* added has a height the store does not hold.
LEMMA ServeStep == ServeInv /\ [ServeNext]_vars => ServeInv'
<1> SUFFICES ASSUME ServeInv, [ServeNext]_vars PROVE ServeInv'
  OBVIOUS
<1> USE DEF ServeInv
<1>1. CASE \E b \in Blocks : Ingest(b)
  <2> PICK b \in Blocks : Ingest(b)
    BY <1>1
  <2>1. archive' \in [Heights -> Blocks \cup {None}]
    BY DEF Ingest, ServeTypeOK
  <2> QED BY <2>1, StoreStill DEF Ingest, ServeTypeOK, IInv
<1>2. CASE clearChainData
  <2>1. archive' \in [Heights -> Blocks \cup {None}] /\ wipes' \in 0..MaxWipes
    BY <1>2, ReplicaAssumption DEF clearChainData, ServeTypeOK
  <2> QED BY <1>2, <2>1, StoreStill DEF clearChainData, ServeTypeOK, IInv
<1>3. CASE Refresh
  <2>1. records' \in Seq(Blocks) /\ Len(records') <= MaxBlocks
    <3>1. records' = Upward(Newest)
      BY <1>3 DEF Refresh
    <3> QED BY <3>1, NewestBounded, UpwardType DEF ServeTypeOK
  <2> QED BY <1>3, <2>1, StoreStill DEF Refresh, ServeTypeOK, IInv
<1>4. CASE AddRecord
  <2> DEFINE b == Head(records)
  <2>1. b \in Blocks /\ records' \in Seq(Blocks) /\ Len(records') <= MaxBlocks
    <3>1. records \in Seq(Blocks) /\ records # <<>> /\ records' = Tail(records) /\ Len(records) <= MaxBlocks
      BY <1>4 DEF AddRecord, ServeTypeOK
    <3>2. Head(records) \in Blocks /\ Tail(records) \in Seq(Blocks)
          /\ Len(Tail(records)) = Len(records) - 1 /\ Len(records) \in Nat
      BY <3>1, HeadTailProperties, LenProperties
    <3> QED BY <3>1, <3>2, StoreAssumption
  <2>2. UNCHANGED <<archive, wipes>> /\ (Insert(b) \/ UNCHANGED storeVars)
    BY <1>4 DEF AddRecord
  <2> HIDE DEF b
  <2>3. IInv' /\ Placed' /\ BlocksExact'
    BY <2>1, <2>2, StoreStill, InsertStep, InsertEffect, InsertBlocks DEF IInv
  <2> QED BY <2>1, <2>2, <2>3 DEF ServeTypeOK, IInv
<1>5. CASE EvictRecord
  <2>1. Evict /\ UNCHANGED <<archive, records, wipes>>
    BY <1>5 DEF EvictRecord, serveVars
  <2> QED BY <2>1, EvictStep DEF ServeTypeOK, IInv
<1>6. CASE UNCHANGED vars
  <2>1. UNCHANGED storeVars /\ UNCHANGED <<archive, records, wipes>>
    BY <1>6 DEF vars, serveVars
  <2> QED BY <2>1, StoreStill DEF ServeTypeOK, IInv
<1> QED BY <1>1, <1>2, <1>3, <1>4, <1>5, <1>6, ServeStepCases

\* A replica's store keeps its types, its limits and its newest block, and its
\* hashes, bytes and proposers are those of the blocks it holds, whatever order and
\* branch the records of the archive come in (refresh in server.js).
THEOREM ReplicaCorrect == ServeSpec => []ReplicaSound
<1>1. ServeInv => ReplicaSound
  BY DEF ServeInv, IInv, ReplicaSound, StoreSound
<1> QED BY <1>1, ServeInitInv, ServeStep, PTL DEF ServeSpec

-----------------------------------------------------------------------------
(* The tables of transactions, in a store whose blocks are those of one chain *)
(* and come in upward.                                                        *)

OneChain == \E C \in Chains : Retained \subseteq C
LatestHeld == LatestIsNewest /\ (latest # None => latest \in RetainedTxs)
TablesInv == IInv /\ Placed /\ BlocksExact /\ OneChain /\ TxsExact /\ AccountsExact /\ LatestHeld

LEMMA OneBlockPerTx ==
  ASSUME NEW C \in Chains, Retained \subseteq C, NEW b \in C, NEW c \in Retained,
         TxOf[c] = TxOf[b], TxOf[b] # None
  PROVE  c = b
BY ReadsAssumption

LEMMA HeldOf ==
  /\ \A t \in RetainedTxs : t # None /\ \E h \in Held : TxOf[blocks[h]] = t
  /\ \A h \in Held : TxOf[blocks[h]] # None => TxOf[blocks[h]] \in RetainedTxs
BY DEF RetainedTxs, Retained

LEMMA RetainedTxsFinite ==
  ASSUME TypeOK
  PROVE  IsFiniteSet(RetainedTxs) /\ RetainedTxs \subseteq Txs
<1> DEFINE T == {TxOf[b] : b \in Retained}
<1>1. [b \in Retained |-> TxOf[b]] \in Surjection(Retained, T)
  BY DEF Surjection
<1>2. IsFiniteSet(T)
  BY <1>1, RetainedFinite, FS_Surjection
<1>3. RetainedTxs \in SUBSET T
  BY DEF RetainedTxs
<1>4. RetainedTxs \subseteq Txs
  BY RetainedFinite, StoreAssumption DEF RetainedTxs
<1> QED BY <1>2, <1>3, <1>4, FS_Subset

\* A block above the tip, of the same chain, brings a transaction not held yet.
LEMMA InsertTxs ==
  ASSUME TablesInv, NEW C \in Chains, Retained \subseteq C, NEW b \in C, b \in Blocks,
         Insert(b), HeightOf[b] > tip
  PROVE  /\ RetainedTxs' = RetainedTxs \cup ({TxOf[b]} \ {None})
         /\ TxOf[b] \notin RetainedTxs
         /\ \A k \in Held : k < HeightOf[b] /\ TxOf[blocks'[k]] = TxOf[blocks[k]]
         /\ OneChain'
<1>1. /\ Retained' = Retained \cup {b} /\ b \notin Retained
      /\ \A k \in Held : blocks'[k] = blocks[k]
  BY InsertEffect DEF TablesInv, IInv
<1>2. RetainedTxs' = RetainedTxs \cup ({TxOf[b]} \ {None})
  BY <1>1 DEF RetainedTxs
<1>3. TxOf[b] \notin RetainedTxs
  <2> SUFFICES ASSUME TxOf[b] \in RetainedTxs PROVE FALSE
    OBVIOUS
  <2>1. PICK c \in Retained : TxOf[c] = TxOf[b] /\ TxOf[b] # None
    BY DEF RetainedTxs
  <2> QED BY <1>1, <2>1, OneBlockPerTx
<1>4. \A k \in Held : k < HeightOf[b]
  <2>1. tip \in Int /\ HeightOf[b] \in Int /\ \A k \in Held : k \in Int /\ k <= tip
    BY StoreAssumption DEF TablesInv, IInv, TypeOK, NewestKept, Heights, Held
  <2> QED BY <2>1
<1>5. OneChain'
  BY <1>1 DEF OneChain
<1> QED BY <1>1, <1>2, <1>3, <1>4, <1>5

LEMMA EvictTxs ==
  ASSUME TablesInv, EvictOne
  PROVE  LET t == IF blocks[low] = None THEN None ELSE TxOf[blocks[low]] IN
         /\ RetainedTxs' = RetainedTxs \ {t}
         /\ t # None => t \in RetainedTxs /\ low \in Held /\ TxOf[blocks[low]] = t
         /\ OneChain'
<1> DEFINE b == blocks[low]
           t == IF b = None THEN None ELSE TxOf[b]
<1>1. /\ Retained' = Retained \ {b}
      /\ b # None => b \in Retained /\ low \in Held
      /\ b = None => Retained' = Retained
  BY EvictEffect DEF TablesInv
<1>2. PICK C \in Chains : Retained \subseteq C
  BY DEF TablesInv, OneChain
<1>3. t # None => t \in RetainedTxs /\ low \in Held /\ TxOf[blocks[low]] = t
  BY <1>1 DEF RetainedTxs
<1>4. RetainedTxs' = RetainedTxs \ {t}
  <2>1. CASE b = None
    <3>1. RetainedTxs' = RetainedTxs
      BY <1>1, <2>1 DEF RetainedTxs
    <3> QED BY <2>1, <3>1, HeldOf
  <2>2. CASE b # None
    <3>1. \A c \in Retained : c # b /\ TxOf[c] # None => TxOf[c] # TxOf[b]
      BY <1>1, <1>2, <2>2, OneBlockPerTx
    <3> QED BY <1>1, <2>2, <3>1 DEF RetainedTxs
  <2> QED BY <2>1, <2>2
<1>5. OneChain'
  BY <1>1, <1>2 DEF OneChain
<1> QED BY <1>3, <1>4, <1>5

LEMMA InsertTables ==
  ASSUME TablesInv, NEW C \in Chains, Retained \subseteq C, NEW b \in C, b \in Blocks,
         Insert(b), HeightOf[b] > tip
  PROVE  TxsExact' /\ LatestHeld'
<1> DEFINE t == TxOf[b]
           h == HeightOf[b]
<1>1. /\ RetainedTxs' = RetainedTxs \cup ({t} \ {None}) /\ t \notin RetainedTxs
      /\ \A k \in Held : k < h /\ TxOf[blocks'[k]] = TxOf[blocks[k]]
      /\ Held' = Held \cup {h} /\ h \notin Held /\ blocks'[h] = b
  BY InsertTxs, InsertEffect DEF TablesInv, IInv
<1>2. /\ txs' = txs \cup ({t} \ {None}) /\ signed' = IF t = None THEN signed ELSE signed + 1
      /\ latest' = IF t = None THEN latest ELSE t
  BY DEF Insert
<1>3. h \in Nat /\ \A k \in Held : k \in Nat
  BY StoreAssumption DEF Heights, Held
<1> HIDE DEF t, h
<1>4. TxsExact'
  <2>1. IsFiniteSet(RetainedTxs)
    BY RetainedTxsFinite DEF TablesInv, IInv
  <2>2. Cardinality(RetainedTxs \cup {t}) = Cardinality(RetainedTxs) + 1
    BY <1>1, <2>1, FS_AddElement
  <2>3. CASE t = None
    <3>1. RetainedTxs' = RetainedTxs
      BY <1>1, <2>3
    <3> QED BY <1>2, <2>3, <3>1 DEF TxsExact, TablesInv
  <2>4. CASE t # None
    <3>1. RetainedTxs' = RetainedTxs \cup {t} /\ txs' = txs \cup {t}
      BY <1>1, <1>2, <2>4
    <3> QED BY <1>2, <2>2, <2>4, <3>1 DEF TxsExact, TablesInv
  <2> QED BY <2>3, <2>4
<1>5. LatestHeld'
  <2>1. CASE t = None
    <3>1. RetainedTxs' = RetainedTxs /\ latest' = latest
      BY <1>1, <1>2, <2>1
    <3>2. ASSUME NEW i \in Held', NEW k \in Held',
                 TxOf[blocks'[i]] = latest, TxOf[blocks'[k]] # None
          PROVE  k <= i
      <4>1. k \in Held /\ TxOf[blocks[k]] # None
        BY <1>1, <2>1, <3>2 DEF t
      <4>2. latest # None
        BY <4>1, HeldOf DEF TablesInv, LatestHeld, LatestIsNewest
      <4>3. i \in Held /\ TxOf[blocks[i]] = latest
        BY <1>1, <2>1, <3>2, <4>2 DEF t
      <4> QED BY <4>1, <4>3 DEF TablesInv, LatestHeld, LatestIsNewest
    <3> QED BY <3>1, <3>2 DEF TablesInv, LatestHeld, LatestIsNewest
  <2>2. CASE t # None
    <3>1. latest' = t /\ t \in RetainedTxs'
      BY <1>1, <1>2, <2>2
    <3>2. ASSUME NEW i \in Held', NEW k \in Held', TxOf[blocks'[i]] = t
          PROVE  k <= i
      <4>1. i = h
        BY <1>1, <2>2, <3>2, HeldOf
      <4> QED BY <1>1, <1>3, <4>1
    <3> QED BY <2>2, <3>1, <3>2 DEF LatestHeld, LatestIsNewest
  <2> QED BY <2>1, <2>2
<1> QED BY <1>4, <1>5

LEMMA EvictTables ==
  ASSUME TablesInv, EvictOne
  PROVE  TxsExact' /\ LatestHeld'
<1> DEFINE t == IF blocks[low] = None THEN None ELSE TxOf[blocks[low]]
<1>1. /\ RetainedTxs' = RetainedTxs \ {t}
      /\ t # None => t \in RetainedTxs /\ low \in Held /\ TxOf[blocks[low]] = t
  BY EvictTxs
<1>2. /\ txs' = txs \ {t} /\ signed' = IF t = None \/ signed = 0 THEN signed ELSE signed - 1
      /\ latest' = IF latest = t THEN None ELSE latest
  BY DEF EvictOne, LatestAfter
<1>3. Held' = Held \ {low} /\ \A k \in Held' : blocks'[k] = blocks[k]
  BY EvictEffect DEF TablesInv
<1>4. \A k \in Held : low <= k /\ k \in Int /\ low \in Int
  BY StoreAssumption DEF TablesInv, IInv, TypeOK, NewestKept, Held, Heights, Infinity
<1> HIDE DEF t
<1>5. TxsExact'
  <2>1. IsFiniteSet(RetainedTxs) /\ Cardinality(RetainedTxs) \in Nat
    BY RetainedTxsFinite, FS_CardinalityType DEF TablesInv, IInv
  <2>2. Cardinality(RetainedTxs \ {t})
          = IF t \in RetainedTxs THEN Cardinality(RetainedTxs) - 1 ELSE Cardinality(RetainedTxs)
    BY <2>1, FS_RemoveElement
  <2>3. t \in RetainedTxs => Cardinality(RetainedTxs) # 0
    BY <2>1, FS_EmptySet
  <2>4. t = None => t \notin RetainedTxs
    BY HeldOf
  <2> QED BY <1>1, <1>2, <2>1, <2>2, <2>3, <2>4 DEF TxsExact, TablesInv
<1>6. LatestHeld'
  <2>1. CASE t # None /\ latest = t
    <3>1. \A k \in Held : TxOf[blocks[k]] # None => k = low
      BY <1>1, <1>4, <2>1 DEF TablesInv, LatestHeld, LatestIsNewest
    <3>2. RetainedTxs' = {}
      BY <1>1, <2>1, <3>1, HeldOf
    <3>3. latest' = None /\ \A k \in Held' : TxOf[blocks'[k]] = None
      BY <1>2, <1>3, <2>1, <3>1
    <3> QED BY <3>2, <3>3 DEF LatestHeld, LatestIsNewest
  <2>2. CASE latest # t \/ t = None
    <3>1. latest' = latest
      BY <1>2, <2>2
    <3>2. /\ latest = None <=> RetainedTxs' = {}
          /\ latest # None => latest \in RetainedTxs'
      BY <1>1, <2>2, HeldOf DEF TablesInv, LatestHeld, LatestIsNewest
    <3> QED BY <1>3, <3>1, <3>2 DEF TablesInv, LatestHeld, LatestIsNewest
  <2> QED BY <2>1, <2>2
<1> QED BY <1>5, <1>6

\* _cleanAccountIndex, when the ids of the account are dead in front and nowhere else.
LEMMA CleanFrontTail ==
  ASSUME NEW s \in Seq(Txs), NEW live, s # <<>>, s[1] \notin live,
         \A i \in 2..Len(s) : s[i] \in live
  PROVE  /\ CleanFront(s, live) \in Seq(Txs)
         /\ Len(CleanFront(s, live)) = Len(s) - 1
         /\ \A i \in 1..(Len(s) - 1) : CleanFront(s, live)[i] = s[i + 1]
<1> DEFINE at == {i \in 1..Len(s) : s[i] \in live}
<1>1. Len(s) \in Nat /\ Len(s) >= 1
  BY LenProperties, EmptySeq
<1>2. at = 2..Len(s)
  <2>1. ASSUME NEW i \in 1..Len(s), s[i] \in live PROVE i \in 2..Len(s)
    <3>1. i # 1
      BY <2>1
    <3> QED BY <1>1, <3>1
  <2>2. 2..Len(s) \subseteq 1..Len(s)
    BY <1>1
  <2> QED BY <2>1, <2>2
<1>3. CASE Len(s) = 1
  <2>1. at = {}
    BY <1>2, <1>3
  <2>2. CleanFront(s, live) = <<>>
    BY <2>1 DEF CleanFront
  <2> QED BY <1>3, <2>2, EmptySeq
<1>4. CASE Len(s) > 1
  <2> DEFINE first == CHOOSE i \in at : \A j \in at : i <= j
  <2>1. first = 2
    <3>1. 2 \in at /\ \A j \in at : 2 <= j
      BY <1>1, <1>2, <1>4
    <3>2. first \in at /\ \A j \in at : first <= j
      BY <3>1
    <3>3. first \in 2..Len(s) /\ first <= 2
      BY <1>2, <3>1, <3>2
    <3> QED BY <1>1, <3>3
  <2>2. CleanFront(s, live) = SubSeq(s, 2, Len(s))
    <3>1. at # {}
      BY <1>1, <1>2, <1>4
    <3>2. CleanFront(s, live) = IF at = {} THEN <<>> ELSE SubSeq(s, first, Len(s))
      BY Zenon DEF CleanFront
    <3> QED BY <2>1, <3>1, <3>2
  <2> HIDE DEF first, at
  <2>3. /\ SubSeq(s, 2, Len(s)) \in Seq(Txs) /\ Len(SubSeq(s, 2, Len(s))) = Len(s) - 1
        /\ \A i \in 1..(Len(s) - 1) : SubSeq(s, 2, Len(s))[i] = s[i + 1]
    BY <1>1, <1>4
  <2> QED BY <2>2, <2>3
<1>5. Len(s) = 1 \/ Len(s) > 1
  <2> DEFINE n == Len(s)
  <2>1. n \in Nat /\ n >= 1
    BY <1>1
  <2> HIDE DEF n
  <2>2. n = 1 \/ n > 1
    BY <2>1
  <2> QED BY <2>2 DEF n
<1> QED BY <1>3, <1>4, <1>5, Zenon

LEMMA InsertAccounts ==
  ASSUME TablesInv, NEW C \in Chains, Retained \subseteq C, NEW b \in C, b \in Blocks,
         Insert(b), HeightOf[b] > tip
  PROVE  AccountsExact'
<1> DEFINE t == TxOf[b]
           h == HeightOf[b]
<1>1. /\ RetainedTxs' = RetainedTxs \cup ({t} \ {None}) /\ t \notin RetainedTxs
      /\ \A k \in Held : k < h /\ TxOf[blocks'[k]] = TxOf[blocks[k]]
      /\ Held' = Held \cup {h} /\ h \notin Held /\ blocks'[h] = b
  BY InsertTxs, InsertEffect DEF TablesInv, IInv
<1>2. \A k \in Held : TxOf[blocks[k]] # None => TxOf[blocks[k]] \in RetainedTxs
  BY HeldOf
<1>3. t \in Txs \cup {None}
  BY StoreAssumption
<1> SUFFICES ASSUME NEW a \in Accounts
    PROVE  /\ {ids'[a][i] : i \in DOMAIN ids'[a]} = {u \in RetainedTxs' : a \in AccountsOf[u]}
           /\ \A i, j \in DOMAIN ids'[a], k, l \in Held' :
                i < j /\ TxOf[blocks'[k]] = ids'[a][i] /\ TxOf[blocks'[l]] = ids'[a][j] => k < l
  BY DEF AccountsExact
<1>4. /\ {ids[a][i] : i \in DOMAIN ids[a]} = {u \in RetainedTxs : a \in AccountsOf[u]}
      /\ \A i, j \in DOMAIN ids[a], k, l \in Held :
           i < j /\ TxOf[blocks[k]] = ids[a][i] /\ TxOf[blocks[l]] = ids[a][j] => k < l
      /\ ids[a] \in Seq(Txs)
  BY DEF TablesInv, IInv, TypeOK, AccountsExact
<1>5. /\ \A i \in DOMAIN ids[a] : ids[a][i] \in RetainedTxs /\ ids[a][i] # None
      /\ \A u \in RetainedTxs : a \in AccountsOf[u] => \E i \in DOMAIN ids[a] : ids[a][i] = u
  <2>1. \A i \in DOMAIN ids[a] : ids[a][i] \in {u \in RetainedTxs : a \in AccountsOf[u]}
    BY <1>4
  <2>2. \A u \in {u \in RetainedTxs : a \in AccountsOf[u]} : \E i \in DOMAIN ids[a] : ids[a][i] = u
    BY <1>4
  <2> QED BY <2>1, <2>2, HeldOf
<1>6. ids'[a] = IF t # None /\ a \in AccountsOf[t] THEN Append(ids[a], t) ELSE ids[a]
  BY DEF Insert
<1> HIDE DEF t, h
<1>7. ASSUME NEW k \in Held', NEW i \in DOMAIN ids[a], TxOf[blocks'[k]] = ids[a][i]
      PROVE  k \in Held /\ TxOf[blocks[k]] = ids[a][i]
  BY <1>1, <1>5, <1>7 DEF t
<1>8. CASE ~ (t # None /\ a \in AccountsOf[t])
  <2>1. ids'[a] = ids[a]
    BY <1>6, <1>8
  <2>2. {u \in RetainedTxs' : a \in AccountsOf[u]} = {u \in RetainedTxs : a \in AccountsOf[u]}
    BY <1>1, <1>8
  <2> QED BY <1>4, <1>7, <2>1, <2>2
<1>9. CASE t # None /\ a \in AccountsOf[t]
  <2> DEFINE n == Len(ids[a])
  <2>1. /\ ids'[a] = Append(ids[a], t) /\ n \in Nat
        /\ DOMAIN ids[a] = 1..n /\ DOMAIN ids'[a] = 1..(n + 1)
        /\ \A i \in 1..n : ids'[a][i] = ids[a][i]
        /\ ids'[a][n + 1] = t
    BY <1>3, <1>4, <1>6, <1>9, AppendProperties, LenProperties
  <2> HIDE DEF n
  <2>2. \A i \in DOMAIN ids'[a] : i \in DOMAIN ids[a] \/ i = n + 1
    BY <2>1
  <2>3. {ids'[a][i] : i \in DOMAIN ids'[a]} = {u \in RetainedTxs' : a \in AccountsOf[u]}
    <3>1. \A i \in DOMAIN ids'[a] : ids'[a][i] \in RetainedTxs' /\ a \in AccountsOf[ids'[a][i]]
      BY <1>1, <1>4, <1>9, <2>1, <2>2
    <3>2. ASSUME NEW u \in RetainedTxs', a \in AccountsOf[u]
          PROVE  \E i \in DOMAIN ids'[a] : ids'[a][i] = u
      <4>1. CASE u = t
        BY <2>1, <4>1
      <4>2. CASE u \in RetainedTxs
        <5>1. PICK i \in DOMAIN ids[a] : ids[a][i] = u
          BY <1>5, <3>2, <4>2
        <5>2. i \in 1..n /\ i \in 1..(n + 1)
          BY <2>1, <5>1
        <5> QED BY <2>1, <5>1, <5>2
      <4> QED BY <1>1, <4>1, <4>2
    <3> QED BY <3>1, <3>2
  <2>4. ASSUME NEW i \in DOMAIN ids'[a], NEW j \in DOMAIN ids'[a], NEW k \in Held', NEW l \in Held',
               i < j, TxOf[blocks'[k]] = ids'[a][i], TxOf[blocks'[l]] = ids'[a][j]
        PROVE  k < l
    <3>1. i \in DOMAIN ids[a] /\ ids'[a][i] = ids[a][i]
      BY <2>1, <2>4
    <3>2. k \in Held /\ TxOf[blocks[k]] = ids[a][i]
      BY <1>7, <2>4, <3>1
    <3>3. CASE j = n + 1
      <4>1. l = h
        BY <1>1, <1>2, <1>9, <2>1, <2>4, <3>3
      <4> QED BY <1>1, <3>2, <4>1
    <3>4. CASE j \in DOMAIN ids[a]
      <4>1. ids'[a][j] = ids[a][j]
        BY <2>1, <3>4
      <4>2. l \in Held /\ TxOf[blocks[l]] = ids[a][j]
        BY <1>7, <2>4, <3>4, <4>1
      <4> QED BY <1>4, <2>4, <3>1, <3>2, <3>4, <4>2
    <3> QED BY <2>2, <3>3, <3>4
  <2> QED BY <2>3, <2>4
<1> QED BY <1>8, <1>9

\* The transaction of the lowest block is the first of each of its accounts.
LEMMA EvictAccounts ==
  ASSUME TablesInv, EvictOne
  PROVE  AccountsExact'
<1> DEFINE t == IF blocks[low] = None THEN None ELSE TxOf[blocks[low]]
<1>1. /\ RetainedTxs' = RetainedTxs \ {t}
      /\ t # None => t \in RetainedTxs /\ low \in Held /\ TxOf[blocks[low]] = t
  BY EvictTxs
<1>2. Held' = Held \ {low} /\ \A k \in Held' : blocks'[k] = blocks[k]
  BY EvictEffect DEF TablesInv
<1>3. \A k \in Held : low <= k /\ k \in Int /\ low \in Int
  BY StoreAssumption DEF TablesInv, IInv, TypeOK, NewestKept, Held, Heights, Infinity
<1> SUFFICES ASSUME NEW a \in Accounts
    PROVE  /\ {ids'[a][i] : i \in DOMAIN ids'[a]} = {u \in RetainedTxs' : a \in AccountsOf[u]}
           /\ \A i, j \in DOMAIN ids'[a], k, l \in Held' :
                i < j /\ TxOf[blocks'[k]] = ids'[a][i] /\ TxOf[blocks'[l]] = ids'[a][j] => k < l
  BY DEF AccountsExact
<1>4. /\ {ids[a][i] : i \in DOMAIN ids[a]} = {u \in RetainedTxs : a \in AccountsOf[u]}
      /\ \A i, j \in DOMAIN ids[a], k, l \in Held :
           i < j /\ TxOf[blocks[k]] = ids[a][i] /\ TxOf[blocks[l]] = ids[a][j] => k < l
      /\ ids[a] \in Seq(Txs) /\ txs = RetainedTxs
  BY DEF TablesInv, IInv, TypeOK, AccountsExact, TxsExact
<1>5. ids'[a] = IF t # None /\ a \in AccountsOf[t] THEN CleanFront(ids[a], RetainedTxs \ {t}) ELSE ids[a]
  BY <1>4 DEF EvictOne
<1>6. \A u \in RetainedTxs : u # None /\ \E k \in Held : TxOf[blocks[k]] = u
  BY HeldOf
<1> HIDE DEF t
<1>7. CASE ~ (t # None /\ a \in AccountsOf[t])
  <2>1. ids'[a] = ids[a]
    BY <1>5, <1>7
  <2>2. {u \in RetainedTxs' : a \in AccountsOf[u]} = {u \in RetainedTxs : a \in AccountsOf[u]}
    BY <1>1, <1>6, <1>7
  <2> QED BY <1>2, <1>4, <2>1, <2>2
<1>8. CASE t # None /\ a \in AccountsOf[t]
  <2> DEFINE s == ids[a]
             n == Len(s)
  <2>1. n \in Nat /\ DOMAIN s = 1..n
    BY <1>4, LenProperties
  <2>2. \A i \in 1..n : s[i] \in RetainedTxs
    BY <1>4, <2>1
  <2>3. PICK f \in 1..n : s[f] = t
    BY <1>1, <1>4, <1>8, <2>1
  <2>4. \A i, j \in 1..n, k, l \in Held : i < j /\ TxOf[blocks[k]] = s[i] /\ TxOf[blocks[l]] = s[j] => k < l
    BY <1>4, <2>1
  <2>5. low \in Held /\ TxOf[blocks[low]] = t
    BY <1>1, <1>8
  <2> HIDE DEF s, n
  <2>6. \A i \in 1..n : i >= f
    <3> SUFFICES ASSUME NEW i \in 1..n, i < f PROVE FALSE
      BY <2>1
    <3>1. PICK k \in Held : TxOf[blocks[k]] = s[i]
      BY <1>6, <2>2
    <3>2. k < low
      BY <2>3, <2>4, <2>5, <3>1
    <3> QED BY <1>3, <3>1, <3>2
  <2>7. f = 1 /\ n >= 1
    BY <2>1, <2>3, <2>6
  <2>8. \A i \in 2..n : s[i] \in RetainedTxs \ {t}
    <3> SUFFICES ASSUME NEW i \in 2..n, s[i] = t PROVE FALSE
      BY <2>1, <2>2
    <3>1. i \in 1..n /\ 1 \in 1..n /\ 1 < i
      BY <2>1
    <3>2. low < low
      BY <2>3, <2>4, <2>5, <2>7, <3>1
    <3> QED BY <1>3, <2>5, <3>2
  <2> DEFINE r == ids'[a]
  <2>9. r \in Seq(Txs) /\ Len(r) = n - 1 /\ \A i \in 1..(n - 1) : r[i] = s[i + 1]
    <3>1. r = CleanFront(s, RetainedTxs \ {t})
      BY <1>5, <1>8 DEF s
    <3>2. s \in Seq(Txs) /\ s # <<>> /\ s[1] \notin RetainedTxs \ {t}
      BY <1>4, <2>3, <2>7, EmptySeq DEF s, n
    <3> HIDE DEF r
    <3> QED BY <2>8, <3>1, <3>2, CleanFrontTail DEF n
  <2>10. DOMAIN r = 1..(n - 1) /\ \A i \in 1..(n - 1) : i + 1 \in 2..n /\ i + 1 \in 1..n
    BY <2>1, <2>9, LenProperties
  <2> HIDE DEF r
  <2>11. {r[i] : i \in DOMAIN r} = {u \in RetainedTxs \ {t} : a \in AccountsOf[u]}
    <3>1. \A i \in DOMAIN r : r[i] \in RetainedTxs \ {t} /\ a \in AccountsOf[r[i]]
      <4> TAKE i \in DOMAIN r
      <4>1. r[i] = s[i + 1] /\ i + 1 \in 2..n /\ i + 1 \in 1..n
        BY <2>9, <2>10
      <4>2. a \in AccountsOf[s[i + 1]]
        BY <1>4, <2>1, <4>1 DEF s
      <4> QED BY <2>8, <4>1, <4>2
    <3>2. ASSUME NEW u \in RetainedTxs \ {t}, a \in AccountsOf[u]
          PROVE  \E i \in DOMAIN r : r[i] = u
      <4>1. PICK j \in 1..n : s[j] = u
        BY <1>4, <2>1, <3>2 DEF s
      <4>2. j # 1
        BY <2>3, <2>7, <3>2, <4>1
      <4>3. j - 1 \in 1..(n - 1) /\ (j - 1) + 1 = j
        BY <2>1, <4>1, <4>2
      <4>4. r[j - 1] = u
        BY <2>9, <4>1, <4>3
      <4> QED BY <2>10, <4>3, <4>4
    <3> QED BY <3>1, <3>2
  <2>12. ASSUME NEW i \in DOMAIN r, NEW j \in DOMAIN r, NEW k \in Held', NEW l \in Held',
                i < j, TxOf[blocks'[k]] = r[i], TxOf[blocks'[l]] = r[j]
         PROVE  k < l
    <3>1. i + 1 \in 1..n /\ j + 1 \in 1..n /\ i + 1 < j + 1 /\ r[i] = s[i + 1] /\ r[j] = s[j + 1]
      BY <2>1, <2>9, <2>10, <2>12
    <3>2. k \in Held /\ l \in Held /\ TxOf[blocks[k]] = s[i + 1] /\ TxOf[blocks[l]] = s[j + 1]
      BY <1>2, <2>12, <3>1
    <3> QED BY <2>4, <3>1, <3>2
  <2> QED BY <1>1, <2>11, <2>12 DEF r
<1> QED BY <1>7, <1>8

-----------------------------------------------------------------------------
(* The readers' caches: the invariant of the tables, of the memo and of the   *)
(* pages, under a node that changes its branch.                               *)

\* A block that is held already is added again as it is: the tip is the highest.
LEMMA CommitCases ==
  ASSUME TablesInv, NEW b \in Blocks, Commit(b)
  PROVE  UNCHANGED storeVars \/ (Insert(b) /\ HeightOf[b] > tip /\ tip' > tip)
<1>1. HeightOf[b] \in Heights /\ HeightOf[b] \in Int /\ tip \in Int /\ b # None
  BY StoreAssumption DEF TablesInv, IInv, TypeOK, Heights
<1>2. HeightOf[b] > tip => HeightOf[b] \notin Held
  BY <1>1 DEF TablesInv, IInv, NewestKept
<1>3. CASE Replace(b)
  <2>1. HeightOf[b] \in Held /\ blocks[HeightOf[b]] = b
    BY <1>1, <1>2, <1>3 DEF Commit, Replace, Held
  <2>2. blocks' = blocks
    BY <1>3, <2>1 DEF Replace, TablesInv, IInv, TypeOK
  <2>3. b \in hashed
    BY <2>1 DEF TablesInv, BlocksExact, Retained
  <2>4. hashed' = hashed
    BY <1>3, <2>3 DEF Replace
  <2> QED BY <1>3, <2>2, <2>4 DEF Replace, storeVars
<1>4. CASE Insert(b)
  <2>1. HeightOf[b] > tip
    BY <1>1, <1>4 DEF Commit, Insert
  <2> QED BY <1>1, <1>4, <2>1 DEF Insert
<1> QED BY <1>3, <1>4 DEF Commit, AddBlock

LEMMA TablesStill ==
  ASSUME TablesInv, UNCHANGED storeVars
  PROVE  TablesInv' /\ Held' = Held /\ Retained' = Retained
<1>1. Held' = Held /\ Retained' = Retained /\ RetainedTxs' = RetainedTxs
  BY DEF storeVars, Held, Retained, RetainedTxs
<1>2. IInv' /\ Placed' /\ BlocksExact'
  BY StoreStill DEF TablesInv
<1>3. OneChain' /\ TxsExact' /\ LatestHeld'
  BY <1>1 DEF TablesInv, OneChain, TxsExact, LatestHeld, LatestIsNewest, storeVars
<1>4. AccountsExact'
  BY <1>1 DEF TablesInv, AccountsExact, storeVars
<1> QED BY <1>1, <1>2, <1>3, <1>4 DEF TablesInv

LEMMA TablesInsert ==
  ASSUME TablesInv, NEW C \in Chains, Retained \subseteq C, NEW b \in C, Insert(b), HeightOf[b] > tip
  PROVE  TablesInv' /\ Retained' = Retained \cup {b}
<1>1. b \in Blocks
  BY ReadsAssumption
<1>2. IInv' /\ Placed' /\ BlocksExact' /\ Retained' = Retained \cup {b}
  BY <1>1, InsertStep, InsertEffect, InsertBlocks DEF TablesInv, IInv
<1>3. OneChain'
  BY <1>1, InsertTxs
<1>4. TxsExact' /\ LatestHeld'
  BY <1>1, InsertTables
<1>5. AccountsExact'
  BY <1>1, InsertAccounts
<1> QED BY <1>2, <1>3, <1>4, <1>5 DEF TablesInv

LEMMA TablesEvict ==
  ASSUME TablesInv, Evict
  PROVE  TablesInv' /\ Held' \subseteq Held /\ Retained' \subseteq Retained
<1>1. IInv' /\ Placed' /\ BlocksExact'
  BY EvictStep DEF TablesInv
<1>2. CASE EvictOne
  <2>1. Held' \subseteq Held /\ Retained' \subseteq Retained
    BY <1>2, EvictEffect DEF TablesInv
  <2>2. OneChain'
    BY <1>2, EvictTxs
  <2>3. TxsExact' /\ LatestHeld'
    BY <1>2, EvictTables
  <2>4. AccountsExact'
    BY <1>2, EvictAccounts
  <2> QED BY <1>1, <2>1, <2>2, <2>3, <2>4 DEF TablesInv
<1>3. CASE EvictDone
  <2>1. Held' = Held /\ Retained' = Retained /\ RetainedTxs' = RetainedTxs
        /\ UNCHANGED <<blocks, txs, signed, latest, ids>>
    BY <1>3 DEF EvictDone, Held, Retained, RetainedTxs
  <2>2. OneChain' /\ TxsExact' /\ LatestHeld'
    BY <2>1 DEF TablesInv, OneChain, TxsExact, LatestHeld, LatestIsNewest
  <2>3. AccountsExact'
    BY <2>1 DEF TablesInv, AccountsExact
  <2> QED BY <1>1, <2>1, <2>2, <2>3 DEF TablesInv
<1> QED BY <1>2, <1>3 DEF Evict

\* With no block, every table is empty.
LEMMA TablesEmpty ==
  ASSUME Chains # {}, IInv, Placed, BlocksExact, Held = {}, txs = {}, signed = 0, latest = None,
         ids = [a \in Accounts |-> <<>>]
  PROVE  TablesInv
<1>1. Retained = {} /\ RetainedTxs = {}
  BY DEF Retained, RetainedTxs
<1>2. Cardinality({}) = 0
  BY FS_EmptySet
<1>3. OneChain /\ TxsExact /\ LatestHeld
  BY <1>1, <1>2 DEF OneChain, TxsExact, LatestHeld, LatestIsNewest
<1>4. AccountsExact
  <2>1. \A a \in Accounts : ids[a] = <<>> /\ DOMAIN ids[a] = {}
    BY EmptySeq
  <2> QED BY <1>1, <2>1 DEF AccountsExact
<1> QED BY <1>3, <1>4 DEF TablesInv

LEMMA TablesReset ==
  ASSUME TablesInv, Reset
  PROVE  TablesInv' /\ Held' = {} /\ Retained' = {}
<1>1. IInv' /\ Held' = {} /\ Retained' = {} /\ Placed' /\ BlocksExact'
  BY ResetStep, EmptyBlocks DEF TablesInv, Reset
<1>2. RetainedTxs' = {}
  BY <1>1 DEF RetainedTxs
<1>3. Cardinality({}) = 0
  BY FS_EmptySet
<1>4. OneChain' /\ TxsExact' /\ LatestHeld'
  BY <1>1, <1>2, <1>3 DEF TablesInv, OneChain, TxsExact, LatestHeld, LatestIsNewest, Reset
<1>5. AccountsExact'
  <2>1. \A a \in Accounts : ids'[a] = <<>> /\ DOMAIN ids'[a] = {}
    BY EmptySeq DEF Reset
  <2> QED BY <1>2, <2>1 DEF AccountsExact
<1> QED BY <1>1, <1>4, <1>5 DEF TablesInv

\* A page under way: the heights left lead down to its lowest one.
Rows == {Row(b, t) : b \in Blocks, t \in Heights \cup {-1}}
Pages == [key : (Heights \cup {-1}) \X Heights, tip : Heights \cup {-1}, start : Heights,
          rows : Seq(Rows), left : Seq(Heights), asked : BOOLEAN, clean : BOOLEAN]
Lowest(p) == Larger(0, p.start - PageLimit + 1)
Passed(p) == {h \in Heights : Lowest(p) + Len(p.left) <= h /\ h <= p.start}

Laid(p) ==
  /\ p \in Pages /\ p.key = <<p.tip, p.start>>
  /\ \A i \in 1..Len(p.left) : p.left[i] = Lowest(p) + Len(p.left) - i
  /\ Len(p.left) <= p.start - Lowest(p) + 1

\* The rows of the heights passed are those of the branch, none of the kept left out
\* as long as the tip is the page's own.
Honest(p, t, branch, kept) ==
  p.clean =>
    /\ p.tip <= t
    /\ \A i \in DOMAIN p.rows :
         /\ p.rows[i] = Row(p.rows[i].block, p.tip)
         /\ p.rows[i].block \in branch /\ HeightOf[p.rows[i].block] \in Passed(p)
    /\ \A i, j \in DOMAIN p.rows :
         i < j => HeightOf[p.rows[j].block] < HeightOf[p.rows[i].block]
    /\ p.tip = t => \A b \in branch \cap kept :
                      HeightOf[b] \in Passed(p) => \E i \in DOMAIN p.rows : p.rows[i].block = b

LoadInv ==
  load # None =>
    /\ Laid(load) /\ Honest(load, tip, node, Retained)
    /\ load.asked => load.left # <<>>
    /\ load.clean => settled
    /\ load.clean /\ load.asked /\ load.tip = tip => Head(load.left) \notin Held
HistoryInv ==
  \A k \in DOMAIN history : /\ Laid(history[k]) /\ Honest(history[k], tip, node, Retained)
                            /\ history[k].key = k /\ history[k].left = <<>>
MemoInv == statsCache # None => ~ evicting /\ statsCache = StatsNow
ReadsInv == TablesInv /\ node \in Chains /\ MemoInv /\ LoadInv /\ HistoryInv

LEMMA RowFields ==
  ASSUME NEW b, NEW t
  PROVE  Row(b, t).block = b /\ Row(b, t).final = finalAtDepth(t, HeightOf[b])
BY DEF Row

\* A page stays right while the store loses blocks, and when its tip moves on.
LEMMA HonestStill ==
  ASSUME NEW p, NEW t \in Int, NEW u \in Int, NEW branch, NEW kept, NEW left,
         p.tip \in Int, Honest(p, t, branch, kept),
         u > t \/ (u = t /\ left \subseteq kept)
  PROVE  Honest(p, u, branch, left)
BY DEF Honest

LEMMA SoiledPage ==
  ASSUME NEW p, Laid(p)
  PROVE  /\ Laid(Soiled(p)) /\ ~ Soiled(p).clean
         /\ Soiled(p).left = p.left /\ Soiled(p).asked = p.asked /\ Soiled(p).key = p.key
         /\ \A t, branch, kept : Honest(Soiled(p), t, branch, kept)
<1> DEFINE q == Soiled(p)
<1>1. q \in Pages /\ q.left = p.left /\ q.asked = p.asked /\ q.key = p.key /\ ~ q.clean
      /\ q.start = p.start /\ q.tip = p.tip
  BY EmptySeq DEF Soiled, Laid, Pages
<1> HIDE DEF q
<1>2. Laid(q)
  BY <1>1 DEF Laid, Lowest
<1> QED BY <1>1, <1>2 DEF Honest, q

\* A fresh page has all its heights before it.
LEMMA StartType == tip \in Heights \cup {-1} => \A before \in Heights : Start(before) \in Heights
BY StoreAssumption DEF Start, Larger, Smaller, Heights

LEMMA FreshPage ==
  ASSUME NEW t \in Heights \cup {-1}, NEW start \in Heights, NEW clean \in BOOLEAN, NEW branch, NEW kept
  PROVE  LET p == [key |-> <<t, start>>, tip |-> t, start |-> start, rows |-> <<>>,
                   left |-> Down(start, Larger(0, start - PageLimit + 1)),
                   asked |-> FALSE, clean |-> clean]
         IN  Laid(p) /\ Honest(p, t, branch, kept)
<1> DEFINE to == Larger(0, start - PageLimit + 1)
           d == Down(start, to)
           n == start - to + 1
           p == [key |-> <<t, start>>, tip |-> t, start |-> start, rows |-> <<>>,
                 left |-> d, asked |-> FALSE, clean |-> clean]
<1>1. to \in Nat /\ start \in Nat /\ to <= start /\ n \in Nat /\ n >= 1
  BY StoreAssumption, ReadsAssumption DEF Larger, Heights
<1>2. d = [i \in 1..n |-> start - i + 1]
  BY <1>1 DEF Down, Larger
<1>3. \A i \in 1..n : start - i + 1 \in Heights /\ start - i + 1 = to + n - i
  BY <1>1, StoreAssumption DEF Heights
<1> HIDE DEF d, n, to
<1>4. d \in Seq(Heights) /\ Len(d) = n /\ \A i \in 1..n : d[i] = to + n - i
  BY <1>1, <1>2, <1>3
<1>5. p \in Pages
  BY <1>4, EmptySeq DEF Pages
<1>6. /\ p.key = <<t, start>> /\ p.tip = t /\ p.start = start /\ p.rows = <<>>
      /\ p.left = d /\ p.clean = clean
  OBVIOUS
<1> HIDE DEF p
<1>7. Lowest(p) = to
  BY <1>6 DEF Lowest, to
<1>8. Laid(p)
  <2>1. Len(p.left) = n /\ n <= p.start - Lowest(p) + 1
    BY <1>1, <1>4, <1>6, <1>7 DEF n
  <2>2. \A i \in 1..n : p.left[i] = Lowest(p) + n - i
    BY <1>4, <1>6, <1>7
  <2> QED BY <1>5, <1>6, <2>1, <2>2 DEF Laid
<1>9. Passed(p) = {}
  <2>1. Lowest(p) + Len(p.left) = start + 1
    BY <1>1, <1>4, <1>6, <1>7 DEF n
  <2> QED BY <1>6, <2>1 DEF Passed, Heights
<1>10. Honest(p, t, branch, kept)
  <2>1. DOMAIN p.rows = {} /\ p.tip <= t
    BY <1>6, EmptySeq, StoreAssumption DEF Heights
  <2> QED BY <1>9, <2>1 DEF Honest
<1> QED BY <1>8, <1>10 DEF p, d, to

Passing(p, rows) == [p EXCEPT !.rows = IF p.clean THEN @ \o rows ELSE @,
                              !.left = Tail(@), !.asked = FALSE]

\* A height passed: with its row, or with none where the branch or the store has none.
LEMMA PagePassed ==
  ASSUME NEW p \in Pages, NEW t \in Int, NEW branch, NEW kept,
         Laid(p), Honest(p, t, branch, kept), p.left # <<>>,
         branch \subseteq Blocks,
         \A b, c \in branch : HeightOf[b] = HeightOf[c] => b = c,
         NEW rows,
         \/ \E b \in Blocks : /\ HeightOf[b] = Head(p.left) /\ rows = <<Row(b, p.tip)>>
                              /\ p.clean => b \in branch
         \/ /\ rows = <<>>
            /\ p.clean /\ p.tip = t => \A b \in branch \cap kept : HeightOf[b] # Head(p.left)
  PROVE  Laid(Passing(p, rows)) /\ Honest(Passing(p, rows), t, branch, kept)
<1> DEFINE q == Passing(p, rows)
           h == Head(p.left)
           n == Len(p.left)
           lo == Lowest(p)
<1>1. /\ n \in Nat /\ n >= 1 /\ h \in Heights /\ Tail(p.left) \in Seq(Heights)
      /\ Len(Tail(p.left)) = n - 1 /\ h = p.left[1]
      /\ \A i \in 1..(n - 1) : Tail(p.left)[i] = p.left[i + 1]
  <2>1. p.left \in Seq(Heights)
    BY DEF Pages
  <2> QED BY <2>1, HeadTailProperties, LenProperties, EmptySeq
<1>2. lo \in Nat /\ p.start \in Nat /\ p.tip \in Heights \cup {-1} /\ p.rows \in Seq(Rows)
  BY StoreAssumption, ReadsAssumption DEF Lowest, Larger, Pages, Heights
<1>3. h = lo + n - 1 /\ h <= p.start
  BY <1>1, <1>2 DEF Laid
<1>4. /\ q.key = p.key /\ q.tip = p.tip /\ q.start = p.start /\ q.asked = FALSE /\ q.clean = p.clean
      /\ q.left = Tail(p.left) /\ q.rows = IF p.clean THEN p.rows \o rows ELSE p.rows
  BY DEF Pages, Passing
<1>5. rows \in Seq(Rows) /\ p.rows \o rows \in Seq(Rows)
  <2>1. rows = <<>> => rows \in Seq(Rows)
    BY EmptySeq
  <2>2. ASSUME NEW b \in Blocks, rows = <<Row(b, p.tip)>>
        PROVE  rows \in Seq(Rows)
    <3>1. Row(b, p.tip) \in Rows
      BY <1>2 DEF Rows
    <3> QED BY <2>2, <3>1
  <2>3. rows \in Seq(Rows)
    BY <2>1, <2>2
  <2> QED BY <1>2, <2>3, ConcatProperties
<1>6. q \in Pages
  BY <1>1, <1>5 DEF Pages, Passing
<1>7. Lowest(q) = lo
  BY <1>4 DEF Lowest
<1> HIDE DEF h, n, lo, q
<1>8. Laid(q)
  <2>1. \A i \in 1..(n - 1) : Tail(p.left)[i] = lo + (n - 1) - i
    <3> SUFFICES ASSUME NEW i \in 1..(n - 1) PROVE Tail(p.left)[i] = lo + (n - 1) - i
      OBVIOUS
    <3>1. i + 1 \in 1..n
      BY <1>1
    <3>2. p.left[i + 1] = lo + n - (i + 1)
      BY <3>1 DEF Laid, lo, n
    <3> QED BY <1>1, <1>2, <3>2
  <2>2. n <= p.start - lo + 1
    BY DEF Laid, n, lo
  <2>3. n - 1 <= p.start - lo + 1
    BY <1>1, <1>2, <2>2
  <2>4. q.key = <<q.tip, q.start>>
    BY <1>4 DEF Laid
  <2> QED BY <1>1, <1>4, <1>6, <1>7, <2>1, <2>3, <2>4 DEF Laid
<1>9. Passed(q) = Passed(p) \cup {h} /\ \A k \in Passed(p) : h < k
  <2>1. Passed(q) = {k \in Heights : lo + (n - 1) <= k /\ k <= p.start}
    BY <1>1, <1>4, <1>7 DEF Passed
  <2>2. Passed(p) = {k \in Heights : lo + n <= k /\ k <= p.start}
    BY DEF Passed, lo, n
  <2>3. \A k \in Heights : k \in Int
    BY StoreAssumption DEF Heights
  <2>4. \A k \in Heights : lo + (n - 1) <= k /\ k <= p.start <=> (lo + n <= k /\ k <= p.start) \/ k = h
    BY <1>1, <1>2, <1>3, <2>3
  <2>5. \A k \in Heights : lo + n <= k => h < k
    BY <1>1, <1>2, <1>3, <2>3
  <2> QED BY <1>1, <2>1, <2>2, <2>4, <2>5
<1>10. CASE ~ p.clean
  BY <1>4, <1>8, <1>10 DEF Honest, q
<1>11. CASE p.clean /\ \E b \in Blocks : HeightOf[b] = h /\ rows = <<Row(b, p.tip)>> /\ b \in branch
  <2> PICK b \in Blocks : HeightOf[b] = h /\ rows = <<Row(b, p.tip)>> /\ b \in branch
    BY <1>11
  <2> DEFINE m == Len(p.rows)
  <2>1. q.rows = Append(p.rows, Row(b, p.tip))
    BY <1>2, <1>4, <1>11
  <2>2. Row(b, p.tip) \in Rows
    BY <1>2 DEF Rows
  <2>3. /\ m \in Nat /\ DOMAIN p.rows = 1..m /\ DOMAIN q.rows = 1..(m + 1)
        /\ q.rows[m + 1] = Row(b, p.tip) /\ \A i \in 1..m : q.rows[i] = p.rows[i]
    BY <1>2, <2>1, <2>2, AppendProperties, LenProperties
  <2> HIDE DEF m
  <2>4. Row(b, p.tip).block = b
    BY RowFields
  <2>5. \A i \in 1..(m + 1) : i \in 1..m \/ i = m + 1
    BY <2>3
  <2>6. p.tip <= t
    BY <1>11 DEF Honest
  <2>7. \A i \in 1..m : /\ p.rows[i] = Row(p.rows[i].block, p.tip)
                        /\ p.rows[i].block \in branch /\ HeightOf[p.rows[i].block] \in Passed(p)
    BY <1>11, <2>3 DEF Honest
  <2>8. \A i, j \in 1..m : i < j => HeightOf[p.rows[j].block] < HeightOf[p.rows[i].block]
    BY <1>11, <2>3 DEF Honest
  <2>9. p.tip = t => \A c \in branch \cap kept :
                       HeightOf[c] \in Passed(p) => \E i \in 1..m : p.rows[i].block = c
    BY <1>11, <2>3 DEF Honest
  <2>10. ASSUME NEW i \in DOMAIN q.rows
         PROVE  /\ q.rows[i] = Row(q.rows[i].block, q.tip)
                /\ q.rows[i].block \in branch /\ HeightOf[q.rows[i].block] \in Passed(q)
    <3>1. CASE i \in 1..m
      BY <1>4, <1>9, <2>3, <2>7, <3>1
    <3>2. CASE i = m + 1
      BY <1>4, <1>9, <2>3, <2>4, <3>2
    <3> QED BY <2>3, <2>5, <3>1, <3>2
  <2>11. ASSUME NEW i \in DOMAIN q.rows, NEW j \in DOMAIN q.rows, i < j
         PROVE  HeightOf[q.rows[j].block] < HeightOf[q.rows[i].block]
    <3>1. i \in 1..m
      BY <2>3, <2>11
    <3>2. CASE j \in 1..m
      BY <2>3, <2>8, <2>11, <3>1, <3>2
    <3>3. CASE j = m + 1
      <4>1. HeightOf[q.rows[j].block] = h
        BY <2>3, <2>4, <3>3
      <4>2. q.rows[i] = p.rows[i] /\ HeightOf[p.rows[i].block] \in Passed(p)
        BY <2>3, <2>7, <3>1
      <4> QED BY <1>9, <4>1, <4>2
    <3> QED BY <2>3, <2>5, <3>2, <3>3
  <2>12. ASSUME q.tip = t, NEW c \in branch \cap kept, HeightOf[c] \in Passed(q)
         PROVE  \E i \in DOMAIN q.rows : q.rows[i].block = c
    <3>1. CASE HeightOf[c] \in Passed(p)
      <4>1. PICK i \in 1..m : p.rows[i].block = c
        BY <1>4, <2>9, <2>12, <3>1
      <4>2. i \in 1..(m + 1)
        BY <2>3
      <4> QED BY <2>3, <4>1, <4>2
    <3>2. CASE HeightOf[c] = h
      <4>1. c = b
        BY <2>12, <3>2
      <4>2. m + 1 \in 1..(m + 1)
        BY <2>3
      <4> QED BY <2>3, <2>4, <4>1, <4>2
    <3> QED BY <1>9, <2>12, <3>1, <3>2
  <2>13. Honest(q, t, branch, kept)
    BY <1>4, <2>6, <2>10, <2>11, <2>12 DEF Honest
  <2> QED BY <1>8, <2>13 DEF q
<1>12. CASE p.clean /\ rows = <<>> /\ (p.tip = t => \A b \in branch \cap kept : HeightOf[b] # h)
  <2>1. q.rows = p.rows
    BY <1>2, <1>4, <1>12
  <2>2. Honest(q, t, branch, kept)
    BY <1>4, <1>9, <1>12, <2>1 DEF Honest
  <2> QED BY <1>8, <2>2 DEF q
<1> QED BY <1>10, <1>11, <1>12 DEF h, q

LEMMA StatsStill == UNCHANGED storeVars => StatsNow' = StatsNow
BY DEF storeVars, StatsNow, windowMinerStats, blockTimeStats, versionBitsSignaling,
       From, Requested, Held, Interval, Walk, Win, Sorted

\* The pages when the store loses blocks or its tip moves on.
LEMMA PagesStill ==
  ASSUME ReadsInv, TypeOK', UNCHANGED <<node, load, history>>,
         tip' > tip \/ (tip' = tip /\ Retained' \subseteq Retained /\ Held' \subseteq Held),
         settled => settled'
  PROVE  LoadInv' /\ HistoryInv'
<1>1. tip \in Int /\ tip' \in Int
  BY StoreAssumption DEF ReadsInv, TablesInv, IInv, TypeOK, Heights
<1>2. ASSUME NEW p, Laid(p), Honest(p, tip, node, Retained)
      PROVE  Honest(p, tip', node, Retained')
  <2>1. p.tip \in Int
    BY <1>2, StoreAssumption DEF Laid, Pages, Heights
  <2> QED BY <1>1, <1>2, <2>1, HonestStill
<1>3. LoadInv'
  <2> SUFFICES ASSUME load # None
      PROVE  /\ Laid(load) /\ Honest(load, tip', node, Retained')
             /\ load.asked => load.left # <<>>
             /\ load.clean => settled'
             /\ load.clean /\ load.asked /\ load.tip = tip' => Head(load.left) \notin Held'
    BY DEF LoadInv
  <2>1. /\ Laid(load) /\ Honest(load, tip, node, Retained)
        /\ load.asked => load.left # <<>>
        /\ load.clean => settled
        /\ load.clean /\ load.asked /\ load.tip = tip => Head(load.left) \notin Held
    BY DEF ReadsInv, LoadInv
  <2>2. load.clean => load.tip <= tip /\ load.tip \in Int
    BY <2>1, StoreAssumption DEF Honest, Laid, Pages, Heights
  <2>3. load.clean /\ load.asked /\ load.tip = tip' => Head(load.left) \notin Held'
    BY <1>1, <2>1, <2>2
  <2> QED BY <1>2, <2>1, <2>3
<1>4. HistoryInv'
  <2> SUFFICES ASSUME NEW k \in DOMAIN history
      PROVE  /\ Laid(history[k]) /\ Honest(history[k], tip', node, Retained')
             /\ history[k].key = k /\ history[k].left = <<>>
    BY DEF HistoryInv
  <2>1. /\ Laid(history[k]) /\ Honest(history[k], tip, node, Retained)
        /\ history[k].key = k /\ history[k].left = <<>>
    BY DEF ReadsInv, HistoryInv
  <2> QED BY <1>2, <2>1
<1> QED BY <1>3, <1>4

\* The pages when a branch is left, by the node or by the store.
LEMMA PagesSoiled ==
  ASSUME ReadsInv, Soil
  PROVE  LoadInv' /\ HistoryInv'
<1>1. LoadInv'
  <2> SUFFICES ASSUME load' # None
      PROVE  /\ Laid(load') /\ Honest(load', tip', node', Retained')
             /\ load'.asked => load'.left # <<>>
             /\ ~ load'.clean
    BY DEF LoadInv
  <2>1. load # None /\ load' = Soiled(load)
    BY DEF Soil
  <2>2. Laid(load) /\ (load.asked => load.left # <<>>)
    BY <2>1 DEF ReadsInv, LoadInv
  <2> QED BY <2>1, <2>2, SoiledPage
<1>2. HistoryInv'
  <2> SUFFICES ASSUME NEW k \in DOMAIN history'
      PROVE  /\ Laid(history'[k]) /\ Honest(history'[k], tip', node', Retained')
             /\ history'[k].key = k /\ history'[k].left = <<>>
    BY DEF HistoryInv
  <2>1. k \in DOMAIN history /\ history'[k] = Soiled(history[k])
    BY DEF Soil
  <2>2. Laid(history[k]) /\ history[k].key = k /\ history[k].left = <<>>
    BY <2>1 DEF ReadsInv, HistoryInv
  <2> QED BY <2>1, <2>2, SoiledPage
<1> QED BY <1>1, <1>2

Asking(p) == [p EXCEPT !.asked = TRUE]

LEMMA AskedPage ==
  ASSUME NEW p, Laid(p), NEW t, NEW branch, NEW kept, Honest(p, t, branch, kept)
  PROVE  /\ Laid(Asking(p)) /\ Honest(Asking(p), t, branch, kept)
         /\ Asking(p).left = p.left /\ (Asking(p).clean => p.clean)
<1> DEFINE q == Asking(p)
<1>1. q \in Pages /\ q.left = p.left /\ q.key = p.key /\ q.start = p.start /\ q.tip = p.tip
      /\ q.rows = p.rows /\ q.clean = p.clean
  BY DEF Asking, Laid, Pages
<1> HIDE DEF q
<1>2. Lowest(q) = Lowest(p) /\ Passed(q) = Passed(p)
  BY <1>1 DEF Lowest, Passed
<1>3. Laid(q)
  BY <1>1, <1>2 DEF Laid
<1>4. Honest(q, t, branch, kept)
  BY <1>1, <1>2 DEF Honest
<1> QED BY <1>1, <1>3, <1>4 DEF q

\* A row is read, from the store or from the node.
LEMMA RowTaken ==
  ASSUME ReadsInv, load # None, load.left # <<>>, UNCHANGED <<storeVars, node>>, NEW rows, Took(rows),
         \/ \E b \in Blocks : /\ HeightOf[b] = Head(load.left) /\ rows = <<Row(b, load.tip)>>
                              /\ load.clean => b \in node
         \/ rows = <<>> /\ load.asked
  PROVE  LoadInv'
<1>1. Laid(load) /\ Honest(load, tip, node, Retained)
  BY DEF ReadsInv, LoadInv
<1>a. load.clean => settled
  BY DEF ReadsInv, LoadInv
<1>b. load.clean /\ load.asked /\ load.tip = tip => Head(load.left) \notin Held
  BY DEF ReadsInv, LoadInv
<1>2. load \in Pages /\ tip \in Int
  <2>1. tip \in Heights \cup {-1}
    BY DEF ReadsInv, TablesInv, IInv, TypeOK
  <2> QED BY <1>1, <2>1, StoreAssumption DEF Laid, Heights
<1>3. node \subseteq Blocks /\ \A b, c \in node : HeightOf[b] = HeightOf[c] => b = c
  BY ReadsAssumption DEF ReadsInv
<1>4. Head(load.left) \notin Held => \A b \in node \cap Retained : HeightOf[b] # Head(load.left)
  BY DEF ReadsInv, TablesInv, Placed, Retained
<1>5. load' = Passing(load, rows)
  BY DEF Took, Passing
<1>6. \/ \E b \in Blocks : /\ HeightOf[b] = Head(load.left) /\ rows = <<Row(b, load.tip)>>
                           /\ load.clean => b \in node
      \/ /\ rows = <<>>
         /\ load.clean /\ load.tip = tip => \A b \in node \cap Retained : HeightOf[b] # Head(load.left)
  BY <1>b, <1>4
<1>7. Laid(load') /\ Honest(load', tip, node, Retained)
  <2>1. Laid(Passing(load, rows)) /\ Honest(Passing(load, rows), tip, node, Retained)
    BY <1>1, <1>2, <1>3, <1>6, PagePassed
  <2> QED BY <1>5, <2>1
<1>8. ~ load'.asked /\ (load'.clean => load.clean)
  BY <1>2, <1>5 DEF Pages, Passing
<1>9. tip' = tip /\ node' = node /\ Retained' = Retained
  BY DEF storeVars, Retained, Held
<1>10. settled => settled'
  BY <1>9 DEF settled
<1>11. load'.clean => settled'
  BY <1>a, <1>8, <1>10, Zenon
<1>12. Laid(load') /\ Honest(load', tip', node', Retained')
  BY <1>7, <1>9
<1> QED BY <1>8, <1>11, <1>12, Zenon DEF LoadInv

LEMMA HistoryStill ==
  ASSUME ReadsInv, UNCHANGED <<storeVars, node>>,
         \A k \in DOMAIN history' :
           \/ k \in DOMAIN history /\ history'[k] = history[k]
           \/ /\ Laid(history'[k]) /\ Honest(history'[k], tip, node, Retained)
              /\ history'[k].key = k /\ history'[k].left = <<>>
  PROVE  HistoryInv'
<1>1. tip' = tip /\ node' = node /\ Retained' = Retained
  BY DEF storeVars, Retained, Held
<1> SUFFICES ASSUME NEW k \in DOMAIN history'
    PROVE  /\ Laid(history'[k]) /\ Honest(history'[k], tip', node', Retained')
           /\ history'[k].key = k /\ history'[k].left = <<>>
  BY DEF HistoryInv
<1> QED BY <1>1 DEF ReadsInv, HistoryInv

LEMMA ReadsInitInv == ReadsInit => ReadsInv
<1> SUFFICES ASSUME ReadsInit PROVE ReadsInv
  OBVIOUS
<1>1. IInv /\ Init
  BY InitInv DEF ReadsInit
<1>2. Held = {} /\ Retained = {}
  BY <1>1 DEF Init, EmptyStore, Held, Retained
<1>3. Total(Retained) = 0 /\ \A p \in Proposers : Won(p) = {}
  <2>1. Bytes({}) = {}
    BY DEF Bytes
  <2> QED BY <1>2, <2>1, FS_EmptySet DEF Total, Won
<1>4. Placed /\ BlocksExact
  BY <1>1, <1>2, <1>3, FS_EmptySet DEF Init, EmptyStore, Placed, BlocksExact, Won
<1>5. TablesInv
  BY <1>1, <1>2, <1>4, TablesEmpty DEF ReadsInit, Init, EmptyStore
<1>6. HistoryInv
  <2>1. DOMAIN history = {}
    BY EmptySeq DEF ReadsInit
  <2> QED BY <2>1 DEF HistoryInv
<1> QED BY <1>5, <1>6 DEF ReadsInit, ReadsInv, MemoInv, LoadInv

LEMMA ReadsStepCases ==
  ASSUME [ReadsNext]_<<storeVars, readVars>>
  PROVE  \/ IndexBlock \/ Wipe \/ Reorganise \/ (Evict /\ UNCHANGED readVars) \/ Stats
         \/ PageRequest \/ ReadRow \/ NodeRow \/ cachedHistory \/ Forget
         \/ (UNCHANGED storeVars /\ UNCHANGED readVars)
BY DEF ReadsNext

LEMMA ReadsStep == ReadsInv /\ [ReadsNext]_<<storeVars, readVars>> => ReadsInv'
<1> SUFFICES ASSUME ReadsInv, [ReadsNext]_<<storeVars, readVars>> PROVE ReadsInv'
  OBVIOUS
<1>1. TablesInv /\ node \in Chains /\ node \subseteq Blocks
  BY ReadsAssumption DEF ReadsInv
<1>2. ASSUME UNCHANGED storeVars
      PROVE  /\ TablesInv' /\ Held' = Held /\ Retained' = Retained
             /\ tip' = tip /\ evicting' = evicting /\ StatsNow' = StatsNow /\ TypeOK'
  <2>1. TablesInv' /\ Held' = Held /\ Retained' = Retained
    BY <1>1, <1>2, TablesStill
  <2>2. StatsNow' = StatsNow
    BY <1>2, StatsStill
  <2> QED BY <1>2, <2>1, <2>2 DEF storeVars, TablesInv, IInv
<1>3. ASSUME UNCHANGED <<storeVars, statsCache>>
      PROVE  MemoInv'
  <2>1. UNCHANGED storeVars
    BY <1>3
  <2>2. evicting' = evicting /\ StatsNow' = StatsNow
    BY <1>2, <2>1
  <2> QED BY <1>3, <2>2 DEF ReadsInv, MemoInv
<1>4. CASE IndexBlock
  <2>1. PICK b \in node : Commit(b)
    BY <1>4 DEF IndexBlock
  <2>2. settled /\ statsCache' = None /\ UNCHANGED <<node, load, history>>
    BY <1>4 DEF IndexBlock, touchStats
  <2>3. CASE UNCHANGED storeVars
    <3>1. settled => settled'
      BY <1>2, <2>2, <2>3 DEF settled
    <3>2. LoadInv' /\ HistoryInv'
      BY <1>2, <2>2, <2>3, <3>1, PagesStill
    <3> QED BY <1>1, <1>2, <2>2, <2>3, <3>2 DEF ReadsInv, MemoInv
  <2>4. CASE Insert(b) /\ HeightOf[b] > tip /\ tip' > tip
    <3>1. TablesInv' /\ Retained' = Retained \cup {b}
      BY <1>1, <2>2, <2>4, TablesInsert DEF settled
    <3>2. settled'
      BY <2>2, <3>1 DEF settled
    <3>3. LoadInv' /\ HistoryInv'
      BY <2>2, <2>4, <3>1, <3>2, PagesStill DEF TablesInv, IInv
    <3> QED BY <1>1, <2>2, <3>1, <3>3 DEF ReadsInv, MemoInv
  <2> QED BY <1>1, <2>1, <2>3, <2>4, CommitCases
<1>5. CASE Wipe
  <2>1. Reset /\ statsCache' = None /\ Soil /\ UNCHANGED node
    BY <1>5 DEF Wipe, touchStats
  <2>2. TablesInv'
    BY <1>1, <2>1, TablesReset
  <2>3. LoadInv' /\ HistoryInv'
    BY <2>1, PagesSoiled
  <2> QED BY <1>1, <2>1, <2>2, <2>3 DEF ReadsInv, MemoInv
<1>6. CASE Reorganise
  <2>1. node' \in Chains /\ Soil /\ UNCHANGED <<storeVars, statsCache>>
    BY <1>6 DEF Reorganise
  <2>2. UNCHANGED storeVars
    BY <2>1
  <2>3. LoadInv' /\ HistoryInv'
    BY <2>1, PagesSoiled
  <2> QED BY <1>2, <1>3, <2>1, <2>2, <2>3 DEF ReadsInv
<1>7. CASE Evict /\ UNCHANGED readVars
  <2>1. TablesInv' /\ Held' \subseteq Held /\ Retained' \subseteq Retained
    BY <1>1, <1>7, TablesEvict
  <2>2. tip' = tip /\ evicting
    BY <1>7 DEF Evict, EvictOne, EvictDone
  <2>3. settled => settled'
    BY <1>7, <2>1 DEF settled, readVars
  <2>4. LoadInv' /\ HistoryInv'
    BY <1>7, <2>1, <2>2, <2>3, PagesStill DEF readVars, TablesInv, IInv
  <2>5. MemoInv'
    BY <1>7, <2>2 DEF readVars, ReadsInv, MemoInv
  <2> QED BY <1>1, <1>7, <2>1, <2>4, <2>5 DEF ReadsInv, readVars
<1>8. CASE Stats
  <2>1. ~ evicting /\ statsCache' = StatsNow /\ UNCHANGED storeVars /\ UNCHANGED <<node, load, history>>
    BY <1>8 DEF Stats
  <2>2. settled => settled'
    BY <1>2, <2>1 DEF settled
  <2>3. LoadInv' /\ HistoryInv'
    BY <1>2, <2>1, <2>2, PagesStill
  <2>4. MemoInv'
    BY <1>2, <2>1 DEF MemoInv
  <2> QED BY <1>1, <1>2, <2>1, <2>3, <2>4 DEF ReadsInv
<1>9. CASE PageRequest
  <2>1. UNCHANGED storeVars /\ UNCHANGED <<node, statsCache, history>>
    BY <1>9 DEF PageRequest
  <2>2. tip \in Heights \cup {-1} /\ settled \in BOOLEAN
    BY <1>1 DEF TablesInv, IInv, TypeOK, settled
  <2>3. PICK before \in Heights :
          load' = [key |-> Key(Start(before)), tip |-> tip, start |-> Start(before), rows |-> <<>>,
                   left |-> Down(Start(before), Larger(0, Start(before) - PageLimit + 1)),
                   asked |-> FALSE, clean |-> settled]
    BY <1>9 DEF PageRequest
  <2>4. Laid(load') /\ Honest(load', tip, node, Retained)
    <3>1. Start(before) \in Heights
      BY <2>2, StartType
    <3> QED BY <2>2, <2>3, <3>1, FreshPage DEF Key
  <2>5. ~ load'.asked /\ load'.clean = settled
    BY <2>3
  <2>6. settled' = settled
    BY <1>2, <2>1 DEF settled
  <2>7. LoadInv'
    BY <1>2, <2>1, <2>4, <2>5, <2>6 DEF LoadInv
  <2>8. HistoryInv'
    BY <2>1, HistoryStill
  <2> QED BY <1>1, <1>2, <1>3, <2>1, <2>7, <2>8 DEF ReadsInv
<1>10. CASE ReadRow
  <2>1. UNCHANGED storeVars /\ UNCHANGED <<node, statsCache, history>> /\ load # None /\ load.left # <<>>
    BY <1>10 DEF ReadRow
  <2>2. LoadInv'
    <3>1. Laid(load) /\ Honest(load, tip, node, Retained)
      BY <2>1 DEF ReadsInv, LoadInv
    <3>a. load.clean => settled
      BY <2>1 DEF ReadsInv, LoadInv
    <3>2. CASE Head(load.left) \in Held
      <4> DEFINE b == blocks[Head(load.left)]
      <4>1. b \in Retained /\ HeightOf[b] = Head(load.left) /\ b \in Blocks
        <5>1. Placed /\ TypeOK
          BY <1>1 DEF TablesInv, IInv
        <5>2. b \in Retained /\ HeightOf[b] = Head(load.left)
          BY <3>2, <5>1 DEF Retained, Placed
        <5> QED BY <5>1, <5>2, RetainedFinite
      <4>2. Took(<<Row(b, load.tip)>>)
        BY <1>10, <3>2 DEF ReadRow
      <4>3. settled => b \in node
        BY <4>1 DEF settled
      <4>4. load.clean => b \in node
        BY <3>a, <4>3, Zenon
      <4> HIDE DEF b
      <4> QED BY <2>1, <4>1, <4>2, <4>4, RowTaken
    <3>3. CASE Head(load.left) \notin Held
      <4>1. load' = Asking(load)
        BY <1>10, <3>3 DEF ReadRow, Asking
      <4>2. /\ Laid(load') /\ Honest(load', tip, node, Retained)
            /\ load'.left = load.left /\ (load'.clean => load.clean)
        BY <3>1, <4>1, AskedPage
      <4>3. settled => settled'
        BY <1>2, <2>1 DEF settled
      <4>4. load'.clean => settled'
        BY <3>a, <4>2, <4>3, Zenon
      <4>5. Head(load'.left) \notin Held' /\ load'.left # <<>>
        BY <1>2, <2>1, <3>3, <4>2
      <4>6. Laid(load') /\ Honest(load', tip', node', Retained')
        BY <1>2, <2>1, <4>2
      <4> QED BY <4>4, <4>5, <4>6, Zenon DEF LoadInv
    <3> QED BY <3>2, <3>3
  <2>3. HistoryInv'
    BY <2>1, HistoryStill
  <2> QED BY <1>1, <1>2, <1>3, <2>1, <2>2, <2>3 DEF ReadsInv
<1>11. CASE NodeRow
  <2>1. UNCHANGED storeVars /\ UNCHANGED <<node, statsCache, history>> /\ load # None /\ load.asked
    BY <1>11 DEF NodeRow
  <2>2. load.left # <<>>
    BY <2>1 DEF ReadsInv, LoadInv
  <2>3. CASE \E b \in node : HeightOf[b] = Head(load.left) /\ Took(<<Row(b, load.tip)>>)
    <3> PICK b \in node : HeightOf[b] = Head(load.left) /\ Took(<<Row(b, load.tip)>>)
      BY <2>3
    <3>1. b \in Blocks
      BY <1>1
    <3> QED
      <4>1. LoadInv'
        BY <2>1, <2>2, <3>1, RowTaken
      <4>2. HistoryInv'
        BY <2>1, HistoryStill
      <4> QED BY <1>1, <1>2, <1>3, <2>1, <4>1, <4>2 DEF ReadsInv
  <2>4. CASE Took(<<>>)
    <3>1. LoadInv'
      BY <2>1, <2>2, <2>4, RowTaken
    <3>2. HistoryInv'
      BY <2>1, HistoryStill
    <3> QED BY <1>1, <1>2, <1>3, <2>1, <3>1, <3>2 DEF ReadsInv
  <2> QED BY <1>11, <2>3, <2>4 DEF NodeRow
<1>12. CASE cachedHistory
  <2>1. UNCHANGED storeVars /\ UNCHANGED <<node, statsCache>> /\ load # None /\ load.left = <<>> /\ load' = None
    BY <1>12 DEF cachedHistory
  <2>2. Laid(load) /\ Honest(load, tip, node, Retained)
    BY <2>1 DEF ReadsInv, LoadInv
  <2>3. \A k \in DOMAIN history' :
          \/ k \in DOMAIN history /\ history'[k] = history[k]
          \/ k = load.key /\ history'[k] = load
    <3> DEFINE all == [k \in DOMAIN history \cup {load.key} |->
                         IF k = load.key THEN load ELSE history[k]]
    <3>1. \A k \in DOMAIN all : \/ k \in DOMAIN history /\ all[k] = history[k]
                                \/ k = load.key /\ all[k] = load
      OBVIOUS
    <3>2. history' = all \/ \E k \in DOMAIN history : history' = [l \in DOMAIN all \ {k} |-> all[l]]
      BY <1>12 DEF cachedHistory
    <3> HIDE DEF all
    <3>3. CASE history' = all
      BY <3>1, <3>3
    <3>4. CASE \E k \in DOMAIN history : history' = [l \in DOMAIN all \ {k} |-> all[l]]
      <4> PICK k \in DOMAIN history : history' = [l \in DOMAIN all \ {k} |-> all[l]]
        BY <3>4
      <4>1. DOMAIN history' = DOMAIN all \ {k} /\ \A l \in DOMAIN all \ {k} : history'[l] = all[l]
        OBVIOUS
      <4> QED BY <3>1, <4>1
    <3> QED BY <3>2, <3>3, <3>4
  <2>4. HistoryInv'
    BY <2>1, <2>2, <2>3, HistoryStill
  <2> QED BY <1>1, <1>2, <1>3, <2>1, <2>4 DEF ReadsInv, LoadInv
<1>13. CASE Forget
  <2>1. UNCHANGED storeVars /\ UNCHANGED <<node, statsCache, load>>
        /\ \A k \in DOMAIN history' : k \in DOMAIN history /\ history'[k] = history[k]
    BY <1>13 DEF Forget
  <2>2. LoadInv'
    <3>1. settled' = settled /\ Held' = Held /\ Retained' = Retained /\ tip' = tip
      BY <1>2, <2>1 DEF settled
    <3> QED BY <2>1, <3>1 DEF ReadsInv, LoadInv
  <2>3. HistoryInv'
    BY <2>1, HistoryStill
  <2> QED BY <1>1, <1>2, <1>3, <2>1, <2>2, <2>3 DEF ReadsInv
<1>14. CASE UNCHANGED storeVars /\ UNCHANGED readVars
  <2>1. UNCHANGED <<node, statsCache, load, history>>
    BY <1>14 DEF readVars
  <2>2. settled => settled'
    BY <1>2, <1>14, <2>1 DEF settled
  <2>3. LoadInv' /\ HistoryInv'
    BY <1>2, <1>14, <2>1, <2>2, PagesStill
  <2> QED BY <1>1, <1>2, <1>3, <1>14, <2>1, <2>3 DEF ReadsInv
<1> QED BY <1>4, <1>5, <1>6, <1>7, <1>8, <1>9, <1>10, <1>11, <1>12, <1>13, <1>14, ReadsStepCases

LEMMA ReadsInvHolds == ReadsSpec => []ReadsInv
BY ReadsInitInv, ReadsStep, PTL DEF ReadsSpec

\* The store keeps its types, its limits and its newest block under the indexer that
\* follows a node through its branches, and every table of it (hashes, transactions,
\* ids per account, blocks per proposer, bytes, signatures, latest transaction) is
\* that of the blocks it holds (addBlock and _evict in store.js).
THEOREM TablesCorrect == ReadsSpec => [](StoreSound /\ TablesExact /\ AccountsExact /\ LatestIsNewest)
<1>1. ReadsInv => StoreSound /\ TablesExact /\ AccountsExact /\ LatestIsNewest
  BY DEF ReadsInv, TablesInv, IInv, StoreSound, TablesExact, LatestHeld
<1> QED BY <1>1, ReadsInvHolds, PTL

\* The store behind its readers is the store: whatever the indexer, the node, the
\* statistics, the pages and their caches do in between, what they do to the tables is
\* addBlock, a round of _evict, or reset, one at a time (store.js).
THEOREM ReadersImplementStore == ReadsSpec => Spec
<1>1. ReadsInit => Init
  BY DEF ReadsInit
<1>2. ReadsInv /\ [ReadsNext]_<<storeVars, readVars>> => [Next]_storeVars
  <2> SUFFICES ASSUME ReadsInv, [ReadsNext]_<<storeVars, readVars>> PROVE [Next]_storeVars
    OBVIOUS
  <2>1. CASE IndexBlock
    <3>1. PICK b \in Blocks : Commit(b)
      BY <2>1, ReadsAssumption DEF IndexBlock, ReadsInv
    <3> QED BY <3>1 DEF Next
  <2>2. CASE Wipe
    BY <2>2 DEF Wipe, Next
  <2>3. CASE Evict
    BY <2>3 DEF Next
  <2>4. CASE UNCHANGED storeVars
    BY <2>4
  <2>5. UNCHANGED storeVars \/ IndexBlock \/ Wipe \/ Evict
    BY ReadsStepCases DEF Reorganise, Stats, PageRequest, ReadRow, NodeRow, cachedHistory, Forget
  <2> QED BY <2>1, <2>2, <2>3, <2>4, <2>5
<1> QED BY <1>1, <1>2, ReadsInvHolds, PTL DEF ReadsSpec, Spec

\* A memo of the statistics that is still set is that of the store as it is now
\* (touchStats in store.js).
THEOREM MemoFresh == ReadsSpec => []StatsFresh
<1>1. ReadsInv => StatsFresh
  BY DEF ReadsInv, MemoInv, StatsFresh
<1> QED BY <1>1, ReadsInvHolds, PTL

\* A page the cache would answer with is the node's, final flags included: its key
\* holds the tip its rows were flagged for, and no block the store has had since the
\* request at that tip is missing from it (blocks and cachedHistory in rest.js).
THEOREM PagesRight == ReadsSpec => []PageRight
<1>1. ReadsInv => PageRight
  <2> SUFFICES ASSUME ReadsInv, NEW before \in Heights,
                      Key(Start(before)) \in DOMAIN history, history[Key(Start(before))].clean
      PROVE  LET start == Start(before)  page == history[Key(start)]
                 Wanted == {b \in node : start - PageLimit < HeightOf[b] /\ HeightOf[b] <= start}
             IN  /\ \A i \in DOMAIN page.rows :
                      /\ page.rows[i].block \in Wanted
                      /\ page.rows[i].final = finalAtDepth(tip, HeightOf[page.rows[i].block])
                      /\ \A j \in 1..(i - 1) : HeightOf[page.rows[j].block] > HeightOf[page.rows[i].block]
                 /\ Wanted \cap Retained \subseteq {page.rows[i].block : i \in DOMAIN page.rows}
    BY DEF PageRight
  <2> DEFINE start == Start(before)
             page == history[Key(start)]
             Wanted == {b \in node : start - PageLimit < HeightOf[b] /\ HeightOf[b] <= start}
  <2>1. /\ Laid(page) /\ Honest(page, tip, node, Retained)
        /\ page.key = Key(start) /\ page.left = <<>> /\ page.clean
    BY DEF ReadsInv, HistoryInv
  <2>2. start \in Heights /\ start \in Int
    BY StartType, StoreAssumption DEF ReadsInv, TablesInv, IInv, TypeOK, Heights
  <2>3. node \subseteq Blocks /\ \A b \in node : HeightOf[b] \in Heights /\ HeightOf[b] \in Int /\ HeightOf[b] >= 0
    BY ReadsAssumption, StoreAssumption DEF ReadsInv, Heights
  <2> HIDE DEF start, page
  <2>4. page.tip = tip /\ page.start = start
    BY <2>1 DEF Laid, Key
  <2>5. Lowest(page) \in Int /\ Lowest(page) = IF start - PageLimit + 1 > 0 THEN start - PageLimit + 1 ELSE 0
    BY <2>2, <2>4, ReadsAssumption DEF Lowest, Larger
  <2>6. Len(page.left) = 0
    BY <2>1, EmptySeq
  <2>7. Passed(page) = {h \in Heights : Lowest(page) <= h /\ h <= start}
    BY <2>4, <2>5, <2>6 DEF Passed
  <2>8. \A b \in node : b \in Wanted <=> HeightOf[b] \in Passed(page)
    <3> SUFFICES ASSUME NEW b \in node
        PROVE  start - PageLimit < HeightOf[b] /\ HeightOf[b] <= start
               <=> Lowest(page) <= HeightOf[b] /\ HeightOf[b] <= start
      BY <2>3, <2>7
    <3> QED BY <2>2, <2>3, <2>5, ReadsAssumption
  <2>9. page.rows \in Seq(Rows) /\ DOMAIN page.rows = 1..Len(page.rows) /\ Len(page.rows) \in Nat
    BY <2>1, LenProperties DEF Laid, Pages
  <2> HIDE DEF Wanted
  <2>10. ASSUME NEW i \in DOMAIN page.rows
         PROVE  /\ page.rows[i].block \in Wanted
                /\ page.rows[i].final = finalAtDepth(tip, HeightOf[page.rows[i].block])
                /\ \A j \in 1..(i - 1) : HeightOf[page.rows[j].block] > HeightOf[page.rows[i].block]
    <3>1. /\ page.rows[i] = Row(page.rows[i].block, tip)
          /\ page.rows[i].block \in node /\ HeightOf[page.rows[i].block] \in Passed(page)
          /\ \A j \in DOMAIN page.rows :
               j < i => HeightOf[page.rows[i].block] < HeightOf[page.rows[j].block]
      BY <2>1, <2>4 DEF Honest
    <3>2. page.rows[i].final = finalAtDepth(tip, HeightOf[page.rows[i].block])
      BY <3>1, RowFields
    <3>3. \A j \in 1..(i - 1) : j \in DOMAIN page.rows /\ j < i
      BY <2>9
    <3>4. \A j \in 1..(i - 1) : HeightOf[page.rows[j].block] > HeightOf[page.rows[i].block]
      BY <3>1, <3>3
    <3> QED BY <2>8, <3>1, <3>2, <3>4
  <2>11. Wanted \cap Retained \subseteq {page.rows[i].block : i \in DOMAIN page.rows}
    <3>1. \A b \in node \cap Retained :
            HeightOf[b] \in Passed(page) => \E i \in DOMAIN page.rows : page.rows[i].block = b
      BY <2>1, <2>4 DEF Honest
    <3>2. Wanted \subseteq node
      BY DEF Wanted
    <3> QED BY <2>8, <3>1, <3>2
  <2> QED BY <2>10, <2>11 DEF start, page, Wanted
<1> QED BY <1>1, ReadsInvHolds, PTL

-----------------------------------------------------------------------------
(* Lists read from the tables: what is selected keeps its order, and a list   *)
(* that falls is known by its members.                                       *)

\* What is selected is read at rising places, each of them once.
Places(s, S) == {i \in DOMAIN s : s[i] \in S}
Picked(s, S, x) ==
  \E e \in [1..Len(x) -> Places(s, S)] :
    /\ \A k \in 1..Len(x) : x[k] = s[e[k]]
    /\ \A j, k \in 1..Len(x) : j < k => e[j] < e[k]
    /\ \A i \in Places(s, S) : \E k \in 1..Len(x) : e[k] = i

LEMMA SelectedPlaces ==
  ASSUME NEW T, NEW s \in Seq(T), NEW S
  PROVE  /\ Selected(s, S) \in Seq(T) /\ Len(Selected(s, S)) \in 0..Len(s)
         /\ Picked(s, S, Selected(s, S))
<1> DEFINE at == Places(s, S)
           n == Cardinality(at)
           nth(k) == CHOOSE i \in at : Cardinality({j \in at : j <= i}) = k
           e == [k \in 1..n |-> nth(k)]
<1>1. Len(s) \in Nat /\ at \in SUBSET (0..Len(s)) /\ at \in SUBSET (1..Len(s)) /\ DOMAIN s = 1..Len(s)
  BY DEF Places
<1>2. n \in Nat /\ n <= Len(s)
  <2> HIDE DEF at
  <2>1. IsFiniteSet(1..Len(s)) /\ Cardinality(1..Len(s)) = Len(s)
    <3>1. Len(s) - 1 + 1 = Len(s) /\ (1 > Len(s) <=> Len(s) = 0)
      BY <1>1
    <3> QED BY <1>1, <3>1, FS_Interval
  <2>2. Cardinality(at) <= Cardinality(1..Len(s))
    BY <1>1, <2>1, FS_Subset
  <2>3. Cardinality(at) \in Nat
    BY <1>1, UptoFinite
  <2> QED BY <2>1, <2>2, <2>3
<1>3. \A k \in 1..n : nth(k) \in at /\ Cardinality(Below(at, nth(k))) = k
  <2> SUFFICES ASSUME NEW k \in 1..n PROVE nth(k) \in at /\ Cardinality({j \in at : j <= nth(k)}) = k
    BY DEF Below
  <2>1. \E i \in at : Cardinality(Below(at, i)) = k
    <3> HIDE DEF at
    <3> QED BY <1>1, PlaceTaken
  <2>2. \E i \in at : Cardinality({j \in at : j <= i}) = k
    BY <2>1 DEF Below
  <2> HIDE DEF at
  <2> QED BY <2>2
<1>4. Selected(s, S) = [k \in 1..n |-> s[nth(k)]]
  BY DEF Selected, Places
<1>5. \A k \in 1..n : s[nth(k)] \in T
  <2>1. \A i \in 1..Len(s) : s[i] \in T
    OBVIOUS
  <2> HIDE DEF nth, at
  <2> QED BY <1>1, <1>3, <2>1
<1> HIDE DEF nth, at
<1>6. Selected(s, S) \in Seq(T) /\ Len(Selected(s, S)) = n
  BY <1>2, <1>4, <1>5
<1>7. e \in [1..n -> at]
  BY <1>3
<1>8. \A k \in 1..n : Selected(s, S)[k] = s[e[k]]
  BY <1>4
<1>9. \A j, k \in 1..n : j < k => e[j] < e[k]
  <2> SUFFICES ASSUME NEW j \in 1..n, NEW k \in 1..n, j < k PROVE nth(j) < nth(k)
    OBVIOUS
  <2>0. \A i \in at : i \in Nat
    BY <1>1
  <2>1. nth(j) \in at /\ nth(k) \in at /\ nth(j) \in Nat /\ nth(k) \in Nat
    BY <1>3, <2>0
  <2>2. ~ nth(k) < nth(j)
    <3> SUFFICES ASSUME nth(k) < nth(j) PROVE FALSE
      OBVIOUS
    <3>1. Cardinality(Below(at, nth(k))) < Cardinality(Below(at, nth(j)))
      BY <1>1, <2>1, RankRises
    <3> QED BY <1>2, <1>3, <3>1
  <2>3. nth(k) # nth(j)
    BY <1>2, <1>3
  <2> QED BY <2>1, <2>2, <2>3
<1>10. \A i \in at : \E k \in 1..n : e[k] = i
  <2> SUFFICES ASSUME NEW i \in at PROVE \E k \in 1..n : nth(k) = i
    OBVIOUS
  <2> DEFINE k == Cardinality(Below(at, i))
  <2>1. k \in 1..n
    BY <1>1, RankRises
  <2>0. \A j \in at : j \in Nat
    BY <1>1
  <2>2. nth(k) \in at /\ Cardinality(Below(at, nth(k))) = k /\ nth(k) \in Nat /\ i \in Nat
    BY <1>3, <2>0, <2>1
  <2>3. ~ nth(k) < i
    <3> SUFFICES ASSUME nth(k) < i PROVE FALSE
      OBVIOUS
    <3>1. Cardinality(Below(at, nth(k))) < k
      BY <1>1, <2>2, RankRises
    <3> QED BY <2>1, <2>2, <3>1
  <2>4. ~ i < nth(k)
    <3> SUFFICES ASSUME i < nth(k) PROVE FALSE
      OBVIOUS
    <3>1. k < Cardinality(Below(at, nth(k)))
      BY <1>1, <2>2, RankRises
    <3> QED BY <2>1, <2>2, <3>1
  <2>5. nth(k) = i
    <3> HIDE DEF k
    <3> QED BY <2>2, <2>3, <2>4
  <2> QED BY <2>1, <2>5
<1> HIDE DEF e
<1>11. Len(Selected(s, S)) = n /\ n \in 0..Len(s)
  BY <1>1, <1>2, <1>6
<1> HIDE DEF n
<1>12. \E f \in [1..Len(Selected(s, S)) -> at] :
         /\ \A k \in 1..Len(Selected(s, S)) : Selected(s, S)[k] = s[f[k]]
         /\ \A j, k \in 1..Len(Selected(s, S)) : j < k => f[j] < f[k]
         /\ \A i \in at : \E k \in 1..Len(Selected(s, S)) : f[k] = i
  BY <1>7, <1>8, <1>9, <1>10, <1>11
<1> QED BY <1>6, <1>11, <1>12 DEF at, Picked

\* A list falls along f: no member twice, and each below the ones before it.
Falls(s, f) == \A i, j \in DOMAIN s : i < j => f[s[i]] > f[s[j]]
Members(s) == {s[i] : i \in DOMAIN s}
Itself == [h \in Int |-> h]

\* A list that falls is known by its members.
LEMMA SameList ==
  ASSUME NEW T, NEW f \in [T -> Int], NEW p \in Seq(T), NEW q \in Seq(T),
         Falls(p, f), Falls(q, f), Members(p) = Members(q)
  PROVE  p = q
<1> DEFINE m == Len(p)
           n == Len(q)
<1>1. m \in Nat /\ n \in Nat /\ DOMAIN p = 1..m /\ DOMAIN q = 1..n
  OBVIOUS
<1>2. /\ \A i \in 1..m : p[i] \in T /\ f[p[i]] \in Int
      /\ \A i \in 1..n : q[i] \in T /\ f[q[i]] \in Int
  OBVIOUS
<1>3. /\ \A i \in 1..m : \E j \in 1..n : q[j] = p[i]
      /\ \A j \in 1..n : \E i \in 1..m : p[i] = q[j]
  BY <1>1 DEF Members
<1>4. /\ \A i, j \in 1..m : i < j => f[p[i]] > f[p[j]]
      /\ \A i, j \in 1..n : i < j => f[q[i]] > f[q[j]]
  BY <1>1 DEF Falls
<1> HIDE DEF m, n
<1> DEFINE differ == {i \in Nat : i \in 1..m /\ i \in 1..n /\ p[i] # q[i]}
<1>5. differ = {}
  <2> SUFFICES ASSUME differ # {} PROVE FALSE
    OBVIOUS
  <2>1. PICK k \in differ : \A i \in differ : k <= i
    <3>1. differ \in SUBSET Nat
      OBVIOUS
    <3> HIDE DEF differ
    <3> QED BY <3>1, LeastNat
  <2>2. k \in 1..m /\ k \in 1..n /\ p[k] # q[k]
    BY <2>1
  <2>3. \A i \in 1..m : i \in 1..n /\ i < k => p[i] = q[i]
    BY <1>1, <2>1, <2>2
  <2>4. PICK j \in 1..n : q[j] = p[k]
    BY <1>3, <2>2
  <2>5. PICK i \in 1..m : p[i] = q[k]
    BY <1>3, <2>2
  <2>6. ~ j < k
    <3> SUFFICES ASSUME j < k PROVE FALSE
      OBVIOUS
    <3>1. j \in 1..m /\ j \in 1..n
      BY <1>1, <2>2
    <3>2. p[j] = p[k]
      BY <2>3, <2>4, <3>1
    <3> QED BY <1>2, <1>4, <2>2, <3>1, <3>2
  <2>7. ~ i < k
    <3> SUFFICES ASSUME i < k PROVE FALSE
      OBVIOUS
    <3>1. i \in 1..m /\ i \in 1..n
      BY <1>1, <2>2
    <3>2. q[i] = q[k]
      BY <2>3, <2>5, <3>1
    <3> QED BY <1>2, <1>4, <2>2, <3>1, <3>2
  <2>8. i # k /\ j # k
    BY <2>2, <2>4, <2>5
  <2>9. k < i /\ k < j
    BY <2>2, <2>6, <2>7, <2>8, <1>1
  <2>10. f[p[k]] > f[q[k]] /\ f[q[k]] > f[p[k]]
    BY <1>4, <2>2, <2>4, <2>5, <2>9
  <2> QED BY <1>2, <2>2, <2>10
<1>6. \A i \in 1..m : i \in 1..n => p[i] = q[i]
  BY <1>1, <1>5
<1>7. ~ m < n
  <2> SUFFICES ASSUME m < n PROVE FALSE
    OBVIOUS
  <2>1. n \in 1..n
    BY <1>1
  <2>2. PICK i \in 1..m : p[i] = q[n]
    BY <1>3, <2>1
  <2>3. i \in 1..n /\ i < n
    BY <1>1
  <2>4. q[i] = q[n]
    BY <1>6, <2>2, <2>3
  <2> QED BY <1>2, <1>4, <2>1, <2>3, <2>4
<1>8. ~ n < m
  <2> SUFFICES ASSUME n < m PROVE FALSE
    OBVIOUS
  <2>1. m \in 1..m
    BY <1>1
  <2>2. PICK i \in 1..n : q[i] = p[m]
    BY <1>3, <2>1
  <2>3. i \in 1..m /\ i < m
    BY <1>1
  <2>4. p[i] = p[m]
    BY <1>6, <2>2, <2>3
  <2> QED BY <1>2, <1>4, <2>1, <2>3, <2>4
<1>9. m = n
  BY <1>1, <1>7, <1>8
<1> QED BY <1>6, <1>9 DEF m, n

\* What is selected from a list that falls falls too.
LEMMA SelectedFalls ==
  ASSUME NEW T, NEW f \in [T -> Int], NEW s \in Seq(T), NEW S, Falls(s, f)
  PROVE  /\ Selected(s, S) \in Seq(T) /\ Len(Selected(s, S)) \in 0..Len(s)
         /\ Falls(Selected(s, S), f)
         /\ Members(Selected(s, S)) = Members(s) \cap S
<1> DEFINE at == Places(s, S)
           x == Selected(s, S)
           n == Len(x)
<1>1. x \in Seq(T) /\ n \in 0..Len(s) /\ Picked(s, S, x)
  BY SelectedPlaces
<1>2. PICK e \in [1..n -> at] :
              /\ \A k \in 1..n : x[k] = s[e[k]]
              /\ \A j, k \in 1..n : j < k => e[j] < e[k]
              /\ \A i \in at : \E k \in 1..n : e[k] = i
  BY <1>1 DEF Picked
<1>3. DOMAIN x = 1..n
  BY <1>1
<1>4. \A k \in 1..n : e[k] \in DOMAIN s /\ s[e[k]] \in S
  BY <1>2 DEF Places
<1>5. \A i \in DOMAIN s : s[i] \in S => \E k \in 1..n : e[k] = i
  BY <1>2 DEF Places
<1> HIDE DEF x, n, at
<1>6. Falls(x, f)
  <2> SUFFICES ASSUME NEW i \in 1..n, NEW j \in 1..n, i < j PROVE f[x[i]] > f[x[j]]
    BY <1>3 DEF Falls
  <2>1. e[i] < e[j] /\ e[i] \in DOMAIN s /\ e[j] \in DOMAIN s
    BY <1>2, <1>4
  <2>2. f[s[e[i]]] > f[s[e[j]]]
    BY <2>1 DEF Falls
  <2> QED BY <1>2, <2>2
<1>7. Members(x) = Members(s) \cap S
  <2>1. ASSUME NEW i \in 1..n PROVE x[i] \in Members(s) /\ x[i] \in S
    BY <1>2, <1>4 DEF Members
  <2>2. ASSUME NEW i \in DOMAIN s, s[i] \in S PROVE \E k \in 1..n : x[k] = s[i]
    BY <1>2, <1>5, <2>2
  <2>3. Members(x) = {x[i] : i \in 1..n}
    BY <1>3 DEF Members
  <2>4. Members(x) \subseteq Members(s) \cap S
    BY <2>1, <2>3
  <2>5. ASSUME NEW y \in Members(s), y \in S PROVE y \in Members(x)
    <3>1. PICK i \in DOMAIN s : y = s[i]
      BY DEF Members
    <3> QED BY <2>2, <2>3, <2>5, <3>1
  <2> QED BY <2>4, <2>5
<1> QED BY <1>1, <1>6, <1>7 DEF x, n

LEMMA SelectedHeights ==
  ASSUME NEW d \in Seq(Int), NEW B, Falls(d, Itself)
  PROVE  /\ Selected(d, B) \in Seq(Int) /\ Len(Selected(d, B)) \in 0..Len(d)
         /\ Falls(Selected(d, B), Itself) /\ Members(Selected(d, B)) = Members(d) \cap B
<1>1. Itself \in [Int -> Int]
  BY DEF Itself
<1>2. Falls(Selected(d, B), Itself)
  BY <1>1, SelectedFalls
<1>3. Selected(d, B) \in Seq(Int)
  BY <1>1, SelectedFalls
<1>4. Len(Selected(d, B)) \in 0..Len(d)
  BY <1>1, SelectedFalls
<1>5. Members(Selected(d, B)) = Members(d) \cap B
  BY <1>1, SelectedFalls
<1> QED BY <1>2, <1>3, <1>4, <1>5

LEMMA DownFalls ==
  ASSUME NEW from \in Int, NEW to \in Int
  PROVE  /\ Down(from, to) \in Seq(Int) /\ Len(Down(from, to)) = Larger(0, from - to + 1)
         /\ Members(Down(from, to)) = to..from
         /\ Falls(Down(from, to), Itself)
<1> DEFINE n == Larger(0, from - to + 1)
           d == [i \in 1..n |-> from - i + 1]
<1>1. n \in Nat /\ (to <= from => n = from - to + 1) /\ (from < to => n = 0)
  BY DEF Larger
<1>2. Down(from, to) = d
  BY DEF Down
<1> HIDE DEF n
<1>3. d \in Seq(Int) /\ Len(d) = n /\ DOMAIN d = 1..n
  BY <1>1
<1>4. Members(d) = to..from
  <2>1. \A i \in 1..n : d[i] \in to..from
    BY <1>1
  <2>2. \A h \in to..from : from - h + 1 \in 1..n /\ d[from - h + 1] = h
    BY <1>1
  <2> HIDE DEF d
  <2>3. Members(d) \subseteq to..from
    BY <1>3, <2>1 DEF Members
  <2>4. ASSUME NEW h \in to..from PROVE h \in Members(d)
    <3>1. from - h + 1 \in DOMAIN d /\ d[from - h + 1] = h
      BY <1>3, <2>2
    <3> QED BY <3>1 DEF Members
  <2> QED BY <2>3, <2>4
<1>5. Falls(d, Itself)
  <2> SUFFICES ASSUME NEW i \in 1..n, NEW j \in 1..n, i < j PROVE from - i + 1 > from - j + 1
    BY DEF Falls, Itself
  <2> QED BY <1>1
<1> HIDE DEF d
<1> QED BY <1>2, <1>3, <1>4, <1>5 DEF n

\* The first limit members of a list.
LEMMA UptoPlaces ==
  ASSUME NEW T, NEW s \in Seq(T), NEW limit \in Nat
  PROVE  /\ Upto(s, limit) \in Seq(T) /\ Len(Upto(s, limit)) = Smaller(limit, Len(s))
         /\ \A i \in 1..Smaller(limit, Len(s)) : Upto(s, limit)[i] = s[i]
         /\ Smaller(limit, Len(s)) \in Nat
         /\ Len(s) <= limit => Upto(s, limit) = s
<1> DEFINE n == Smaller(limit, Len(s))
<1>1. n \in Nat /\ n <= Len(s) /\ n <= limit /\ (Len(s) <= limit => n = Len(s)) /\ Len(s) \in Nat
  BY DEF Smaller
<1> HIDE DEF n
<1>2. 1 \in 1..Len(s) + 1 /\ n \in 1 - 1..Len(s) /\ n - 1 + 1 = n
  BY <1>1
<1>3. /\ SubSeq(s, 1, n) \in Seq(T) /\ Len(SubSeq(s, 1, n)) = n
      /\ \A i \in 1..n : SubSeq(s, 1, n)[i] = s[i]
  <2>1. /\ SubSeq(s, 1, n) \in Seq(T) /\ Len(SubSeq(s, 1, n)) = n - 1 + 1
        /\ \A i \in 1..n - 1 + 1 : SubSeq(s, 1, n)[i] = s[1 + i - 1]
    BY <1>2, SubSeqProperties
  <2>2. \A i \in 1..n : 1 + i - 1 = i
    BY <1>1
  <2> QED BY <1>2, <2>1, <2>2
<1>4. Len(s) <= limit => SubSeq(s, 1, n) = s
  <2> SUFFICES ASSUME Len(s) <= limit PROVE SubSeq(s, 1, n) = s
    OBVIOUS
  <2>1. n = Len(s)
    BY <1>1
  <2> QED BY <1>3, <2>1
<1> QED BY <1>1, <1>3, <1>4 DEF Upto, n

\* All of a page's blocks, had it no limit.
AllBefore(before) == Selected(Down(Smaller(before, tip), low), Held)

LEMMA ListedBlocks ==
  ASSUME TypeOK, NewestKept, NEW before \in Heights \cup {-1}
  PROVE  /\ AllBefore(before) \in Seq(Int) /\ Falls(AllBefore(before), Itself)
         /\ Members(AllBefore(before)) = {h \in Held : h <= before}
<1>1. /\ tip \in Int /\ low \in Int /\ before \in Int /\ Smaller(before, tip) \in Int
      /\ \A h \in Held : h \in Int /\ low <= h /\ h <= tip
  <2>1. /\ tip \in Int /\ low \in Int /\ before \in Int
        /\ \A h \in Held : h \in Int /\ low <= h /\ h <= tip
    BY StoreAssumption DEF TypeOK, NewestKept, Heights, Infinity, Held
  <2> QED BY <2>1 DEF Smaller
<1> DEFINE d == Down(Smaller(before, tip), low)
<1>2. d \in Seq(Int) /\ Members(d) = low..Smaller(before, tip) /\ Falls(d, Itself)
  BY <1>1, DownFalls
<1>3. Itself \in [Int -> Int]
  BY DEF Itself
<1>4. /\ Selected(d, Held) \in Seq(Int) /\ Falls(Selected(d, Held), Itself)
      /\ Members(Selected(d, Held)) = Members(d) \cap Held
  <2> HIDE DEF d
  <2>1. d \in Seq(Int) /\ Falls(d, Itself)
    BY <1>2
  <2> DEFINE S == Held
  <2> HIDE DEF S
  <2>2. /\ Selected(d, S) \in Seq(Int) /\ Falls(Selected(d, S), Itself)
        /\ Members(Selected(d, S)) = Members(d) \cap S
    BY <2>1, SelectedHeights
  <2> QED BY <2>2 DEF S
<1>5. (low..Smaller(before, tip)) \cap Held = {h \in Held : h <= before}
  <2>1. \A h \in Held : h \in low..Smaller(before, tip) <=> h <= before
    BY <1>1 DEF Smaller
  <2> QED BY <2>1
<1> QED BY <1>2, <1>4, <1>5 DEF AllBefore

LEMMA ListedHeights ==
  /\ Selected(Down(MaxHeight, 0), Held) \in Seq(Int)
  /\ Falls(Selected(Down(MaxHeight, 0), Held), Itself)
  /\ Members(Selected(Down(MaxHeight, 0), Held)) = Held
<1> DEFINE d == Down(MaxHeight, 0)
           S == Held
<1>1. d \in Seq(Int) /\ Falls(d, Itself) /\ Members(d) = 0..MaxHeight
  BY StoreAssumption, DownFalls
<1>2. Itself \in [Int -> Int]
  BY DEF Itself
<1> HIDE DEF d, S
<1>3. d \in Seq(Int) /\ Falls(d, Itself)
  BY <1>1
<1>4. /\ Selected(d, S) \in Seq(Int) /\ Falls(Selected(d, S), Itself)
      /\ Members(Selected(d, S)) = Members(d) \cap S
  BY <1>2, <1>3, SelectedFalls
<1>5. Members(d) \cap S = S
  BY <1>1 DEF S, Held, Heights
<1>6. /\ Selected(d, S) \in Seq(Int) /\ Falls(Selected(d, S), Itself)
      /\ Members(Selected(d, S)) = S
  BY <1>4, <1>5
<1> QED BY <1>6 DEF d, S

\* A page, followed by all that lies below its last block, is all there is.
LEMMA PageAndRest ==
  ASSUME TypeOK, NewestKept, NEW before \in Heights \cup {-1}, NEW limit \in 1..MaxBlocks
  PROVE  LET page == blocksBefore(before, limit) IN
         /\ page = <<>> => AllBefore(before) = <<>>
         /\ page # <<>> =>
              /\ page[Len(page)] - 1 \in Heights \cup {-1} /\ page[Len(page)] - 1 < before
              /\ page \o AllBefore(page[Len(page)] - 1) = AllBefore(before)
<1> DEFINE all == AllBefore(before)
           page == blocksBefore(before, limit)
           n == Len(page)
<1>0. before \in Int /\ limit \in Nat /\ limit >= 1
  BY StoreAssumption DEF Heights
<1>1. /\ all \in Seq(Int) /\ Falls(all, Itself)
      /\ Members(all) = {h \in Held : h <= before}
  BY ListedBlocks
<1>2. page = Upto(all, limit)
  BY DEF blocksBefore, AllBefore
<1> HIDE DEF all, page
<1>3. /\ page \in Seq(Int) /\ n = Smaller(limit, Len(all)) /\ n \in Nat
      /\ \A i \in 1..n : page[i] = all[i]
  <2>1. /\ Upto(all, limit) \in Seq(Int) /\ Len(Upto(all, limit)) = Smaller(limit, Len(all))
        /\ \A i \in 1..Smaller(limit, Len(all)) : Upto(all, limit)[i] = all[i]
        /\ Smaller(limit, Len(all)) \in Nat
    BY <1>0, <1>1, UptoPlaces
  <2> QED BY <1>2, <2>1
<1> HIDE DEF n
<1>4. Len(all) \in Nat /\ n <= Len(all) /\ (n = 0 => Len(all) = 0) /\ DOMAIN all = 1..Len(all)
      /\ Len(page) = n /\ DOMAIN page = 1..n
  BY <1>0, <1>1, <1>3 DEF Smaller, n
<1>5. page = <<>> => all = <<>>
  BY <1>1, <1>4
<1>6. ASSUME page # <<>>
      PROVE  /\ page[n] - 1 \in Heights \cup {-1} /\ page[n] - 1 < before
             /\ page \o AllBefore(page[n] - 1) = all
  <2> DEFINE m == page[n]
             below == AllBefore(m - 1)
             joined == page \o below
  <2>1. n \in 1..n /\ n \in 1..Len(all) /\ m = all[n]
    BY <1>3, <1>4, <1>6
  <2>2. m \in Held /\ m <= before /\ m \in Heights /\ m \in Int
    <3>1. m \in Members(all)
      BY <1>4, <2>1 DEF Members
    <3> QED BY <1>1, <3>1, StoreAssumption DEF Held, Heights
  <2>3. m - 1 \in Heights \cup {-1} /\ m - 1 < before
    BY <1>0, <2>2, StoreAssumption DEF Heights
  <2> HIDE DEF m
  <2>4. /\ below \in Seq(Int) /\ Falls(below, Itself)
        /\ Members(below) = {h \in Held : h <= m - 1}
    BY <2>3, ListedBlocks
  <2> HIDE DEF below
  <2>5. /\ joined \in Seq(Int) /\ Len(joined) = n + Len(below) /\ Len(below) \in Nat
        /\ \A i \in 1..n : joined[i] = page[i]
        /\ \A i \in 1..Len(below) : joined[n + i] = below[i]
    <3>1. page \in Seq(Int) /\ Len(page) = n /\ n \in Nat /\ Len(below) \in Nat
      BY <1>3, <1>4, <2>4
    <3>2. /\ joined \in Seq(Int) /\ Len(joined) = n + Len(below)
          /\ \A i \in 1..n + Len(below) : joined[i] = IF i <= n THEN page[i] ELSE below[i - n]
      BY <2>4, <3>1, ConcatProperties DEF joined
    <3> HIDE DEF joined
    <3>3. \A i \in 1..n : i \in 1..n + Len(below) /\ i <= n
      BY <3>1
    <3>4. \A i \in 1..Len(below) : n + i \in 1..n + Len(below) /\ ~ n + i <= n /\ n + i - n = i
      BY <3>1
    <3> QED BY <3>1, <3>2, <3>3, <3>4
  <2>6. \A h \in Held : h \in Int
    BY StoreAssumption DEF Held, Heights
  <2>7. \A i, j \in 1..Len(all) : i < j => all[i] > all[j]
    <3>1. \A i \in 1..Len(all) : all[i] \in Int
      BY <1>1
    <3> QED BY <1>1, <1>4, <3>1 DEF Falls, Itself
  <2>8. \A i, j \in 1..Len(below) : i < j => below[i] > below[j]
    <3>1. DOMAIN below = 1..Len(below) /\ \A i \in 1..Len(below) : below[i] \in Int
      BY <2>4
    <3> QED BY <2>4, <3>1 DEF Falls, Itself
  <2>9. \A i \in 1..Len(below) : below[i] \in Held /\ below[i] <= m - 1
    <3>1. \A i \in 1..Len(below) : below[i] \in Members(below)
      BY <2>4 DEF Members
    <3> QED BY <2>4, <3>1
  <2>10. \A i \in 1..n : all[i] >= m /\ all[i] \in Int
    BY <1>1, <1>4, <2>1, <2>7, <2>2
  <2> HIDE DEF joined
  <2>11. Falls(joined, Itself)
    <3>1. DOMAIN joined = 1..n + Len(below) /\ \A i \in 1..n + Len(below) : joined[i] \in Int
      BY <2>5
    <3> SUFFICES ASSUME NEW i \in 1..n + Len(below), NEW j \in 1..n + Len(below), i < j
                 PROVE  joined[i] > joined[j]
      BY <3>1 DEF Falls, Itself
    <3>2. CASE j <= n
      <4>1. i \in 1..n /\ j \in 1..n /\ i \in 1..Len(all) /\ j \in 1..Len(all)
        BY <1>3, <1>4, <3>2
      <4>2. joined[i] = all[i] /\ joined[j] = all[j]
        BY <1>3, <2>5, <4>1
      <4> QED BY <2>7, <4>1, <4>2
    <3>3. CASE i > n
      <4>0. n \in Int /\ Len(below) \in Int /\ i \in Int /\ j \in Int
        BY <1>3, <2>5
      <4>1. /\ i - n \in 1..Len(below) /\ j - n \in 1..Len(below) /\ i - n < j - n
            /\ n + (i - n) = i /\ n + (j - n) = j
        BY <3>3, <4>0
      <4>2. joined[i] = below[i - n] /\ joined[j] = below[j - n]
        BY <2>5, <4>1
      <4> QED BY <2>8, <4>1, <4>2
    <3>4. CASE i <= n /\ j > n
      <4>1. i \in 1..n /\ j - n \in 1..Len(below) /\ n + (j - n) = j
        BY <1>3, <2>5, <3>4
      <4>2. joined[i] = all[i] /\ joined[j] = below[j - n]
        BY <1>3, <2>5, <4>1
      <4>3. all[i] >= m /\ below[j - n] <= m - 1 /\ all[i] \in Int /\ below[j - n] \in Int
        BY <2>6, <2>9, <2>10, <4>1
      <4> QED BY <2>2, <4>2, <4>3
    <3> QED BY <1>3, <3>2, <3>3, <3>4
  <2>12. Members(joined) = Members(all)
    <3>1. DOMAIN joined = 1..n + Len(below)
      BY <2>5
    <3>2. \A i \in 1..n + Len(below) : joined[i] \in Members(all)
      <4> SUFFICES ASSUME NEW i \in 1..n + Len(below) PROVE joined[i] \in Members(all)
        OBVIOUS
      <4>1. CASE i <= n
        <5>1. i \in 1..n /\ i \in 1..Len(all)
          BY <1>3, <1>4, <4>1
        <5>2. joined[i] = all[i]
          BY <1>3, <2>5, <5>1
        <5> QED BY <1>4, <5>1, <5>2 DEF Members
      <4>2. CASE i > n
        <5>1. i - n \in 1..Len(below) /\ n + (i - n) = i
          BY <1>3, <2>5, <4>2
        <5>2. joined[i] = below[i - n]
          BY <2>5, <5>1
        <5>3. below[i - n] \in Held /\ below[i - n] <= m - 1
          BY <2>9, <5>1
        <5>4. below[i - n] <= before
          <6>1. below[i - n] \in Int /\ below[i - n] <= m - 1
            BY <2>6, <5>3
          <6> HIDE DEF below
          <6> QED BY <1>0, <2>2, <6>1
        <5> QED BY <1>1, <5>2, <5>3, <5>4
      <4> QED BY <1>3, <4>1, <4>2
    <3>3. ASSUME NEW h \in Members(all) PROVE \E i \in 1..n + Len(below) : joined[i] = h
      <4>1. h \in Held /\ h <= before /\ h \in Int
        BY <1>1, <2>6
      <4>2. PICK i \in 1..Len(all) : h = all[i]
        BY <1>4 DEF Members
      <4>3. CASE i <= n
        <5>1. i \in 1..n /\ i \in 1..n + Len(below)
          BY <1>3, <2>5, <4>3
        <5> QED BY <1>3, <2>5, <4>2, <5>1
      <4>4. CASE i > n
        <5>1. all[n] > all[i]
          BY <1>4, <2>1, <2>7, <4>4
        <5>2. h <= m - 1
          BY <2>1, <2>2, <4>1, <4>2, <5>1
        <5>3. h \in Members(below)
          BY <2>4, <4>1, <5>2
        <5>4. PICK k \in 1..Len(below) : h = below[k]
          BY <2>4, <5>3 DEF Members
        <5>5. n + k \in 1..n + Len(below)
          BY <1>3, <2>5
        <5> QED BY <2>5, <5>4, <5>5
      <4> QED BY <1>3, <4>3, <4>4
    <3>4. Members(joined) \subseteq Members(all)
      BY <3>1, <3>2 DEF Members
    <3>5. Members(all) \subseteq Members(joined)
      BY <3>1, <3>3 DEF Members
    <3> QED BY <3>4, <3>5
  <2>13. Itself \in [Int -> Int]
    BY DEF Itself
  <2>14. joined = all
    BY <1>1, <2>5, <2>11, <2>12, <2>13, SameList
  <2> QED BY <2>3, <2>14 DEF m, below, joined
<1> QED BY <1>4, <1>5, <1>6 DEF all, page, n

\* Page after page, the list is that of all blocks.
LEMMA PagesJoined ==
  ASSUME TypeOK, NewestKept
  PROVE  PagesJoin
<1> SUFFICES ASSUME NEW limit \in 1..MaxBlocks
             PROVE  LET rest[before \in Heights \cup {-1}] ==
                          LET page == blocksBefore(before, limit)
                          IN  IF page = <<>> THEN <<>> ELSE page \o rest[page[Len(page)] - 1]
                    IN  IF tip = -1 THEN Held = {} ELSE rest[tip] = Selected(Down(MaxHeight, 0), Held)
  BY DEF PagesJoin
<1> DEFINE D == Heights \cup {-1}
           pageOf(before) == blocksBefore(before, limit)
           body(f, before) == IF pageOf(before) = <<>> THEN <<>>
                              ELSE pageOf(before) \o f[pageOf(before)[Len(pageOf(before))] - 1]
           rest[before \in Heights \cup {-1}] ==
                          LET page == blocksBefore(before, limit)
                          IN  IF page = <<>> THEN <<>> ELSE page \o rest[page[Len(page)] - 1]
           full == [before \in D |-> AllBefore(before)]
<1>1. /\ D \in SUBSET Int /\ TypeOK /\ NewestKept
      /\ \A before \in D :
           \/ /\ pageOf(before) = <<>>
              /\ AllBefore(before) = <<>>
           \/ /\ pageOf(before) # <<>>
              /\ pageOf(before)[Len(pageOf(before))] - 1 \in D
              /\ pageOf(before)[Len(pageOf(before))] - 1 < before
              /\ pageOf(before) \o AllBefore(pageOf(before)[Len(pageOf(before))] - 1)
                 = AllBefore(before)
  <2>1. D \in SUBSET Int
    BY StoreAssumption DEF Heights
  <2>2. ASSUME NEW before \in D
        PROVE  LET page == pageOf(before) IN
         /\ page = <<>> => AllBefore(before) = <<>>
         /\ page # <<>> =>
              /\ page[Len(page)] - 1 \in Heights \cup {-1} /\ page[Len(page)] - 1 < before
              /\ page \o AllBefore(page[Len(page)] - 1) = AllBefore(before)
    BY PageAndRest
  <2> HIDE DEF pageOf
  <2> QED BY <2>1, <2>2
<1> HIDE DEF pageOf
<1>2. full = [before \in D |-> body(full, before)]
  <2>1. ASSUME NEW before \in D PROVE AllBefore(before) = body(full, before)
    BY <1>1
  <2> HIDE DEF body
  <2> QED BY <2>1
<1>3. rest = [before \in D |-> body(rest, before)]
  <2>1. \E f : f = [before \in D |-> body(f, before)]
    BY <1>2
  <2> QED BY <2>1 DEF pageOf
<1> HIDE DEF rest
<1>4. \A before \in D : rest[before] = body(rest, before)
  <2> HIDE DEF body
  <2> QED BY <1>3
<1>5. \A before \in D : rest[before] = AllBefore(before)
  <2> DEFINE wrong == {before \in D : rest[before] # AllBefore(before)}
             up == {before + 1 : before \in wrong}
  <2> SUFFICES ASSUME wrong # {} PROVE FALSE
    OBVIOUS
  <2>1. up \in SUBSET Nat /\ up # {}
    <3>1. \A before \in D : before + 1 \in Nat
      BY StoreAssumption DEF Heights
    <3> QED BY <3>1
  <2>2. PICK u \in up : \A v \in up : u <= v
    <3> HIDE DEF up
    <3> QED BY <2>1, LeastNat
  <2>3. PICK before \in wrong : u = before + 1
    BY <2>2
  <2>4. before \in D /\ before \in Int /\ rest[before] # AllBefore(before)
    BY <1>1, <2>3
  <2>5. \A other \in D : other < before => rest[other] = AllBefore(other)
    <3> SUFFICES ASSUME NEW other \in D, other < before, other \in wrong PROVE FALSE
      OBVIOUS
    <3>1. other + 1 \in up
      OBVIOUS
    <3>2. other \in Int /\ before + 1 <= other + 1
      BY <1>1, <2>2, <2>3, <3>1
    <3> QED BY <2>4, <3>2
  <2> HIDE DEF wrong, up
  <2>6. CASE pageOf(before) = <<>>
    BY <1>1, <1>4, <2>4, <2>6
  <2>7. CASE pageOf(before) # <<>>
    <3> DEFINE next == pageOf(before)[Len(pageOf(before))] - 1
    <3>1. /\ next \in D /\ next < before /\ pageOf(before) \o AllBefore(next) = AllBefore(before)
          /\ rest[before] = pageOf(before) \o rest[next]
      BY <1>1, <1>4, <2>4, <2>7
    <3> HIDE DEF next
    <3>2. rest[next] = AllBefore(next)
      BY <2>5, <3>1
    <3> QED BY <2>4, <3>1, <3>2
  <2> QED BY <2>6, <2>7
<1>6. ASSUME tip = -1 PROVE Held = {}
  <2>1. \A h \in Held : h <= -1 /\ h \in Nat
    BY <1>6, StoreAssumption DEF NewestKept, Held, Heights
  <2> QED BY <2>1
<1>7. ASSUME tip # -1 PROVE rest[tip] = Selected(Down(MaxHeight, 0), Held)
  <2>1. tip \in D
    BY DEF TypeOK
  <2>2. /\ AllBefore(tip) \in Seq(Int) /\ Falls(AllBefore(tip), Itself)
        /\ Members(AllBefore(tip)) = {h \in Held : h <= tip}
    BY <2>1, ListedBlocks
  <2>3. {h \in Held : h <= tip} = Held
    BY DEF NewestKept
  <2>4. AllBefore(tip) = Selected(Down(MaxHeight, 0), Held)
    <3>1. Members(AllBefore(tip)) = Members(Selected(Down(MaxHeight, 0), Held))
      BY <2>2, <2>3, ListedHeights
    <3>2. Itself \in [Int -> Int]
      BY DEF Itself
    <3> QED BY <2>2, <3>1, <3>2, ListedHeights, SameList
  <2> QED BY <1>5, <2>1, <2>4
<1>8. IF tip = -1 THEN Held = {} ELSE rest[tip] = Selected(Down(MaxHeight, 0), Held)
  BY <1>6, <1>7
<1> QED BY <1>8 DEF rest

\* The height at which a retained transaction is found.
At(t) == IF t \in RetainedTxs THEN CHOOSE h \in Held : TxOf[blocks[h]] = t ELSE -1
Ages == [t \in Txs |-> At(t)]

LEMMA TxAges ==
  ASSUME TablesInv
  PROVE  /\ Ages \in [Txs -> Int] /\ RetainedTxs \subseteq Txs
         /\ \A h \in Held : TxOf[blocks[h]] # None => Ages[TxOf[blocks[h]]] = h
         /\ \A t \in RetainedTxs : Ages[t] \in Held /\ TxOf[blocks[Ages[t]]] = t /\ t # None
<1>1. RetainedTxs \subseteq Txs
  BY RetainedTxsFinite DEF TablesInv, IInv
<1>2. PICK C \in Chains : Retained \subseteq C
  BY DEF TablesInv, OneChain
<1>3. \A h, k \in Held : TxOf[blocks[h]] = TxOf[blocks[k]] /\ TxOf[blocks[h]] # None => h = k
  <2> SUFFICES ASSUME NEW h \in Held, NEW k \in Held,
                      TxOf[blocks[h]] = TxOf[blocks[k]], TxOf[blocks[h]] # None
               PROVE  h = k
    OBVIOUS
  <2>1. blocks[h] \in Retained /\ blocks[k] \in Retained /\ blocks[k] \in C
    BY <1>2 DEF Retained
  <2>2. blocks[h] = blocks[k]
    BY <1>2, <2>1, OneBlockPerTx
  <2> QED BY <2>2 DEF TablesInv, Placed
<1>4. \A t \in RetainedTxs : At(t) \in Held /\ TxOf[blocks[At(t)]] = t /\ t # None
  BY HeldOf DEF At
<1>5. \A h \in Held : TxOf[blocks[h]] # None => TxOf[blocks[h]] \in RetainedTxs
  BY HeldOf
<1>6. \A h \in Held : TxOf[blocks[h]] # None => At(TxOf[blocks[h]]) = h
  BY <1>3, <1>4, <1>5
<1>7. \A t \in Txs : At(t) \in Int
  <2>1. \A h \in Held : h \in Int
    BY StoreAssumption DEF Held, Heights
  <2>2. \A t \in Txs : t \notin RetainedTxs => At(t) = -1
    BY DEF At
  <2> HIDE DEF At
  <2> QED BY <1>4, <2>1, <2>2
<1> QED BY <1>1, <1>4, <1>5, <1>6, <1>7 DEF Ages

LEMMA RecentFalls ==
  ASSUME TablesInv
  PROVE  /\ recentTxs(Infinity) \in Seq(Txs) /\ Falls(recentTxs(Infinity), Ages)
         /\ Members(recentTxs(Infinity)) = RetainedTxs
<1> DEFINE B == {h \in Held : TxOf[blocks[h]] # None}
           d == Down(tip, low)
           all == Selected(d, B)
           n == Len(all)
           s == [i \in DOMAIN all |-> TxOf[blocks[all[i]]]]
<1>1. /\ tip \in Int /\ low \in Int /\ Larger(0, tip - low + 1) \in 0..Infinity /\ Infinity \in Nat
      /\ B \subseteq low..tip
  <2>1. /\ tip \in Int /\ low \in Nat /\ tip <= MaxHeight /\ MaxHeight \in Nat
        /\ \A h \in Held : h \in Int /\ low <= h /\ h <= tip
    BY StoreAssumption DEF TablesInv, IInv, TypeOK, NewestKept, Heights, Infinity, Held
  <2> QED BY <2>1 DEF Larger, Infinity
<1>2. d \in Seq(Int) /\ Len(d) \in 0..Infinity /\ Members(d) = low..tip /\ Falls(d, Itself)
  BY <1>1, DownFalls
<1>3. Itself \in [Int -> Int]
  BY DEF Itself
<1> HIDE DEF d, B
<1>4. /\ all \in Seq(Int) /\ n \in 0..Len(d) /\ Falls(all, Itself)
      /\ Members(all) = Members(d) \cap B
  <2>1. d \in Seq(Int) /\ Falls(d, Itself)
    BY <1>2
  <2> HIDE DEF all, n, s
  <2>2. /\ Selected(d, B) \in Seq(Int) /\ Len(Selected(d, B)) \in 0..Len(d)
        /\ Falls(Selected(d, B), Itself) /\ Members(Selected(d, B)) = Members(d) \cap B
    BY <2>1, SelectedHeights
  <2> QED BY <2>2 DEF all, n
<1> HIDE DEF all
<1>5. Members(all) = B
  BY <1>1, <1>2, <1>4
<1>6. n \in Nat /\ n <= Infinity /\ DOMAIN all = 1..n /\ Len(d) \in Nat
  BY <1>1, <1>2, <1>4
<1> HIDE DEF n
<1>7. \A i \in 1..n : all[i] \in Held /\ TxOf[blocks[all[i]]] # None /\ all[i] \in Int
  <2>1. \A i \in 1..n : all[i] \in B
    BY <1>5, <1>6 DEF Members
  <2> QED BY <1>4, <1>6, <2>1 DEF B
<1>8. s \in Seq(Txs) /\ Len(s) = n /\ DOMAIN s = 1..n
  <2>1. \A i \in 1..n : TxOf[blocks[all[i]]] \in Txs
    BY <1>7, HeldOf, TxAges
  <2> QED BY <1>6, <2>1
<1>9. \A i \in 1..n : s[i] = TxOf[blocks[all[i]]] /\ Ages[s[i]] = all[i]
  BY <1>6, <1>7, TxAges
<1> HIDE DEF s
<1>10. Falls(s, Ages)
  <2> SUFFICES ASSUME NEW i \in 1..n, NEW j \in 1..n, i < j PROVE all[i] > all[j]
    BY <1>8, <1>9 DEF Falls
  <2>1. Itself[all[i]] > Itself[all[j]]
    BY <1>4, <1>6 DEF Falls
  <2> QED BY <1>7, <2>1 DEF Itself
<1>11. Members(s) = RetainedTxs
  <2>1. \A i \in 1..n : s[i] \in RetainedTxs
    BY <1>7, <1>9, HeldOf
  <2>2. ASSUME NEW t \in RetainedTxs PROVE \E i \in 1..n : s[i] = t
    <3>1. PICK h \in Held : TxOf[blocks[h]] = t /\ t # None
      BY HeldOf
    <3>2. h \in Members(all)
      BY <1>5, <3>1 DEF B
    <3>3. PICK i \in 1..n : all[i] = h
      BY <1>6, <3>2 DEF Members
    <3> QED BY <1>9, <3>1, <3>3
  <2>3. Members(s) = {s[i] : i \in 1..n}
    BY <1>8 DEF Members
  <2> QED BY <2>1, <2>2, <2>3
<1>12. recentTxs(Infinity) = Upto(s, Infinity)
  BY DEF recentTxs, s, all, d, B
<1>13. Upto(s, Infinity) = s
  BY <1>1, <1>6, <1>8, UptoPlaces
<1> QED BY <1>8, <1>10, <1>11, <1>12, <1>13

\* An account's own list is its part of the recent one.
LEMMA AccountFalls ==
  ASSUME TablesInv, NEW a \in Accounts
  PROVE  /\ Reversed(ids[a]) \in Seq(Txs) /\ Falls(Reversed(ids[a]), Ages)
         /\ Members(Reversed(ids[a])) = {t \in RetainedTxs : a \in AccountsOf[t]}
<1> DEFINE s == ids[a]
           n == Len(s)
           r == [i \in 1..n |-> s[n - i + 1]]
<1>1. s \in Seq(Txs) /\ n \in Nat /\ DOMAIN s = 1..n /\ Reversed(s) = r
  BY DEF TablesInv, IInv, TypeOK, Reversed
<1>2. /\ {s[i] : i \in 1..n} = {t \in RetainedTxs : a \in AccountsOf[t]}
      /\ \A i, j \in 1..n, h, k \in Held :
           i < j /\ TxOf[blocks[h]] = s[i] /\ TxOf[blocks[k]] = s[j] => h < k
  <2>1. AccountsExact
    BY DEF TablesInv
  <2> HIDE DEF n
  <2> QED BY <1>1, <2>1 DEF AccountsExact
<1> HIDE DEF s
<1>3. \A i \in 1..n : s[i] \in Txs /\ s[i] \in RetainedTxs
  BY <1>1, <1>2
<1> HIDE DEF n
<1>4. \A i \in 1..n : n - i + 1 \in 1..n /\ n - (n - i + 1) + 1 = i
  BY <1>1
<1>5. r \in Seq(Txs) /\ Len(r) = n /\ DOMAIN r = 1..n /\ \A i \in 1..n : r[i] = s[n - i + 1]
  BY <1>1, <1>3, <1>4
<1> HIDE DEF r
<1>6. \A i, j \in 1..n : i < j => Ages[s[i]] < Ages[s[j]]
  BY <1>2, <1>3, TxAges
<1>7. Falls(r, Ages)
  <2> SUFFICES ASSUME NEW i \in 1..n, NEW j \in 1..n, i < j PROVE Ages[r[i]] > Ages[r[j]]
    BY <1>5 DEF Falls
  <2>1. n - j + 1 < n - i + 1 /\ n - i + 1 \in 1..n /\ n - j + 1 \in 1..n
    BY <1>1
  <2>2. Ages[s[n - j + 1]] < Ages[s[n - i + 1]]
    BY <1>6, <2>1
  <2>3. Ages[s[n - j + 1]] \in Int /\ Ages[s[n - i + 1]] \in Int
    BY <1>3, <2>1, TxAges
  <2>4. r[i] = s[n - i + 1] /\ r[j] = s[n - j + 1]
    BY <1>5
  <2> QED BY <2>2, <2>3, <2>4
<1>8. Members(r) = {s[i] : i \in 1..n}
  <2>1. Members(r) = {r[i] : i \in 1..n}
    BY <1>5 DEF Members
  <2>2. \A i \in 1..n : r[i] \in {s[j] : j \in 1..n}
    BY <1>4, <1>5
  <2>3. \A i \in 1..n : r[n - i + 1] = s[i]
    BY <1>4, <1>5
  <2>4. \A i \in 1..n : s[i] \in {r[j] : j \in 1..n}
    BY <1>4, <2>3
  <2> QED BY <2>1, <2>2, <2>4
<1> QED BY <1>1, <1>2, <1>5, <1>7, <1>8 DEF s

LEMMA AccountListed ==
  ASSUME TablesInv, NEW a \in Accounts
  PROVE  /\ Selected(Reversed(ids[a]), txs) \in Seq(Txs)
         /\ Members(Selected(Reversed(ids[a]), txs)) = {t \in RetainedTxs : a \in AccountsOf[t]}
         /\ Selected(Reversed(ids[a]), txs)
              = Selected(recentTxs(Infinity), {t \in Txs : a \in AccountsOf[t]})
<1> DEFINE own == {t \in RetainedTxs : a \in AccountsOf[t]}
           his == {t \in Txs : a \in AccountsOf[t]}
           r == Reversed(ids[a])
           x == recentTxs(Infinity)
           f == Ages
<1>1. own \cap txs = own /\ RetainedTxs \cap his = own /\ f \in [Txs -> Int]
  BY TxAges DEF TablesInv, TxsExact
<1>2. r \in Seq(Txs) /\ Falls(r, f) /\ Members(r) = own
  BY AccountFalls
<1>3. x \in Seq(Txs) /\ Falls(x, f) /\ Members(x) = RetainedTxs
  BY RecentFalls
<1> HIDE DEF own, his, r, x, f
<1>4. /\ Selected(r, txs) \in Seq(Txs) /\ Falls(Selected(r, txs), f)
      /\ Members(Selected(r, txs)) = own
  <2>1. r \in Seq(Txs) /\ Falls(r, f)
    BY <1>2
  <2>2. /\ Selected(r, txs) \in Seq(Txs) /\ Falls(Selected(r, txs), f)
        /\ Members(Selected(r, txs)) = Members(r) \cap txs
    BY <1>1, <2>1, SelectedFalls
  <2> QED BY <1>1, <1>2, <2>2
<1>5. /\ Selected(x, his) \in Seq(Txs) /\ Falls(Selected(x, his), f)
      /\ Members(Selected(x, his)) = own
  <2>1. x \in Seq(Txs) /\ Falls(x, f)
    BY <1>3
  <2>2. /\ Selected(x, his) \in Seq(Txs) /\ Falls(Selected(x, his), f)
        /\ Members(Selected(x, his)) = Members(x) \cap his
    BY <1>1, <2>1, SelectedFalls
  <2> QED BY <1>1, <1>3, <2>2
<1>6. Selected(r, txs) = Selected(x, his)
  <2>1. Members(Selected(r, txs)) = Members(Selected(x, his))
    BY <1>4, <1>5
  <2> QED BY <1>1, <1>4, <1>5, <2>1, SameList
<1> QED BY <1>4, <1>6 DEF own, his, r, x

LEMMA ListsAgreed ==
  ASSUME TablesInv
  PROVE  ListsAgree
<1>1. ASSUME NEW a \in Accounts, NEW limit \in 1..MaxBlocks
      PROVE  accountTxs(a, limit)
               = Upto(Selected(recentTxs(Infinity), {t \in Txs : a \in AccountsOf[t]}), limit)
  BY AccountListed DEF accountTxs
<1>2. ASSUME NEW b \in Blocks, search(b).known
      PROVE  blocks[search(b).ref] = b
  <2>1. b \notin Heights /\ b \notin txs /\ b \notin Accounts
    BY StatsAssumption DEF TablesInv, IInv, TypeOK
  <2>2. b \in hashed
    BY <1>2, <2>1 DEF search
  <2>3. search(b).ref = HeightOf[b]
    BY <2>1, <2>2 DEF search
  <2>4. PICK h \in Held : b = blocks[h]
    BY <2>2 DEF TablesInv, BlocksExact, Retained
  <2> QED BY <2>3, <2>4 DEF TablesInv, Placed
<1>3. ASSUME NEW a \in Accounts
      PROVE  search(a).known <=> accountTxs(a, 1) # <<>>
  <2> DEFINE s == Selected(Reversed(ids[a]), txs)
             own == {t \in RetainedTxs : a \in AccountsOf[t]}
  <2>1. a \notin Heights /\ a \notin hashed /\ a \notin txs
    BY StatsAssumption DEF TablesInv, IInv, TypeOK
  <2>2. search(a).known <=> ids[a] # <<>>
    BY <2>1 DEF search
  <2>3. ids[a] # <<>> <=> own # {}
    <3>1. ids[a] \in Seq(Txs) /\ {ids[a][i] : i \in DOMAIN ids[a]} = own
      BY DEF TablesInv, IInv, TypeOK, AccountsExact
    <3> HIDE DEF own
    <3>2. ids[a] # <<>> <=> \E i \in DOMAIN ids[a] : TRUE
      BY <3>1
    <3> QED BY <3>1, <3>2
  <2>4. s \in Seq(Txs) /\ Members(s) = own
    BY AccountListed
  <2>5. accountTxs(a, 1) = Upto(s, 1)
    BY DEF accountTxs
  <2> HIDE DEF s, own
  <2>6. s # <<>> <=> own # {}
    <3>0. s \in Seq(Txs) /\ Len(s) \in Nat /\ DOMAIN s = 1..Len(s)
      BY <2>4
    <3>1. s # <<>> <=> \E i \in DOMAIN s : TRUE
      <4>1. s = <<>> <=> Len(s) = 0
        BY <3>0
      <4>2. Len(s) = 0 => DOMAIN s = {}
        BY <3>0
      <4>3. Len(s) # 0 => 1 \in DOMAIN s
        BY <3>0
      <4> QED BY <4>1, <4>2, <4>3
    <3> QED BY <2>4, <3>1 DEF Members
  <2>7. Upto(s, 1) # <<>> <=> s # <<>>
    <3>1. Upto(s, 1) \in Seq(Txs) /\ Len(Upto(s, 1)) = Smaller(1, Len(s)) /\ Len(s) \in Nat
      BY <2>4, UptoPlaces
    <3>2. Smaller(1, Len(s)) = 0 <=> Len(s) = 0
      BY <3>1 DEF Smaller
    <3> QED BY <2>4, <3>1, <3>2
  <2> QED BY <2>2, <2>3, <2>5, <2>6, <2>7
<1> QED BY <1>1, <1>2, <1>3 DEF ListsAgree

\* What the store lists is what it holds: pages asked one below the other give every
\* block once, newest first; an account's transactions are the account's among the
\* recent ones, in the same order, for every limit; and search finds a block under
\* its height and an account just when its list is not empty (blocksBefore,
\* recentTxs, accountTxs, search in store.js).
THEOREM ListsCorrect == ReadsSpec => []ListsSound
<1>1. ReadsInv => ListsSound
  BY PagesJoined, ListsAgreed DEF ReadsInv, TablesInv, IInv, LatestHeld, ListsSound, TablesExact
<1> QED BY <1>1, ReadsInvHolds, PTL

-----------------------------------------------------------------------------
(* Statistics of a window: what a walk has gathered at each height.          *)

LEMMA BelowGrows ==
  ASSUME NEW Q \in SUBSET Heights, NEW h \in Heights \cup {-1}
  PROVE  /\ IsFiniteSet(Below(Q, h)) /\ Cardinality(Below(Q, h)) \in Nat
         /\ h \in Q => Cardinality(Below(Q, h)) = Cardinality(Below(Q, h - 1)) + 1
         /\ h \notin Q => Below(Q, h) = Below(Q, h - 1)
         /\ (\A k \in Q : h < k) => Cardinality(Below(Q, h)) = 0
<1>1. \A g \in Int : Below(Q, g) \in SUBSET Heights
  BY DEF Below
<1>2. \A g \in Int : IsFiniteSet(Below(Q, g)) /\ Cardinality(Below(Q, g)) \in Nat
  BY <1>1, HeightsFinite
<1>3. h \in Int /\ h - 1 \in Int /\ \A k \in Q : k \in Int
  BY StoreAssumption DEF Heights
<1>4. ASSUME h \in Q PROVE Cardinality(Below(Q, h)) = Cardinality(Below(Q, h - 1)) + 1
  <2>1. \A k \in Q : k <= h <=> k <= h - 1 \/ k = h
    BY <1>3
  <2>2. ~ h <= h - 1
    BY <1>3
  <2>3. Below(Q, h) = Below(Q, h - 1) \cup {h} /\ h \notin Below(Q, h - 1)
    BY <1>4, <2>1, <2>2 DEF Below
  <2> QED BY <1>2, <1>3, <2>3, FS_AddElement
<1>5. ASSUME h \notin Q PROVE Below(Q, h) = Below(Q, h - 1)
  <2>1. \A k \in Q : k <= h <=> k <= h - 1
    BY <1>3, <1>5
  <2> QED BY <2>1 DEF Below
<1>6. ASSUME \A k \in Q : h < k PROVE Cardinality(Below(Q, h)) = 0
  <2>1. \A k \in Q : ~ k <= h
    BY <1>3, <1>6
  <2>2. Below(Q, h) = {}
    BY <2>1 DEF Below
  <2> QED BY <2>2, FS_EmptySet
<1> QED BY <1>2, <1>3, <1>4, <1>5, <1>6

\* Induction over the heights of a walk.
LEMMA WalkUpward ==
  ASSUME NEW from \in Nat, NEW S \in SUBSET (Heights \cup {-1}),
         \A h \in Heights \cup {-1} : h < from => h \in S,
         \A h \in Heights : from <= h /\ h - 1 \in S => h \in S
  PROVE  \A h \in Heights \cup {-1} : h \in S
<1> DEFINE wrong == Heights \ S
<1>1. \A h \in Heights : h \in Nat /\ (h - 1 \in Heights \/ h - 1 = -1)
  BY StoreAssumption DEF Heights
<1>2. -1 \in S
  OBVIOUS
<1>3. wrong = {}
  <2> SUFFICES ASSUME wrong # {} PROVE FALSE
    OBVIOUS
  <2>1. PICK h \in wrong : \A k \in wrong : h <= k
    <3>1. wrong \in SUBSET Heights
      OBVIOUS
    <3> HIDE DEF wrong
    <3> QED BY <3>1, LeastHeight
  <2>2. h \in Heights /\ h \notin S /\ h \in Nat
    BY <1>1, <2>1
  <2>3. from <= h
    BY <2>2
  <2>4. h - 1 \in S
    <3>1. CASE h - 1 \in Heights
      <4>1. ~ h <= h - 1
        BY <2>2
      <4> QED BY <2>1, <3>1, <4>1
    <3> QED BY <1>1, <1>2, <2>2, <3>1
  <2> QED BY <2>2, <2>3, <2>4
<1> QED BY <1>2, <1>3

-----------------------------------------------------------------------------
(* The wins of miners.                                                       *)

Named(from) == {h \in Held : from <= h /\ ProposerOf[blocks[h]] # NoMiner}
NamedBy(p, from) == {h \in Named(from) : ProposerOf[blocks[h]] = p}
WinsAt(from, h) == [covered |-> Cardinality(Below(Named(from), h)),
                    wins |-> [p \in Proposers |-> Cardinality(Below(NamedBy(p, from), h))]]

LEMMA WinsStep ==
  ASSUME TypeOK, NEW from \in Nat
  PROVE  /\ \A h \in Heights \cup {-1} :
              h < from => WinsAt(from, h) = [covered |-> 0, wins |-> [p \in Proposers |-> 0]]
         /\ \A h \in Heights : from <= h => WinsAt(from, h) = Win(WinsAt(from, h - 1), h)
<1>1. /\ Named(from) \in SUBSET Heights /\ \A p : NamedBy(p, from) \in SUBSET Heights
      /\ \A h \in Heights \cup {-1} : h \in Int
  BY StoreAssumption DEF Named, NamedBy, Held, Heights
<1>2. ASSUME NEW h \in Heights \cup {-1}, h < from
      PROVE  WinsAt(from, h) = [covered |-> 0, wins |-> [p \in Proposers |-> 0]]
  <2>1. \A k \in Named(from) : h < k
    <3>1. \A k \in Named(from) : k \in Int /\ from <= k
      BY <1>1 DEF Named
    <3> QED BY <1>1, <1>2, <3>1
  <2>2. \A p : \A k \in NamedBy(p, from) : h < k
    BY <2>1 DEF NamedBy
  <2>3. Cardinality(Below(Named(from), h)) = 0
    BY <1>1, <2>1, BelowGrows
  <2>4. \A p \in Proposers : Cardinality(Below(NamedBy(p, from), h)) = 0
    BY <1>1, <2>2, BelowGrows
  <2> QED BY <2>3, <2>4 DEF WinsAt
<1>3. ASSUME NEW h \in Heights, from <= h
      PROVE  WinsAt(from, h) = Win(WinsAt(from, h - 1), h)
  <2> DEFINE s == WinsAt(from, h - 1)
             t == WinsAt(from, h)
             q == ProposerOf[blocks[h]]
             c(Q, k) == Cardinality(Below(Q, k))
  <2>1. \A Q \in SUBSET Heights : c(Q, h) = IF h \in Q THEN c(Q, h - 1) + 1 ELSE c(Q, h - 1)
    BY BelowGrows
  <2> HIDE DEF c
  <2>2. /\ s = [covered |-> c(Named(from), h - 1),
                wins |-> [p \in Proposers |-> c(NamedBy(p, from), h - 1)]]
        /\ t = [covered |-> c(Named(from), h),
                wins |-> [p \in Proposers |-> c(NamedBy(p, from), h)]]
    BY DEF WinsAt, c
  <2>3. CASE blocks[h] = None \/ q = NoMiner
    <3>1. h \notin Named(from) /\ \A p : h \notin NamedBy(p, from)
      BY <2>3 DEF Named, NamedBy, Held
    <3>2. c(Named(from), h) = c(Named(from), h - 1)
      BY <1>1, <2>1, <3>1
    <3>3. \A p \in Proposers : c(NamedBy(p, from), h) = c(NamedBy(p, from), h - 1)
      BY <1>1, <2>1, <3>1
    <3>4. t = s
      <4> HIDE DEF s, t
      <4> QED BY <2>2, <3>2, <3>3
    <3>5. Win(s, h) = s
      BY <2>3 DEF Win
    <3> QED BY <3>4, <3>5
  <2>4. CASE blocks[h] # None /\ q # NoMiner
    <3>1. h \in Named(from) /\ \A p : h \in NamedBy(p, from) <=> p = q
      BY <1>3, <2>4 DEF Named, NamedBy, Held
    <3>2. c(Named(from), h) = c(Named(from), h - 1) + 1
      BY <1>1, <2>1, <3>1
    <3>3. \A p \in Proposers : c(NamedBy(p, from), h)
             = IF p = q THEN c(NamedBy(p, from), h - 1) + 1 ELSE c(NamedBy(p, from), h - 1)
      BY <1>1, <2>1, <3>1
    <3>4. q \in Proposers
      BY <2>4, StoreAssumption DEF TypeOK
    <3>5. Win(s, h) = [covered |-> s.covered + 1, wins |-> [s.wins EXCEPT ![q] = @ + 1]]
      BY <2>4 DEF Win
    <3> HIDE DEF s, t, q
    <3>6. /\ s.covered = c(Named(from), h - 1)
          /\ s.wins = [p \in Proposers |-> c(NamedBy(p, from), h - 1)]
      BY <2>2
    <3>7. [s.wins EXCEPT ![q] = @ + 1] = [p \in Proposers |-> c(NamedBy(p, from), h)]
      BY <3>3, <3>4, <3>6
    <3>8. t = Win(s, h)
      BY <2>2, <3>2, <3>5, <3>6, <3>7
    <3> QED BY <3>8 DEF s, t
  <2> QED BY <2>3, <2>4
<1> QED BY <1>2, <1>3

LEMMA WinsGathered ==
  ASSUME TypeOK, NEW from \in Nat
  PROVE  Walk(from, [covered |-> 0, wins |-> [p \in Proposers |-> 0]], Win) = WinsAt(from, tip)
<1> DEFINE D == Heights \cup {-1}
           start == [covered |-> 0, wins |-> [p \in Proposers |-> 0]]
           full == [h \in D |-> WinsAt(from, h)]
           gathered[h \in Heights \cup {-1}] == IF h < from THEN start ELSE Win(gathered[h - 1], h)
<1>1. /\ \A h \in D : h < from => WinsAt(from, h) = start
      /\ \A h \in Heights : from <= h => WinsAt(from, h) = Win(WinsAt(from, h - 1), h)
  BY WinsStep
<1>2. \A h \in D : ~ h < from => h \in Heights /\ h - 1 \in D
  BY StoreAssumption DEF Heights
<1>3. full = [h \in D |-> IF h < from THEN start ELSE Win(full[h - 1], h)]
  <2>1. ASSUME NEW h \in D
        PROVE  WinsAt(from, h) = IF h < from THEN start ELSE Win(full[h - 1], h)
    <3>1. CASE h < from
      BY <1>1, <3>1
    <3>2. CASE ~ h < from
      <4>1. h \in Heights /\ h - 1 \in D /\ from <= h
        BY <1>2, <3>2 DEF Heights
      <4>2. full[h - 1] = WinsAt(from, h - 1)
        BY <4>1
      <4> QED BY <1>1, <3>2, <4>1, <4>2
    <3> QED BY <3>1, <3>2
  <2> QED BY <2>1
<1>4. gathered = [h \in D |-> IF h < from THEN start ELSE Win(gathered[h - 1], h)]
  <2>1. \E f : f = [h \in D |-> IF h < from THEN start ELSE Win(f[h - 1], h)]
    <3> HIDE DEF full, start
    <3> WITNESS full
    <3> QED BY <1>3
  <2> QED BY <2>1
<1>5. gathered[tip] = WinsAt(from, tip)
  <2> HIDE DEF gathered, start
  <2>1. \A h \in D : h < from => gathered[h] = start /\ full[h] = start
    BY <1>1, <1>4
  <2>2. ASSUME NEW h \in Heights, from <= h, gathered[h - 1] = full[h - 1]
        PROVE  gathered[h] = full[h]
    <3>1. ~ h < from /\ h \in D
      BY <2>2 DEF Heights
    <3>2. gathered[h] = Win(gathered[h - 1], h) /\ full[h] = Win(full[h - 1], h)
      <4> HIDE DEF full
      <4> QED BY <1>3, <1>4, <3>1
    <3> QED BY <2>2, <3>2
  <2>3. gathered[tip] = full[tip] /\ tip \in D
    <3>1. tip \in D
      BY DEF TypeOK
    <3> DEFINE S == {h \in D : gathered[h] = full[h]}
    <3>2. \A h \in Heights \cup {-1} : h < from => h \in S
      BY <2>1
    <3>3. \A h \in Heights : from <= h /\ h - 1 \in S => h \in S
      BY <2>2
    <3>4. S \in SUBSET (Heights \cup {-1})
      OBVIOUS
    <3> HIDE DEF S
    <3>5. tip \in S
      BY <3>1, <3>2, <3>3, <3>4, WalkUpward
    <3> QED BY <3>1, <3>5 DEF S
  <2> QED BY <2>3
<1> QED BY <1>5 DEF Walk

-----------------------------------------------------------------------------
(* The intervals between blocks that are neighbours.                         *)

\* The i-th of Q, counted upward.
Nth(Q, i) == CHOOSE k \in Q : Cardinality(Below(Q, k)) = i

LEMMA NthPlace ==
  ASSUME NEW Q \in SUBSET Heights
  PROVE  /\ \A i \in 1..Cardinality(Q) : Nth(Q, i) \in Q /\ Cardinality(Below(Q, Nth(Q, i))) = i
         /\ \A h \in Q : /\ Cardinality(Below(Q, h)) \in 1..Cardinality(Q)
                         /\ Nth(Q, Cardinality(Below(Q, h))) = h
<1>1. MaxHeight \in Nat /\ Q \in SUBSET (0..MaxHeight) /\ Cardinality(Q) \in Nat
  BY StoreAssumption, HeightsFinite DEF Heights
<1>2. \A i \in 1..Cardinality(Q) : Nth(Q, i) \in Q /\ Cardinality(Below(Q, Nth(Q, i))) = i
  <2> SUFFICES ASSUME NEW i \in 1..Cardinality(Q)
               PROVE  Nth(Q, i) \in Q /\ Cardinality(Below(Q, Nth(Q, i))) = i
    OBVIOUS
  <2>1. \E h \in Q : Cardinality(Below(Q, h)) = i
    BY <1>1, PlaceTaken
  <2> QED BY <2>1 DEF Nth
<1>3. ASSUME NEW h \in Q
      PROVE  /\ Cardinality(Below(Q, h)) \in 1..Cardinality(Q)
             /\ Nth(Q, Cardinality(Below(Q, h))) = h
  <2> DEFINE r(k) == Cardinality(Below(Q, k))
             g == Nth(Q, r(h))
  <2>1. r(h) \in 1..Cardinality(Q)
    BY <1>1, RankRises
  <2>2. g \in Q /\ r(g) = r(h)
    BY <1>2, <2>1
  <2>3. \A j, k \in Q : j < k => r(j) < r(k)
    BY <1>1, RankRises
  <2>4. g \in Int /\ h \in Int /\ r(h) \in Int
    <3>1. \A k \in Q : k \in Int
      BY <1>1
    <3> HIDE DEF g
    <3> QED BY <1>1, <2>1, <2>2, <3>1
  <2> HIDE DEF r, g
  <2>5. ~ g < h /\ ~ h < g
    BY <2>2, <2>3, <2>4
  <2>6. g = h
    BY <2>4, <2>5
  <2> QED BY <2>1, <2>6 DEF r, g
<1> QED BY <1>2, <1>3

Gap(h) == TimeOf[blocks[h]] - TimeOf[blocks[h - 1]]
Pairs(from) == {h \in Held : h - 1 \in Held /\ from <= h - 1}
Rising(from) == {h \in Pairs(from) : Gap(h) >= 0}
Falling(from) == {h \in Pairs(from) : Gap(h) < 0}
GapsUpTo(Q, h) == [i \in 1..Cardinality(Below(Q, h)) |-> Gap(Nth(Q, i))]
PreviousAt(from, h) == IF from <= h /\ h \in Held THEN TimeOf[blocks[h]] ELSE None
TimesAt(from, h) == [previous |-> PreviousAt(from, h),
                     deltas |-> GapsUpTo(Rising(from), h),
                     backwards |-> Cardinality(Below(Falling(from), h))]

LEMMA HeldTimes ==
  ASSUME TypeOK
  PROVE  /\ \A h \in Held : TimeOf[blocks[h]] \in Nat /\ TimeOf[blocks[h]] # None /\ h \in Nat /\ h \in Heights
         /\ \A from : /\ Pairs(from) \in SUBSET Heights /\ Rising(from) \in SUBSET Heights
                      /\ Falling(from) \in SUBSET Heights
                      /\ \A h \in Pairs(from) : Gap(h) \in Int /\ h \in Held /\ h - 1 \in Held
<1>1. \A h \in Held : blocks[h] \in Blocks /\ h \in Heights /\ h \in Nat
  BY StoreAssumption DEF Held, TypeOK, Heights
<1>2. \A h \in Held : TimeOf[blocks[h]] \in Nat /\ TimeOf[blocks[h]] # None
  BY <1>1, StatsAssumption
<1>3. \A from : \A h \in Pairs(from) : Gap(h) \in Int /\ h \in Held /\ h - 1 \in Held
  BY <1>2 DEF Pairs, Gap
<1>4. \A from : /\ Pairs(from) \in SUBSET Heights /\ Rising(from) \in SUBSET Heights
                /\ Falling(from) \in SUBSET Heights
  BY DEF Pairs, Rising, Falling, Held
<1> QED BY <1>1, <1>2, <1>3, <1>4

LEMMA GapsGrow ==
  ASSUME NEW Q \in SUBSET Heights, NEW h \in Heights, \A k \in Q : Gap(k) \in Int
  PROVE  /\ h \notin Q => GapsUpTo(Q, h) = GapsUpTo(Q, h - 1)
         /\ h \in Q => GapsUpTo(Q, h) = Append(GapsUpTo(Q, h - 1), Gap(h))
<1>1. ASSUME h \notin Q PROVE GapsUpTo(Q, h) = GapsUpTo(Q, h - 1)
  BY <1>1, BelowGrows DEF GapsUpTo
<1>2. ASSUME h \in Q PROVE GapsUpTo(Q, h) = Append(GapsUpTo(Q, h - 1), Gap(h))
  <2> DEFINE n == Cardinality(Below(Q, h - 1))
             s == GapsUpTo(Q, h - 1)
  <2>1. n \in Nat /\ Cardinality(Below(Q, h)) = n + 1
    <3>1. h - 1 \in Heights \cup {-1}
      BY StoreAssumption DEF Heights
    <3> QED BY <1>2, <3>1, BelowGrows
  <2>2. /\ n + 1 \in 1..Cardinality(Q) /\ Cardinality(Q) \in Nat /\ Nth(Q, n + 1) = h
        /\ \A i \in 1..Cardinality(Q) : Gap(Nth(Q, i)) \in Int
    <3>1. Cardinality(Q) \in Nat
      BY HeightsFinite
    <3>2. /\ n + 1 \in 1..Cardinality(Q) /\ Nth(Q, n + 1) = h
          /\ \A i \in 1..Cardinality(Q) : Nth(Q, i) \in Q
      <4> HIDE DEF n
      <4> QED BY <1>2, <2>1, NthPlace
    <3> QED BY <3>1, <3>2
  <2>3. s = [i \in 1..n |-> Gap(Nth(Q, i))] /\ GapsUpTo(Q, h) = [i \in 1..n + 1 |-> Gap(Nth(Q, i))]
    BY <2>1 DEF GapsUpTo
  <2> HIDE DEF n, s
  <2>4. s \in Seq(Int) /\ Len(s) = n
    <3>1. \A i \in 1..n : Gap(Nth(Q, i)) \in Int
      BY <2>1, <2>2
    <3> QED BY <2>1, <2>3, <3>1
  <2>5. /\ Append(s, Gap(h)) \in Seq(Int) /\ Len(Append(s, Gap(h))) = n + 1
        /\ Append(s, Gap(h))[n + 1] = Gap(h)
        /\ \A i \in 1..n : Append(s, Gap(h))[i] = s[i]
    BY <1>2, <2>4, AppendProperties
  <2>6. /\ GapsUpTo(Q, h) \in Seq(Int) /\ Len(GapsUpTo(Q, h)) = n + 1
        /\ \A i \in 1..n + 1 : GapsUpTo(Q, h)[i] = Gap(Nth(Q, i))
    <3>1. \A i \in 1..n + 1 : Gap(Nth(Q, i)) \in Int
      BY <2>1, <2>2
    <3> QED BY <2>1, <2>3, <3>1
  <2>7. \A i \in 1..n + 1 : GapsUpTo(Q, h)[i] = Append(s, Gap(h))[i]
    <3>1. \A i \in 1..n + 1 : i # n + 1 => i \in 1..n
      BY <2>1
    <3> QED BY <2>2, <2>3, <2>5, <2>6, <3>1
  <2>8. GapsUpTo(Q, h) = Append(s, Gap(h))
    BY <2>5, <2>6, <2>7, SeqEqual
  <2> QED BY <2>8 DEF s
<1> QED BY <1>1, <1>2

LEMMA TimesStep ==
  ASSUME TypeOK, NEW from \in Nat
  PROVE  /\ \A h \in Heights \cup {-1} :
              h < from => TimesAt(from, h) = [previous |-> None, deltas |-> <<>>, backwards |-> 0]
         /\ \A h \in Heights : from <= h => TimesAt(from, h) = Interval(TimesAt(from, h - 1), h)
<1> DEFINE U == Rising(from)
           B == Falling(from)
           c(h) == Cardinality(Below(B, h))
<1>1. /\ U \in SUBSET Heights /\ B \in SUBSET Heights
      /\ \A k \in U : Gap(k) \in Int /\ k \in Held /\ k - 1 \in Held /\ from <= k - 1 /\ k \in Nat
      /\ \A k \in B : Gap(k) \in Int /\ k \in Held /\ k - 1 \in Held /\ from <= k - 1 /\ k \in Nat
      /\ \A h \in Heights \cup {-1} : h \in Int
  <2>1. \A k \in Pairs(from) : from <= k - 1
    BY DEF Pairs
  <2> QED BY <2>1, HeldTimes, StoreAssumption DEF Rising, Falling, Heights
<1>2. ASSUME NEW h \in Heights \cup {-1}, h < from
      PROVE  TimesAt(from, h) = [previous |-> None, deltas |-> <<>>, backwards |-> 0]
  <2>1. (\A k \in U : h < k) /\ (\A k \in B : h < k)
    BY <1>1, <1>2
  <2> HIDE DEF U, B
  <2>2. Cardinality(Below(U, h)) = 0 /\ Cardinality(Below(B, h)) = 0
    BY <1>1, <2>1, BelowGrows
  <2>3. GapsUpTo(U, h) = <<>>
    <3>1. GapsUpTo(U, h) = [i \in 1..0 |-> Gap(Nth(U, i))]
      BY <2>2 DEF GapsUpTo
    <3>2. GapsUpTo(U, h) \in Seq(Int) /\ Len(GapsUpTo(U, h)) = 0
      BY <3>1
    <3> QED BY <3>2
  <2>4. PreviousAt(from, h) = None
    BY <1>1, <1>2 DEF PreviousAt
  <2> QED BY <2>2, <2>3, <2>4 DEF TimesAt, U, B
<1>3. ASSUME NEW h \in Heights, from <= h
      PROVE  TimesAt(from, h) = Interval(TimesAt(from, h - 1), h)
  <2> DEFINE s == TimesAt(from, h - 1)
             ts == TimeOf[blocks[h]]
             back == PreviousAt(from, h - 1)
             d(k) == GapsUpTo(U, k)
  <2>1. /\ h \notin U => d(h) = d(h - 1)
        /\ h \in U => d(h) = Append(d(h - 1), Gap(h))
    BY <1>1, GapsGrow
  <2>2. /\ c(h) \in Nat /\ c(h - 1) \in Nat
        /\ h \notin B => c(h) = c(h - 1)
        /\ h \in B => c(h) = c(h - 1) + 1
    <3>1. h - 1 \in Heights \cup {-1} /\ h \in Heights \cup {-1}
      BY StoreAssumption DEF Heights
    <3> QED BY <1>1, <3>1, BelowGrows
  <2> HIDE DEF c, d
  <2>3. /\ s = [previous |-> back, deltas |-> d(h - 1), backwards |-> c(h - 1)]
        /\ TimesAt(from, h) = [previous |-> PreviousAt(from, h), deltas |-> d(h), backwards |-> c(h)]
    BY DEF TimesAt, c, d
  <2> HIDE DEF s, back
  <2>4. s.previous = back /\ s.deltas = d(h - 1) /\ s.backwards = c(h - 1)
    BY <2>3
  <2>5. CASE blocks[h] = None
    <3>1. h \notin Held /\ h \notin U /\ h \notin B
      BY <1>1, <2>5 DEF Held
    <3>2. PreviousAt(from, h) = None
      BY <3>1 DEF PreviousAt
    <3>3. Interval(s, h) = [s EXCEPT !.previous = None]
      BY <2>5 DEF Interval
    <3>4. TimesAt(from, h) = Interval(s, h)
      BY <2>1, <2>2, <2>3, <3>1, <3>2, <3>3
    <3> QED BY <3>4 DEF s
  <2>6. CASE blocks[h] # None
    <3>1. h \in Held /\ PreviousAt(from, h) = ts /\ ts \in Nat
      <4>1. h \in Held
        BY <2>6 DEF Held
      <4> QED BY <1>3, <4>1, HeldTimes DEF PreviousAt
    <3>2. Interval(s, h) =
            [previous |-> ts,
             deltas |-> IF back = None \/ ts < back THEN d(h - 1) ELSE Append(d(h - 1), ts - back),
             backwards |-> c(h - 1) + (IF back # None /\ ts < back THEN 1 ELSE 0)]
      BY <2>4, <2>6 DEF Interval
    <3>3. CASE ~ (from <= h - 1 /\ h - 1 \in Held)
      <4>1. back = None
        BY <3>3 DEF back, PreviousAt
      <4>2. h \notin U /\ h \notin B
        BY <1>1, <3>3
      <4>3. TimesAt(from, h) = Interval(s, h)
        BY <2>1, <2>2, <2>3, <3>1, <3>2, <4>1, <4>2
      <4> QED BY <4>3 DEF s
    <3>4. CASE from <= h - 1 /\ h - 1 \in Held
      <4>1. back = TimeOf[blocks[h - 1]] /\ back \in Nat /\ back # None
        BY <3>4, HeldTimes DEF back, PreviousAt
      <4>2. Gap(h) = ts - back /\ h \in Pairs(from)
        BY <3>1, <3>4, <4>1 DEF Gap, Pairs
      <4> HIDE DEF ts
      <4>3. CASE ts < back
        <5>1. h \notin U /\ h \in B
          BY <3>1, <4>1, <4>2, <4>3 DEF Rising, Falling
        <5>2. TimesAt(from, h) = Interval(s, h)
          BY <2>1, <2>2, <2>3, <3>1, <3>2, <4>1, <4>3, <5>1
        <5> QED BY <5>2 DEF s
      <4>4. CASE ~ ts < back
        <5>1. h \in U /\ h \notin B
          BY <3>1, <4>1, <4>2, <4>4 DEF Rising, Falling
        <5>2. TimesAt(from, h) = Interval(s, h)
          <6>1. d(h) = Append(d(h - 1), ts - back) /\ c(h) = c(h - 1) + 0
            BY <2>1, <2>2, <4>2, <5>1
          <6>2. Interval(s, h) = [previous |-> ts, deltas |-> Append(d(h - 1), ts - back),
                                  backwards |-> c(h - 1) + 0]
            BY <3>2, <4>1, <4>4
          <6> QED BY <2>3, <3>1, <6>1, <6>2
        <5> QED BY <5>2 DEF s
      <4> QED BY <4>3, <4>4
    <3> QED BY <3>3, <3>4
  <2> QED BY <2>5, <2>6
<1> QED BY <1>2, <1>3

LEMMA TimesGathered ==
  ASSUME TypeOK, NEW from \in Nat
  PROVE  Walk(from, [previous |-> None, deltas |-> <<>>, backwards |-> 0], Interval) = TimesAt(from, tip)
<1> DEFINE D == Heights \cup {-1}
           start == [previous |-> None, deltas |-> <<>>, backwards |-> 0]
           full == [h \in D |-> TimesAt(from, h)]
           gathered[h \in Heights \cup {-1}] == IF h < from THEN start ELSE Interval(gathered[h - 1], h)
<1>1. /\ \A h \in D : h < from => TimesAt(from, h) = start
      /\ \A h \in Heights : from <= h => TimesAt(from, h) = Interval(TimesAt(from, h - 1), h)
  BY TimesStep
<1>2. \A h \in D : ~ h < from => h \in Heights /\ h - 1 \in D
  BY StoreAssumption DEF Heights
<1>3. full = [h \in D |-> IF h < from THEN start ELSE Interval(full[h - 1], h)]
  <2>1. ASSUME NEW h \in D
        PROVE  TimesAt(from, h) = IF h < from THEN start ELSE Interval(full[h - 1], h)
    <3>1. CASE h < from
      BY <1>1, <3>1
    <3>2. CASE ~ h < from
      <4>1. h \in Heights /\ h - 1 \in D /\ from <= h
        BY <1>2, <3>2 DEF Heights
      <4>2. full[h - 1] = TimesAt(from, h - 1)
        BY <4>1
      <4> QED BY <1>1, <3>2, <4>1, <4>2
    <3> QED BY <3>1, <3>2
  <2> QED BY <2>1
<1>4. gathered = [h \in D |-> IF h < from THEN start ELSE Interval(gathered[h - 1], h)]
  <2>1. \E f : f = [h \in D |-> IF h < from THEN start ELSE Interval(f[h - 1], h)]
    <3> HIDE DEF full, start
    <3> WITNESS full
    <3> QED BY <1>3
  <2> QED BY <2>1
<1>5. gathered[tip] = TimesAt(from, tip)
  <2> HIDE DEF gathered, start
  <2>1. \A h \in D : h < from => gathered[h] = start /\ full[h] = start
    BY <1>1, <1>4
  <2>2. ASSUME NEW h \in Heights, from <= h, gathered[h - 1] = full[h - 1]
        PROVE  gathered[h] = full[h]
    <3>1. ~ h < from /\ h \in D
      BY <2>2 DEF Heights
    <3>2. gathered[h] = Interval(gathered[h - 1], h) /\ full[h] = Interval(full[h - 1], h)
      <4> HIDE DEF full
      <4> QED BY <1>3, <1>4, <3>1
    <3> QED BY <2>2, <3>2
  <2>3. gathered[tip] = full[tip] /\ tip \in D
    <3>1. tip \in D
      BY DEF TypeOK
    <3> DEFINE S == {h \in D : gathered[h] = full[h]}
    <3>2. \A h \in Heights \cup {-1} : h < from => h \in S
      BY <2>1
    <3>3. \A h \in Heights : from <= h /\ h - 1 \in S => h \in S
      BY <2>2
    <3>4. S \in SUBSET (Heights \cup {-1})
      OBVIOUS
    <3> HIDE DEF S
    <3>5. tip \in S
      BY <3>1, <3>2, <3>3, <3>4, WalkUpward
    <3> QED BY <3>1, <3>5 DEF S
  <2> QED BY <2>3
<1> QED BY <1>5 DEF Walk

-----------------------------------------------------------------------------
(* Order statistics.                                                         *)

LEMMA PlacesFinite ==
  ASSUME NEW n \in Nat, NEW L \in SUBSET (1..n)
  PROVE  IsFiniteSet(L) /\ Cardinality(L) \in 0..n
<1>1. L \in SUBSET (0..n)
  OBVIOUS
<1>2. IsFiniteSet(L) /\ Cardinality(L) \in Nat
  BY <1>1, UptoFinite
<1>3. IsFiniteSet(1..n) /\ Cardinality(1..n) = n
  <2>1. n - 1 + 1 = n /\ (1 > n <=> n = 0)
    OBVIOUS
  <2> QED BY <2>1, FS_Interval
<1>4. Cardinality(L) <= Cardinality(1..n)
  BY <1>3, FS_Subset
<1> QED BY <1>2, <1>3, <1>4

LEMMA Topmost ==
  ASSUME NEW n \in Nat, NEW s \in [1..n -> Nat], NEW L \in SUBSET (1..n), L # {}
  PROVE  \E i \in L : \A j \in L : s[j] <= s[i]
<1> DEFINE lower(i) == {j \in L : s[j] <= s[i]}
           r(i) == Cardinality(lower(i))
           R == {r(i) : i \in L}
<1>1. \A i \in L : IsFiniteSet(lower(i)) /\ r(i) \in 0..n
  <2>1. \A i \in L : lower(i) \in SUBSET (1..n)
    OBVIOUS
  <2> HIDE DEF lower
  <2> QED BY <2>1, PlacesFinite
<1>2. PICK m \in R : \A k \in R : k <= m
  <2>1. R \in SUBSET (0..n) /\ R # {}
    BY <1>1
  <2> HIDE DEF R
  <2> QED BY <2>1, GreatestUpto
<1>3. PICK i \in L : m = r(i)
  BY <1>2
<1>4. \A j \in L : r(j) <= r(i)
  BY <1>2, <1>3
<1>5. \A k \in L : s[k] \in Nat /\ k \in 1..n
  OBVIOUS
<1>6. ASSUME NEW j \in L, ~ s[j] <= s[i] PROVE FALSE
  <2>1. lower(i) \in SUBSET lower(j) /\ j \in lower(j) /\ j \notin lower(i)
    <3>1. \A k \in L : s[k] <= s[i] => s[k] <= s[j]
      BY <1>5, <1>6
    <3>2. s[j] <= s[j]
      BY <1>5
    <3> QED BY <1>6, <3>1, <3>2
  <2>2. IsFiniteSet(lower(j)) /\ IsFiniteSet(lower(i)) /\ r(j) \in Nat /\ r(i) \in Nat
    BY <1>1
  <2> DEFINE A == lower(i)
             B == lower(j)
  <2> HIDE DEF A, B
  <2>3. Cardinality(A) <= Cardinality(B) /\ Cardinality(A) # Cardinality(B)
    <3>1. A \in SUBSET B /\ A # B /\ IsFiniteSet(B) /\ IsFiniteSet(A)
      BY <2>1, <2>2 DEF A, B
    <3> QED BY <3>1, FS_Subset
  <2>4. r(i) <= r(j) /\ r(i) # r(j)
    BY <2>3 DEF A, B
  <2> HIDE DEF r
  <2> QED BY <1>4, <2>2, <2>4
<1> QED BY <1>6

Lesser(s, d) == {i \in DOMAIN s : s[i] < d}
UpTo(s, d) == {i \in DOMAIN s : s[i] <= d}

\* There is a k-th in ascending order: fewer than k lie below it, and k up to it.
LEMMA SortedPlace ==
  ASSUME NEW n \in Nat, NEW s \in [1..n -> Nat], NEW k \in 1..n
  PROVE  /\ Sorted(s, k) \in Nat
         /\ Cardinality(Lesser(s, Sorted(s, k))) < k
         /\ Cardinality(UpTo(s, Sorted(s, k))) >= k
<1> DEFINE V == {s[i] : i \in DOMAIN s}
           c(d) == Cardinality(UpTo(s, d))
           T == {d \in V : c(d) >= k}
<1>1. /\ V \in SUBSET Nat /\ \A i \in 1..n : s[i] \in V /\ s[i] \in Nat
      /\ \A d : UpTo(s, d) \in SUBSET (1..n) /\ Lesser(s, d) \in SUBSET (1..n)
  BY DEF UpTo, Lesser
<1>2. \A d : c(d) \in 0..n
  BY <1>1, PlacesFinite
<1>3. T # {} /\ T \in SUBSET Nat
  <2>1. PICK i \in 1..n : \A j \in 1..n : s[j] <= s[i]
    <3>1. 1..n \in SUBSET (1..n) /\ 1..n # {}
      OBVIOUS
    <3> QED BY <3>1, Topmost
  <2>2. UpTo(s, s[i]) = 1..n
    BY <2>1 DEF UpTo
  <2>3. Cardinality(1..n) = n
    <3>1. n - 1 + 1 = n /\ ~ 1 > n
      OBVIOUS
    <3> QED BY <3>1, FS_Interval
  <2>4. c(s[i]) >= k
    BY <2>2, <2>3
  <2> HIDE DEF c, V
  <2> QED BY <1>1, <2>1, <2>4
<1>4. PICK d \in T : \A e \in T : d <= e
  <2> HIDE DEF T
  <2> QED BY <1>3, LeastNat
<1>5. d \in V /\ d \in Nat /\ c(d) >= k
  BY <1>1, <1>4
<1>6. Cardinality(Lesser(s, d)) < k
  <2>1. CASE Lesser(s, d) = {}
    BY <2>1, FS_EmptySet
  <2>2. CASE Lesser(s, d) # {}
    <3>1. PICK i \in Lesser(s, d) : \A j \in Lesser(s, d) : s[j] <= s[i]
      BY <1>1, <2>2, Topmost
    <3>2. i \in 1..n /\ s[i] < d /\ s[i] \in Nat /\ s[i] \in V
      BY <1>1, <3>1 DEF Lesser
    <3>3. UpTo(s, s[i]) = Lesser(s, d)
      <4>1. \A j \in 1..n : s[j] <= s[i] => s[j] < d
        <5>1. \A j \in 1..n : s[j] \in Nat
          OBVIOUS
        <5>2. d \in Nat /\ s[i] \in Nat /\ s[i] < d
          BY <1>5, <3>2
        <5> HIDE DEF T, V, c
        <5> QED BY <5>1, <5>2
      <4>2. \A j \in 1..n : s[j] < d => s[j] <= s[i]
        BY <3>1 DEF Lesser
      <4>3. \A j \in 1..n : s[j] <= s[i] <=> s[j] < d
        BY <4>1, <4>2
      <4> QED BY <4>3 DEF UpTo, Lesser
    <3>4. s[i] \notin T
      <4> SUFFICES ASSUME s[i] \in T PROVE FALSE
        OBVIOUS
      <4>1. d <= s[i]
        BY <1>4
      <4> QED BY <1>5, <3>2, <4>1
    <3>5. ~ c(s[i]) >= k
      BY <3>2, <3>4
    <3> HIDE DEF c
    <3>6. c(s[i]) < k
      BY <1>2, <3>5
    <3> QED BY <3>3, <3>6 DEF c
  <2> QED BY <2>1, <2>2
<1>7. \E e \in V : Cardinality(Lesser(s, e)) < k /\ Cardinality(UpTo(s, e)) >= k
  BY <1>5, <1>6
<1>8. Sorted(s, k) = CHOOSE e \in V : Cardinality(Lesser(s, e)) < k /\ Cardinality(UpTo(s, e)) >= k
  BY DEF Sorted, Lesser, UpTo
<1> HIDE DEF V
<1>9. /\ Sorted(s, k) \in V
      /\ Cardinality(Lesser(s, Sorted(s, k))) < k /\ Cardinality(UpTo(s, Sorted(s, k))) >= k
  BY <1>7, <1>8
<1> QED BY <1>1, <1>9

\* At most half of the members lie below the median.
Median2(s, n) == IF n % 2 = 1 THEN 2 * Sorted(s, n \div 2 + 1)
                 ELSE Sorted(s, n \div 2 + 1 - 1) + Sorted(s, n \div 2 + 1)

LEMMA MedianHalves ==
  ASSUME NEW n \in Nat \ {0}, NEW s \in [1..n -> Nat]
  PROVE  2 * Cardinality({i \in 1..n : 2 * s[i] < Median2(s, n)}) <= n
<1> DEFINE mid == n \div 2 + 1
           b == Sorted(s, mid)
           X == {i \in 1..n : 2 * s[i] < Median2(s, n)}
<1>1. mid \in 1..n /\ 2 * (mid - 1) <= n /\ (n % 2 # 1 => mid - 1 \in 1..n)
  OBVIOUS
<1>2. b \in Nat /\ Cardinality(Lesser(s, b)) < mid /\ Cardinality(UpTo(s, b)) >= mid
  BY <1>1, SortedPlace
<1>3. /\ \A i \in 1..n : s[i] \in Nat
      /\ \A d : /\ UpTo(s, d) \in SUBSET (1..n) /\ Lesser(s, d) \in SUBSET (1..n)
                /\ IsFiniteSet(Lesser(s, d)) /\ Cardinality(Lesser(s, d)) \in Nat
                /\ Cardinality(UpTo(s, d)) \in Nat /\ IsFiniteSet(UpTo(s, d))
  <2>1. \A d : UpTo(s, d) \in SUBSET (1..n) /\ Lesser(s, d) \in SUBSET (1..n)
    BY DEF UpTo, Lesser
  <2>2. \A i \in 1..n : s[i] \in Nat
    OBVIOUS
  <2>3. 0..n \subseteq Nat
    OBVIOUS
  <2> QED BY <2>1, <2>2, <2>3, PlacesFinite
<1>4. X \subseteq Lesser(s, b)
  <2>1. CASE n % 2 = 1
    <3>1. Median2(s, n) = 2 * b
      BY <2>1 DEF Median2
    <3> HIDE DEF b
    <3>2. \A i \in 1..n : 2 * s[i] < 2 * b => s[i] < b
      BY <1>2, <1>3
    <3> QED BY <3>1, <3>2 DEF Lesser
  <2>2. CASE n % 2 # 1
    <3> DEFINE a == Sorted(s, mid - 1)
    <3>1. Median2(s, n) = a + b
      BY <2>2 DEF Median2
    <3>2. a \in Nat /\ Cardinality(Lesser(s, a)) < mid - 1
      BY <1>1, <2>2, SortedPlace
    <3> HIDE DEF a, b
    <3>3. a <= b
      <4> SUFFICES ASSUME b < a PROVE FALSE
        BY <1>2, <3>2
      <4>1. UpTo(s, b) \subseteq Lesser(s, a)
        <5>1. \A i \in 1..n : s[i] <= b => s[i] < a
          BY <1>2, <1>3, <3>2
        <5> QED BY <5>1 DEF UpTo, Lesser
      <4>2. Cardinality(UpTo(s, b)) <= Cardinality(Lesser(s, a))
        BY <1>3, <4>1, FS_Subset
      <4> HIDE DEF mid
      <4>3. mid \in Int
        BY <1>1
      <4> QED BY <1>2, <1>3, <3>2, <4>2, <4>3
    <3>4. \A i \in 1..n : 2 * s[i] < a + b => s[i] < b
      BY <1>2, <1>3, <3>2, <3>3
    <3> QED BY <3>1, <3>4 DEF Lesser
  <2> QED BY <2>1, <2>2
<1>5. Cardinality(X) <= Cardinality(Lesser(s, b)) /\ Cardinality(X) \in Nat
  <2>1. X \in SUBSET (1..n)
    OBVIOUS
  <2> HIDE DEF X, b
  <2>2. Cardinality(X) \in 0..n
    BY <2>1, PlacesFinite
  <2>3. Cardinality(X) <= Cardinality(Lesser(s, b))
    BY <1>3, <1>4, FS_Subset
  <2> QED BY <2>2, <2>3
<1>6. 2 * Cardinality(X) <= n
  <2> HIDE DEF X, mid, b
  <2>1. mid \in Int /\ 2 * (mid - 1) <= n
    BY <1>1
  <2>2. Cardinality(Lesser(s, b)) \in Nat
    BY <1>3
  <2> QED BY <1>2, <1>5, <2>1, <2>2
<1> QED BY <1>6

\* A sum whose partial sums are known.
LEMMA SumKnown ==
  ASSUME NEW n \in Nat, NEW s, NEW f \in [0..n -> Int],
         f[0] = 0, \A i \in 1..n : f[i] = f[i - 1] + s[i]
  PROVE  LET sum[i \in 0..n] == IF i = 0 THEN 0 ELSE sum[i - 1] + s[i] IN sum[n] = f[n]
<1> DEFINE sum[i \in 0..n] == IF i = 0 THEN 0 ELSE sum[i - 1] + s[i]
<1>1. sum = [i \in 0..n |-> IF i = 0 THEN 0 ELSE sum[i - 1] + s[i]]
  <2>1. f = [i \in 0..n |-> IF i = 0 THEN 0 ELSE f[i - 1] + s[i]]
    <3>1. \A i \in 0..n : f[i] = IF i = 0 THEN 0 ELSE f[i - 1] + s[i]
      <4>1. \A i \in 0..n : i = 0 \/ i \in 1..n
        OBVIOUS
      <4> QED BY <4>1
    <3> QED BY <3>1
  <2>2. \E g : g = [i \in 0..n |-> IF i = 0 THEN 0 ELSE g[i - 1] + s[i]]
    <3> WITNESS f
    <3> QED BY <2>1
  <2> QED BY <2>2
<1> HIDE DEF sum
<1>2. sum[0] = 0 /\ \A i \in 1..n : sum[i] = sum[i - 1] + s[i]
  <2>1. \A i \in 0..n : sum[i] = IF i = 0 THEN 0 ELSE sum[i - 1] + s[i]
    BY <1>1
  <2>2. 0 \in 0..n /\ \A i \in 1..n : i \in 0..n /\ i # 0
    OBVIOUS
  <2> QED BY <2>1, <2>2
<1> DEFINE wrong == {i \in 0..n : sum[i] # f[i]}
<1>3. wrong = {}
  <2> SUFFICES ASSUME wrong # {} PROVE FALSE
    OBVIOUS
  <2>1. PICK i \in wrong : \A j \in wrong : i <= j
    <3>1. wrong \in SUBSET Nat
      OBVIOUS
    <3> HIDE DEF wrong
    <3> QED BY <3>1, LeastNat
  <2>2. i \in 0..n /\ sum[i] # f[i]
    BY <2>1
  <2>3. i # 0
    BY <1>2, <2>2
  <2>4. i \in 1..n /\ i - 1 \in 0..n /\ ~ i <= i - 1
    BY <2>2, <2>3
  <2>5. sum[i - 1] = f[i - 1]
    BY <2>1, <2>4
  <2> QED BY <1>2, <2>2, <2>4, <2>5
<1>4. sum[n] = f[n]
  <2>1. n \in 0..n
    OBVIOUS
  <2> QED BY <1>3, <2>1
<1> QED BY <1>4 DEF sum

-----------------------------------------------------------------------------
(* What a window reports.                                                    *)

Asked == {h \in Heights : tip - Window < h /\ h <= tip}
AskedPairs == {h \in Asked : h - 1 \in Held /\ h \in Held}

\* The walks start where the window does, or where the store does.
LEMMA WindowWalked ==
  ASSUME TypeOK, NewestKept
  PROVE  /\ From(Window) \in Nat /\ From(Window + 1) \in Nat
         /\ \A h \in Held : From(Window) <= h <=> h \in Asked
         /\ Pairs(From(Window + 1)) = AskedPairs
         /\ \A Q \in SUBSET Held : Below(Q, tip) = Q
         /\ From(Window) = Requested(Window) => Asked \subseteq From(Window)..tip
         /\ From(Window + 1) = Requested(Window + 1) =>
              /\ Asked \ {0} = From(Window + 1) + 1..tip
              /\ From(Window + 1) = Larger(0, tip - Window)
<1>1. /\ tip \in Int /\ low \in Nat /\ Window \in Nat /\ Window >= 1 /\ tip >= -1
      /\ Heights \subseteq Nat /\ Held \subseteq Heights /\ \A h \in Held : low <= h /\ h <= tip /\ h \in Nat
      /\ tip <= MaxHeight /\ MaxHeight \in Nat
  BY StoreAssumption, StatsAssumption DEF TypeOK, NewestKept, Heights, Infinity, Held
<1> DEFINE f == From(Window)
           g == From(Window + 1)
<1>2. /\ f \in Nat /\ f >= tip - Window + 1 /\ f >= low /\ (f = low \/ f = tip - Window + 1 \/ f = 0)
      /\ g \in Nat /\ g >= tip - Window /\ g >= low /\ (g = low \/ g = tip - Window \/ g = 0)
  BY <1>1 DEF From, Requested, Larger
<1>3. /\ f = Requested(Window) => f = 0 \/ f = tip - Window + 1
      /\ g = Requested(Window + 1) => (g = 0 \/ g = tip - Window) /\ g = Larger(0, tip - Window)
  BY <1>1 DEF Requested, Larger
<1> HIDE DEF f, g
<1>4. \A h \in Held : f <= h <=> h \in Asked
  <2> SUFFICES ASSUME NEW h \in Held PROVE f <= h <=> h \in Asked
    OBVIOUS
  <2>1. h \in Nat /\ low <= h /\ h <= tip /\ h \in Heights
    BY <1>1
  <2>2. f <= h <=> tip - Window < h
    BY <1>1, <1>2, <2>1
  <2> QED BY <2>1, <2>2 DEF Asked
<1>5. Pairs(g) = AskedPairs
  <2>1. ASSUME NEW h \in Held, h - 1 \in Held
        PROVE  g <= h - 1 <=> h \in Asked
    <3>1. h \in Nat /\ low <= h - 1 /\ h <= tip /\ h \in Heights /\ h - 1 >= 0
      BY <1>1, <2>1
    <3>2. g <= h - 1 <=> tip - Window < h
      BY <1>1, <1>2, <3>1
    <3> QED BY <3>1, <3>2 DEF Asked
  <2> QED BY <2>1 DEF Pairs, AskedPairs
<1>6. ASSUME NEW Q \in SUBSET Held PROVE Below(Q, tip) = Q
  BY <1>1 DEF Below
<1>7. f = Requested(Window) => Asked \subseteq f..tip
  <2> SUFFICES ASSUME f = Requested(Window), NEW h \in Asked PROVE h \in f..tip
    OBVIOUS
  <2>1. h \in Nat /\ tip - Window < h /\ h <= tip
    BY <1>1 DEF Asked
  <2> QED BY <1>1, <1>2, <1>3, <2>1
<1>8. g = Requested(Window + 1) => Asked \ {0} = g + 1..tip
  <2> SUFFICES ASSUME g = Requested(Window + 1) PROVE Asked \ {0} = g + 1..tip
    OBVIOUS
  <2>1. \A h \in Nat : h <= tip => (h # 0 /\ tip - Window < h <=> g + 1 <= h)
    BY <1>1, <1>2, <1>3
  <2>2. ASSUME NEW h \in Asked \ {0} PROVE h \in g + 1..tip
    <3>1. h \in Nat /\ tip - Window < h /\ h <= tip /\ h # 0
      BY <1>1 DEF Asked
    <3> QED BY <1>1, <1>2, <2>1, <3>1
  <2>3. ASSUME NEW h \in g + 1..tip PROVE h \in Asked \ {0}
    <3>1. h \in Nat /\ h <= tip /\ g + 1 <= h
      BY <1>1, <1>2
    <3>2. h \in Heights /\ h # 0 /\ tip - Window < h
      BY <1>1, <2>1, <3>1 DEF Heights
    <3> QED BY <3>1, <3>2 DEF Asked
  <2> QED BY <2>2, <2>3
<1> QED BY <1>2, <1>3, <1>4, <1>5, <1>6, <1>7, <1>8 DEF f, g

LEMMA MinersHonest ==
  ASSUME TypeOK, NewestKept
  PROVE  LET miners == windowMinerStats(Window) IN
         /\ \A p \in Proposers \ {NoMiner} :
              miners.wins[p] = Cardinality({h \in Asked \cap Held : ProposerOf[blocks[h]] = p})
         /\ miners.complete => Asked \subseteq Held
<1> DEFINE f == From(Window)
           start == [covered |-> 0, wins |-> [p \in Proposers |-> 0]]
           walk == Walk(f, start, Win)
           miners == windowMinerStats(Window)
<1>1. f \in Nat /\ (\A h \in Held : f <= h <=> h \in Asked) /\ \A Q \in SUBSET Held : Below(Q, tip) = Q
  BY WindowWalked
<1>2. walk = WinsAt(f, tip)
  <2> HIDE DEF f
  <2> QED BY <1>1, WinsGathered
<1>3. /\ miners.wins = walk.wins
      /\ miners.complete <=> tip >= 0 /\ f = Requested(Window) /\ walk.covered >= tip - f + 1
  BY DEF windowMinerStats
<1> HIDE DEF walk, miners
<1>4. /\ walk.covered = Cardinality(Below(Named(f), tip))
      /\ \A p \in Proposers : walk.wins[p] = Cardinality(Below(NamedBy(p, f), tip))
  BY <1>2 DEF WinsAt
<1>5. Named(f) \in SUBSET Held /\ \A p : NamedBy(p, f) \in SUBSET Held
  BY DEF Named, NamedBy
<1>6. /\ walk.covered = Cardinality(Named(f))
      /\ \A p \in Proposers : walk.wins[p] = Cardinality(NamedBy(p, f))
  BY <1>1, <1>4, <1>5
<1>7. \A p \in Proposers \ {NoMiner} : NamedBy(p, f) = {h \in Asked \cap Held : ProposerOf[blocks[h]] = p}
  BY <1>1 DEF NamedBy, Named
<1>8. ASSUME miners.complete PROVE Asked \subseteq Held
  <2> HIDE DEF f
  <2>1. Named(f) \subseteq f..tip
    <3>1. \A h \in Held : h \in Int /\ h <= tip
      BY StoreAssumption DEF Held, Heights, NewestKept
    <3>2. tip \in Int
      BY StoreAssumption DEF TypeOK, Heights
    <3> QED BY <1>1, <3>1, <3>2 DEF Named
  <2>2. IsFiniteSet(f..tip) /\ Cardinality(f..tip) = IF f > tip THEN 0 ELSE tip - f + 1
    <3>1. tip \in Int /\ f \in Int
      BY <1>1, StoreAssumption DEF TypeOK, Heights
    <3> QED BY <3>1, FS_Interval
  <2>3. Cardinality(Named(f)) >= tip - f + 1 /\ f = Requested(Window)
    BY <1>3, <1>6, <1>8
  <2>4. Cardinality(Named(f)) <= Cardinality(f..tip) /\ Cardinality(Named(f)) \in Nat
    <3>1. Cardinality(Named(f)) <= Cardinality(f..tip) /\ IsFiniteSet(Named(f))
      BY <2>1, <2>2, FS_Subset
    <3> QED BY <3>1, FS_CardinalityType
  <2>5. Cardinality(Named(f)) = Cardinality(f..tip)
    <3>1. tip \in Int /\ f \in Int
      BY <1>1, StoreAssumption DEF TypeOK, Heights
    <3> QED BY <2>2, <2>3, <2>4, <3>1
  <2>6. Named(f) = f..tip
    BY <2>1, <2>2, <2>5, FS_Subset
  <2>7. Asked \subseteq f..tip
    BY <2>3, WindowWalked DEF f
  <2> QED BY <1>5, <2>6, <2>7
<1> QED BY <1>3, <1>6, <1>7, <1>8 DEF miners

LEMMA SignalsHonest ==
  ASSUME TypeOK, NewestKept
  PROVE  LET signal == versionBitsSignaling(Window)
             recorded == {h \in Asked \cap Held : BitsOf[blocks[h]] # None} IN
         /\ signal.covered = Cardinality(recorded)
         /\ \A bit \in Bits : signal.byBit[bit] = Cardinality({h \in recorded : bit \in BitsOf[blocks[h]]})
<1> DEFINE f == From(Window)
           recorded == {h \in Asked \cap Held : BitsOf[blocks[h]] # None}
           signal == {h \in f..tip : blocks[h] # None /\ BitsOf[blocks[h]] # None}
<1>1. signal = recorded
  <2>1. f \in Nat /\ (\A h \in Held : f <= h <=> h \in Asked)
    BY WindowWalked
  <2> HIDE DEF f
  <2>2. tip \in Int /\ tip <= MaxHeight /\ MaxHeight \in Nat
    BY StoreAssumption DEF TypeOK, Heights
  <2>3. \A h \in f..tip : h \in Heights /\ f <= h
    BY <2>1, <2>2 DEF Heights
  <2>4. \A h \in Held : h \in Int /\ h <= tip
    BY StoreAssumption DEF Held, Heights, NewestKept
  <2>5. \A h \in Asked \cap Held : h \in f..tip
    BY <2>1, <2>2, <2>4
  <2> QED BY <2>1, <2>3, <2>5 DEF Held
<1> QED BY <1>1 DEF versionBitsSignaling

LEMMA GapsOf ==
  ASSUME NEW Q \in SUBSET Heights, \A k \in Q : Gap(k) \in Nat, Below(Q, tip) = Q
  PROVE  LET s == GapsUpTo(Q, tip)  n == Cardinality(Q) IN
         /\ n \in Nat /\ s \in [1..n -> Nat] /\ Len(s) = n
         /\ \A i \in 1..n : s[i] = Gap(Nth(Q, i)) /\ Nth(Q, i) \in Q
         /\ \A m : Cardinality({k \in Q : 2 * Gap(k) < m}) <= Cardinality({i \in 1..n : 2 * s[i] < m})
         /\ \A m : Cardinality({k \in Q : 2 * Gap(k) < m}) \in Nat
<1> DEFINE s == GapsUpTo(Q, tip)
           n == Cardinality(Q)
<1>1. n \in Nat /\ IsFiniteSet(Q)
  BY HeightsFinite
<1>2. s = [i \in 1..n |-> Gap(Nth(Q, i))]
  BY DEF GapsUpTo
<1>3. /\ \A i \in 1..n : Nth(Q, i) \in Q
      /\ \A h \in Q : Cardinality(Below(Q, h)) \in 1..n /\ Nth(Q, Cardinality(Below(Q, h))) = h
  BY NthPlace
<1> HIDE DEF s, n
<1>4. s \in [1..n -> Nat] /\ Len(s) = n /\ \A i \in 1..n : s[i] = Gap(Nth(Q, i))
  <2>1. s \in [1..n -> Nat] /\ \A i \in 1..n : s[i] = Gap(Nth(Q, i))
    BY <1>2, <1>3
  <2> QED BY <1>1, <2>1
<1>5. ASSUME NEW m
      PROVE  /\ Cardinality({k \in Q : 2 * Gap(k) < m}) <= Cardinality({i \in 1..n : 2 * s[i] < m})
             /\ Cardinality({k \in Q : 2 * Gap(k) < m}) \in Nat
  <2> DEFINE A == {i \in 1..n : 2 * s[i] < m}
             B == {k \in Q : 2 * Gap(k) < m}
             f == [i \in A |-> Nth(Q, i)]
  <2>1. IsFiniteSet(A)
    <3>1. A \in SUBSET (1..n)
      OBVIOUS
    <3> HIDE DEF A
    <3> QED BY <1>1, <3>1, PlacesFinite
  <2>2. \A i \in A : Nth(Q, i) \in B
    BY <1>3, <1>4
  <2>3. \A k \in B : \E i \in A : Nth(Q, i) = k
    <3> SUFFICES ASSUME NEW k \in B PROVE \E i \in A : Nth(Q, i) = k
      OBVIOUS
    <3>1. k \in Q /\ 2 * Gap(k) < m
      OBVIOUS
    <3>2. PICK i \in 1..n : Nth(Q, i) = k
      BY <1>3, <3>1
    <3>3. i \in A
      BY <1>4, <3>1, <3>2
    <3> QED BY <3>2, <3>3
  <2> HIDE DEF A, B
  <2>4. f \in Surjection(A, B)
    BY <2>2, <2>3 DEF Surjection
  <2>5. IsFiniteSet(B) /\ Cardinality(B) <= Cardinality(A)
    BY <2>1, <2>4, FS_Surjection
  <2> QED BY <2>5, FS_CardinalityType DEF A, B
<1> QED BY <1>1, <1>3, <1>4, <1>5 DEF s, n

\* What the forward intervals of a run of neighbours come to: the time from its first
\* block to its last, and more where one went backwards and was dropped.
Adds(f, Q, g, t) ==
  /\ f \in [0..Cardinality(Q) -> Int] /\ f[0] = 0
  /\ \A i \in 1..Cardinality(Q) : f[i] = f[i - 1] + Gap(Nth(Q, i))
  /\ IF Q = g + 1..t THEN f[Cardinality(Q)] = TimeOf[blocks[t]] - TimeOf[blocks[g]]
     ELSE f[Cardinality(Q)] > TimeOf[blocks[t]] - TimeOf[blocks[g]]

LEMMA GapsAddUp ==
  ASSUME TypeOK, NEW g \in Nat, NEW t \in Int, g <= t, g..t \subseteq Held,
         NEW Q, Q = {h \in g + 1..t : Gap(h) >= 0}
  PROVE  \E f : Adds(f, Q, g, t)
<1> DEFINE T(h) == TimeOf[blocks[h]]
           r(h) == Cardinality(Below(Q, h))
           Sums(f, h) == /\ f \in [0..r(h) -> Int] /\ f[0] = 0
                         /\ \A i \in 1..r(h) : f[i] = f[i - 1] + Gap(Nth(Q, i))
                         /\ IF Below(Q, h) = g + 1..h THEN f[r(h)] = T(h) - T(g) ELSE f[r(h)] > T(h) - T(g)
           Not == {j \in Nat : j <= t - g /\ ~ \E f : Sums(f, g + j)}
<1>1. /\ Held \subseteq Heights /\ Q \in SUBSET Heights /\ Q \subseteq g + 1..t
      /\ \A h \in Q : h \in Int /\ g < h /\ h <= t
  <2>1. g + 1..t \subseteq g..t /\ Held \subseteq Heights
    BY DEF Held
  <2> QED BY <2>1
<1>2. \A h \in g..t : h \in Heights /\ h \in Int /\ T(h) \in Int
  BY <1>1, HeldTimes
<1>3. \A h \in g + 1..t : Gap(h) = T(h) - T(h - 1) /\ h - 1 \in g..t /\ h \in g..t
  BY DEF Gap
<1>4. \A h \in g..t : /\ r(h) \in Nat
                      /\ h \in Q => r(h) = r(h - 1) + 1 /\ Nth(Q, r(h)) = h
                      /\ h \notin Q => Below(Q, h) = Below(Q, h - 1)
  <2> HIDE DEF Sums, Not, T
  <2> QED BY <1>1, <1>2, BelowGrows, NthPlace
<1>5. Below(Q, g) = {} /\ r(g) = 0 /\ Below(Q, t) = Q
  <2>1. Below(Q, g) = {} /\ Below(Q, t) = Q
    BY <1>1 DEF Below
  <2> QED BY <2>1, FS_EmptySet
<1>6. Not = {}
  <2> SUFFICES ASSUME Not # {} PROVE FALSE
    OBVIOUS
  <2>1. PICK j \in Not : \A k \in Not : j <= k
    <3>1. Not \in SUBSET Nat
      OBVIOUS
    <3> HIDE DEF Not
    <3> QED BY <3>1, LeastNat
  <2> DEFINE h == g + j
  <2>2. j \in Nat /\ j <= t - g /\ h \in g..t /\ ~ \E f : Sums(f, h)
    <3> HIDE DEF Sums
    <3>1. j \in Nat /\ j <= t - g /\ ~ \E f : Sums(f, g + j)
      BY <2>1
    <3> QED BY <3>1
  <2>3. j # 0
    <3> SUFFICES ASSUME j = 0 PROVE FALSE
      OBVIOUS
    <3> DEFINE f == [i \in 0..0 |-> 0]
    <3>1. h = g /\ g \in g..t /\ g + 1..g = {} /\ f[0] = 0 /\ f \in [0..0 -> Int] /\ 1..0 = {}
      OBVIOUS
    <3>2. T(g) - T(g) = 0
      BY <1>2, <3>1
    <3> HIDE DEF f, h, T, r
    <3>3. Sums(f, h)
      BY <1>5, <3>1, <3>2
    <3> QED BY <2>2, <3>3
  <2>4. h \in g + 1..t /\ h - 1 = g + (j - 1) /\ h - 1 \in g..t /\ h - 1 \in Int
    BY <2>2, <2>3
  <2>5. PICK f : Sums(f, h - 1)
    <3>1. j - 1 \in Nat /\ j - 1 <= t - g /\ ~ j <= j - 1
      BY <2>2, <2>3
    <3>2. j - 1 \notin Not
      BY <2>1, <3>1
    <3> HIDE DEF Sums
    <3> QED BY <2>4, <3>1, <3>2
  <2> DEFINE k == r(h - 1)
  <2>6. k \in Nat /\ T(h) \in Int /\ T(h - 1) \in Int /\ T(g) \in Int /\ Gap(h) = T(h) - T(h - 1)
    <3>1. g \in g..t
      OBVIOUS
    <3> QED BY <1>2, <1>3, <1>4, <2>2, <2>4, <3>1
  <2> HIDE DEF h, T, Not
  <2>7. CASE h \in Q
    <3>1. r(h) = k + 1 /\ Nth(Q, k + 1) = h
      BY <1>4, <2>2, <2>7
    <3>2. Below(Q, h) = g + 1..h <=> Below(Q, h - 1) = g + 1..h - 1
      <4>1. Below(Q, h) = Below(Q, h - 1) \cup {h} /\ h \notin Below(Q, h - 1)
        BY <1>1, <2>4, <2>7 DEF Below
      <4>2. g + 1..h = (g + 1..h - 1) \cup {h} /\ h \notin g + 1..h - 1
        BY <2>4
      <4> QED BY <4>1, <4>2
    <3>3. f \in [0..k -> Int] /\ f[0] = 0 /\ f[k] \in Int
          /\ \A i \in 1..k : f[i] = f[i - 1] + Gap(Nth(Q, i))
      <4>1. k \in 0..k
        BY <2>6
      <4> QED BY <2>5, <4>1
    <3>4. IF Below(Q, h - 1) = g + 1..h - 1 THEN f[k] = T(h - 1) - T(g) ELSE f[k] > T(h - 1) - T(g)
      BY <2>5
    <3> HIDE DEF k, r
    <3> DEFINE e == [i \in 0..k + 1 |-> IF i = k + 1 THEN f[k] + Gap(h) ELSE f[i]]
    <3>5. e \in [0..k + 1 -> Int] /\ e[0] = 0 /\ e[k + 1] = f[k] + Gap(h)
      <4>1. \A i \in 0..k + 1 : i = k + 1 \/ i \in 0..k
        BY <2>6
      <4>2. 0 \in 0..k + 1 /\ k + 1 \in 0..k + 1 /\ 0 # k + 1
        BY <2>6
      <4> QED BY <2>6, <3>3, <4>1, <4>2
    <3>6. ASSUME NEW i \in 1..k + 1 PROVE e[i] = e[i - 1] + Gap(Nth(Q, i))
      <4>1. i \in 0..k + 1 /\ i - 1 \in 0..k + 1 /\ i - 1 # k + 1 /\ (i = k + 1 \/ i \in 1..k)
        BY <2>6
      <4>2. CASE i = k + 1
        <5>1. i - 1 = k /\ e[i - 1] = f[i - 1]
          BY <2>6, <4>1, <4>2
        <5> HIDE DEF e
        <5> QED BY <3>1, <3>5, <4>2, <5>1
      <4>3. CASE i \in 1..k
        <5>1. i # k + 1
          BY <2>6, <4>3
        <5>2. e[i] = f[i] /\ e[i - 1] = f[i - 1]
          BY <4>1, <5>1
        <5> HIDE DEF e
        <5> QED BY <3>3, <4>3, <5>2
      <4> QED BY <4>1, <4>2, <4>3
    <3> HIDE DEF e
    <3>7. IF Below(Q, h) = g + 1..h THEN e[k + 1] = T(h) - T(g) ELSE e[k + 1] > T(h) - T(g)
      <4> DEFINE x == T(h)  y == T(h - 1)  z == T(g)  u == f[k]  w == e[k + 1]
      <4>1. x \in Int /\ y \in Int /\ z \in Int /\ u \in Int /\ w = u + (x - y)
        BY <2>6, <3>3, <3>5
      <4>2. IF Below(Q, h) = g + 1..h THEN u = y - z ELSE u > y - z
        BY <3>2, <3>4
      <4> HIDE DEF x, y, z, u, w
      <4>3. IF Below(Q, h) = g + 1..h THEN w = x - z ELSE w > x - z
        BY <4>1, <4>2
      <4> QED BY <4>3 DEF x, z, w
    <3>8. Sums(e, h)
      BY <3>1, <3>5, <3>6, <3>7
    <3> HIDE DEF Sums
    <3> QED BY <2>2, <3>8
  <2>8. CASE h \notin Q
    <3>1. Below(Q, h) = Below(Q, h - 1) /\ r(h) = k /\ Gap(h) < 0
      <4>1. Below(Q, h) = Below(Q, h - 1) /\ r(h) = k
        BY <1>4, <2>2, <2>8
      <4>2. ~ Gap(h) >= 0 /\ Gap(h) \in Int
        BY <2>4, <2>6, <2>8
      <4> QED BY <4>1, <4>2
    <3>2. Below(Q, h) # g + 1..h
      <4>1. h \in g + 1..h /\ h \notin Below(Q, h)
        BY <2>4, <2>8 DEF Below
      <4> QED BY <4>1
    <3>3. f \in [0..k -> Int] /\ f[0] = 0 /\ f[k] \in Int
          /\ \A i \in 1..k : f[i] = f[i - 1] + Gap(Nth(Q, i))
      <4>1. k \in 0..k
        BY <2>6
      <4> QED BY <2>5, <4>1
    <3>4. f[k] = T(h - 1) - T(g) \/ f[k] > T(h - 1) - T(g)
      BY <2>5
    <3> HIDE DEF k, r
    <3>5. f[k] > T(h) - T(g)
      <4> DEFINE x == T(h)  y == T(h - 1)  z == T(g)  u == f[k]
      <4>1. x \in Int /\ y \in Int /\ z \in Int /\ u \in Int /\ x - y < 0 /\ (u = y - z \/ u > y - z)
        BY <2>6, <3>1, <3>3, <3>4
      <4> HIDE DEF x, y, z, u
      <4>2. u > x - z
        BY <4>1
      <4> QED BY <4>2 DEF x, z, u
    <3>6. Sums(f, h)
      BY <3>1, <3>2, <3>3, <3>5
    <3> HIDE DEF Sums
    <3> QED BY <2>2, <3>6
  <2> QED BY <2>7, <2>8
<1>7. PICK f : Sums(f, t)
  <2>1. t - g \in Nat /\ g + (t - g) = t
    OBVIOUS
  <2>2. t - g \notin Not
    BY <1>6
  <2> HIDE DEF Sums
  <2> QED BY <2>1, <2>2
<1>8. Adds(f, Q, g, t)
  BY <1>5, <1>7 DEF Adds
<1> QED BY <1>8

LEMMA TimesHonest ==
  ASSUME TypeOK, NewestKept
  PROVE  LET time == blockTimeStats(Window)
             up == {h \in AskedPairs : Gap(h) >= 0} IN
         /\ time.intervals = Cardinality(up) /\ time.nonMonotonic = Cardinality(AskedPairs \ up)
         /\ \A h \in up : Cardinality({k \in up : 2 * Gap(k) < time.median2}) * 2 <= Cardinality(up)
         /\ time.complete <=> up # {} /\ Asked \ {0} = AskedPairs
         /\ time.complete =>
              IF up = AskedPairs THEN time.sum = TimeOf[blocks[tip]] - TimeOf[blocks[Larger(0, tip - Window)]]
              ELSE time.sum > TimeOf[blocks[tip]] - TimeOf[blocks[Larger(0, tip - Window)]]
<1> DEFINE g == From(Window + 1)
           walk == Walk(g, [previous |-> None, deltas |-> <<>>, backwards |-> 0], Interval)
           n == Len(walk.deltas)
           mid == n \div 2 + 1
           sum[i \in 0..n] == IF i = 0 THEN 0 ELSE sum[i - 1] + walk.deltas[i]
           time == blockTimeStats(Window)
           up == {h \in AskedPairs : Gap(h) >= 0}
           down == AskedPairs \ up
<1>1. /\ time.intervals = n
      /\ time.nonMonotonic = walk.backwards
      /\ time.median2 = (IF n = 0 THEN None
                         ELSE IF n % 2 = 1 THEN 2 * Sorted(walk.deltas, mid)
                         ELSE Sorted(walk.deltas, mid - 1) + Sorted(walk.deltas, mid))
      /\ time.complete <=> n > 0 /\ g = Requested(Window + 1) /\ n + walk.backwards = tip - g
  BY DEF blockTimeStats
<1>2. time.sum = sum[n]
  BY DEF blockTimeStats
<1>3. /\ g \in Nat /\ Pairs(g) = AskedPairs /\ \A Q \in SUBSET Held : Below(Q, tip) = Q
      /\ g = Requested(Window + 1) => /\ Asked \ {0} = g + 1..tip
                                      /\ g = Larger(0, tip - Window)
  BY WindowWalked
<1>4. walk = TimesAt(g, tip)
  <2> HIDE DEF g
  <2> QED BY <1>3, TimesGathered
<1> HIDE DEF sum, walk, time, g
<1>5. /\ AskedPairs \in SUBSET Heights /\ AskedPairs \in SUBSET Held /\ IsFiniteSet(AskedPairs)
      /\ \A h \in AskedPairs : Gap(h) \in Int /\ h \in Held /\ h - 1 \in Held
  <2>1. AskedPairs \in SUBSET Heights /\ AskedPairs \in SUBSET Held
    BY DEF AskedPairs, Asked
  <2>2. \A h \in AskedPairs : Gap(h) \in Int /\ h \in Held /\ h - 1 \in Held
    BY <1>3, HeldTimes
  <2> QED BY <2>1, <2>2, HeightsFinite
<1>6. Rising(g) = up /\ Falling(g) = down
  <2>1. \A h \in AskedPairs : Gap(h) < 0 <=> ~ Gap(h) >= 0
    BY <1>5
  <2> QED BY <1>3, <2>1 DEF Rising, Falling
<1>7. /\ up \in SUBSET Heights /\ up \in SUBSET Held /\ down \in SUBSET Held /\ up \in SUBSET AskedPairs
      /\ \A h \in up : Gap(h) \in Nat
  BY <1>5
<1>8. Below(up, tip) = up /\ Below(down, tip) = down
  BY <1>3, <1>7
<1> HIDE DEF up, down
<1>9. walk.deltas = GapsUpTo(up, tip) /\ walk.backwards = Cardinality(down)
  BY <1>4, <1>6, <1>8 DEF TimesAt
<1> DEFINE s == GapsUpTo(up, tip)
           c == Cardinality(up)
<1>10. /\ c \in Nat /\ s \in [1..c -> Nat] /\ Len(s) = c
       /\ \A i \in 1..c : s[i] = Gap(Nth(up, i)) /\ Nth(up, i) \in up
       /\ \A m : Cardinality({k \in up : 2 * Gap(k) < m}) <= Cardinality({i \in 1..c : 2 * s[i] < m})
       /\ \A m : Cardinality({k \in up : 2 * Gap(k) < m}) \in Nat
  BY <1>7, <1>8, GapsOf
<1>11. walk.deltas = s /\ n = c
  BY <1>9, <1>10
<1>12. time.intervals = c /\ time.nonMonotonic = Cardinality(down)
  BY <1>1, <1>9, <1>11
<1>13. c + Cardinality(down) = Cardinality(AskedPairs) /\ Cardinality(down) \in Nat
  <2>1. IsFiniteSet(up) /\ IsFiniteSet(down) /\ up \cap down = {} /\ up \cup down = AskedPairs
    <3>1. up \cap down = {} /\ up \cup down = AskedPairs
      BY <1>7 DEF down
    <3> QED BY <1>5, <3>1, FS_Subset
  <2>2. Cardinality(up \cup down) = Cardinality(up) + Cardinality(down) - Cardinality(up \cap down)
    BY <2>1, FS_Union
  <2>3. Cardinality(up \cap down) = 0 /\ Cardinality(up) \in Nat /\ Cardinality(down) \in Nat
    BY <2>1, FS_EmptySet, FS_CardinalityType
  <2> DEFINE x == Cardinality(up)
             y == Cardinality(down)
             z == Cardinality(AskedPairs)
  <2>4. z = x + y - 0 /\ x \in Nat /\ y \in Nat
    BY <2>1, <2>2, <2>3
  <2>5. z = c + y
    <3>1. c = x
      OBVIOUS
    <3> HIDE DEF x, y, z, c
    <3> QED BY <2>4, <3>1
  <2> QED BY <2>4, <2>5
<1>14. ASSUME NEW h \in up
       PROVE  Cardinality({k \in up : 2 * Gap(k) < time.median2}) * 2 <= c
  <2>1. c # 0
    <3>1. IsFiniteSet(up)
      BY <1>7, HeightsFinite
    <3> QED BY <3>1, FS_EmptySet
  <2>2. time.median2 = Median2(s, c)
    <3>1. c # 0 /\ walk.deltas = s /\ n = c
      BY <1>11, <2>1
    <3> HIDE DEF s, c
    <3>2. time.median2 = Median2(walk.deltas, n)
      <4>1. n # 0
        BY <3>1
      <4>2. time.median2 = (IF n = 0 THEN None
                            ELSE IF n % 2 = 1 THEN 2 * Sorted(walk.deltas, mid)
                            ELSE Sorted(walk.deltas, mid - 1) + Sorted(walk.deltas, mid))
        BY <1>1
      <4>3. Median2(walk.deltas, n) = (IF n % 2 = 1 THEN 2 * Sorted(walk.deltas, mid)
                                       ELSE Sorted(walk.deltas, mid - 1) + Sorted(walk.deltas, mid))
        BY DEF Median2
      <4> HIDE DEF n, mid
      <4> QED BY <4>1, <4>2, <4>3
    <3> HIDE DEF n
    <3> QED BY <3>1, <3>2
  <2> HIDE DEF s, c
  <2>3. 2 * Cardinality({i \in 1..c : 2 * s[i] < Median2(s, c)}) <= c
    BY <1>10, <2>1, MedianHalves
  <2> DEFINE x == Cardinality({k \in up : 2 * Gap(k) < time.median2})
             y == Cardinality({i \in 1..c : 2 * s[i] < Median2(s, c)})
  <2>4. x <= y /\ x \in Nat
    BY <1>10, <2>2
  <2>5. y \in Nat
    <3>1. {i \in 1..c : 2 * s[i] < Median2(s, c)} \in SUBSET (1..c)
      OBVIOUS
    <3>2. y \in 0..c
      BY <1>10, <3>1, PlacesFinite
    <3> HIDE DEF y
    <3> QED BY <1>10, <3>2
  <2>6. 2 * y <= c
    BY <2>3
  <2> HIDE DEF x, y
  <2>7. x * 2 <= c
    BY <1>10, <2>4, <2>5, <2>6
  <2> QED BY <2>7 DEF x
<1>15. ASSUME time.complete
       PROVE  AskedPairs = g + 1..tip /\ Asked \ {0} = AskedPairs /\ g = Larger(0, tip - Window)
              /\ tip \in Int /\ c > 0 /\ up # {}
  <2>1. c > 0 /\ g = Requested(Window + 1) /\ c + Cardinality(down) = tip - g
    BY <1>1, <1>9, <1>11, <1>15
  <2>2. Asked \ {0} = g + 1..tip /\ g = Larger(0, tip - Window)
    BY <1>3, <2>1
  <2>3. tip \in Int
    BY StoreAssumption DEF TypeOK, Heights
  <2>4. AskedPairs \subseteq g + 1..tip
    <3>1. \A h \in AskedPairs : h \in Asked /\ h # 0
      <4>1. \A h \in Held : h \in Heights
        BY DEF Held
      <4>2. -1 \notin Heights
        BY DEF Heights
      <4> QED BY <1>5, <4>1, <4>2 DEF AskedPairs
    <3> QED BY <2>2, <3>1
  <2>5. IsFiniteSet(g + 1..tip) /\ Cardinality(g + 1..tip) = IF g + 1 > tip THEN 0 ELSE tip - g
    <3>1. g + 1 \in Int /\ tip - (g + 1) + 1 = tip - g
      BY <1>3, <2>3
    <3> QED BY <2>3, <3>1, FS_Interval
  <2>6. Cardinality(AskedPairs) = Cardinality(g + 1..tip)
    <3> HIDE DEF c
    <3> QED BY <1>3, <1>10, <1>13, <2>1, <2>3, <2>5
  <2>7. AskedPairs = g + 1..tip
    BY <2>4, <2>5, <2>6, FS_Subset
  <2>8. up # {}
    BY <2>1, FS_EmptySet
  <2> QED BY <2>1, <2>2, <2>3, <2>7, <2>8
<1>16. ASSUME time.complete
       PROVE  IF up = AskedPairs THEN time.sum = TimeOf[blocks[tip]] - TimeOf[blocks[Larger(0, tip - Window)]]
              ELSE time.sum > TimeOf[blocks[tip]] - TimeOf[blocks[Larger(0, tip - Window)]]
  <2>1. AskedPairs = g + 1..tip /\ g = Larger(0, tip - Window) /\ tip \in Int /\ c > 0 /\ g \in Nat
    BY <1>3, <1>15, <1>16
  <2>2. PICK h \in up : TRUE
    BY <1>15, <1>16
  <2>3. h \in g + 1..tip
    BY <1>7, <2>1, <2>2
  <2>4. g <= tip /\ g + 1 \in g + 1..tip /\ g + 1 - 1 = g
    BY <2>1, <2>3
  <2>5. g..tip \subseteq Held
    <3> SUFFICES ASSUME NEW k \in g..tip PROVE k \in Held
      OBVIOUS
    <3>1. CASE k = g
      BY <1>5, <2>1, <2>4, <3>1
    <3>2. CASE k # g
      <4>1. k \in g + 1..tip
        BY <2>1, <3>2
      <4> QED BY <1>5, <2>1, <4>1
    <3> QED BY <3>1, <3>2
  <2>6. up = {k \in g + 1..tip : Gap(k) >= 0}
    BY <2>1 DEF up
  <2>7. PICK f : Adds(f, up, g, tip)
    BY <2>1, <2>4, <2>5, <2>6, GapsAddUp
  <2> HIDE DEF s, c, n
  <2>8. /\ f \in [0..c -> Int] /\ f[0] = 0 /\ \A i \in 1..c : f[i] = f[i - 1] + Gap(Nth(up, i))
        /\ IF up = g + 1..tip THEN f[c] = TimeOf[blocks[tip]] - TimeOf[blocks[g]]
           ELSE f[c] > TimeOf[blocks[tip]] - TimeOf[blocks[g]]
    BY <2>7 DEF Adds, c
  <2>9. sum[n] = f[n]
    <3> DEFINE r == walk.deltas
    <3>1. n \in Nat /\ f \in [0..n -> Int] /\ f[0] = 0 /\ \A i \in 1..n : f[i] = f[i - 1] + r[i]
      BY <1>10, <1>11, <2>8
    <3> HIDE DEF r
    <3>2. LET total[i \in 0..n] == IF i = 0 THEN 0 ELSE total[i - 1] + r[i] IN total[n] = f[n]
      BY <3>1, SumKnown
    <3> QED BY <3>2 DEF sum, r
  <2>10. time.sum = f[c]
    BY <1>2, <1>11, <2>9
  <2> QED BY <2>1, <2>8, <2>10
<1>17. ASSUME up # {}, Asked \ {0} = AskedPairs PROVE time.complete
  <2>1. g = Requested(Window + 1)
    <3> DEFINE q == Requested(Window + 1)
    <3>1. /\ q \in Nat /\ (g = q \/ (g = low /\ q < low)) /\ tip - Window <= q /\ low \in Nat
          /\ tip \in Int /\ tip <= MaxHeight /\ MaxHeight \in Nat /\ Window \in Nat
          /\ \A k \in Held : low <= k /\ k <= tip /\ k \in Int
      <4>1. /\ tip \in Int /\ low \in Nat /\ Window \in Nat /\ tip <= MaxHeight /\ MaxHeight \in Nat
            /\ \A k \in Held : low <= k /\ k <= tip /\ k \in Int
        BY StoreAssumption, StatsAssumption DEF TypeOK, NewestKept, Heights, Infinity, Held
      <4>2. q \in Nat /\ tip - Window <= q
        BY <4>1 DEF Requested, Larger
      <4>3. g = Larger(q, low)
        BY DEF g, From
      <4> HIDE DEF q
      <4> QED BY <4>1, <4>2, <4>3 DEF Larger
    <3>2. PICK h \in up : TRUE
      BY <1>17
    <3>3. h \in Held
      BY <1>7
    <3> SUFFICES ASSUME g # q PROVE FALSE
      OBVIOUS
    <3> HIDE DEF q
    <3>4. low <= tip
      BY <3>1, <3>3
    <3>5. q + 1 \in Asked \ {0}
      <4>1. q + 1 \in Int /\ tip - Window < q + 1 /\ q + 1 <= tip /\ q + 1 <= MaxHeight /\ q + 1 > 0
        BY <3>1, <3>4
      <4> QED BY <4>1 DEF Asked, Heights
    <3>6. q \in Held
      <4> DEFINE e == q + 1
      <4>1. e - 1 = q /\ e \in AskedPairs
        BY <1>17, <3>1, <3>5
      <4> HIDE DEF e
      <4>2. e - 1 \in Held
        BY <1>5, <4>1
      <4> QED BY <4>1, <4>2
    <3> QED BY <3>1, <3>6
  <2>2. AskedPairs = g + 1..tip /\ tip \in Int
    <3>1. tip \in Int
      BY StoreAssumption DEF TypeOK, Heights
    <3> QED BY <1>3, <1>17, <2>1, <3>1
  <2>3. c > 0
    <3>1. IsFiniteSet(up)
      BY <1>7, HeightsFinite
    <3>2. c # 0
      BY <1>17, <3>1, FS_EmptySet
    <3> HIDE DEF c
    <3> QED BY <1>10, <3>2
  <2>4. c + Cardinality(down) = Cardinality(AskedPairs) /\ Cardinality(down) \in Nat
    BY <1>13
  <2>5. Cardinality(g + 1..tip) = tip - g
    <3>1. PICK h \in up : TRUE
      BY <1>17
    <3>2. h \in g + 1..tip
      BY <1>7, <2>2, <3>1
    <3>3. g + 1 \in Int /\ tip - (g + 1) + 1 = tip - g /\ ~ g + 1 > tip
      BY <1>3, <2>2, <3>2
    <3> QED BY <2>2, <3>3, FS_Interval
  <2> HIDE DEF c
  <2>6. c + Cardinality(down) = tip - g
    BY <2>2, <2>4, <2>5
  <2>7. n > 0 /\ n + walk.backwards = tip - g
    BY <1>9, <1>11, <2>3, <2>6
  <2> HIDE DEF n
  <2> QED BY <1>1, <2>1, <2>7
<1>18. time.complete <=> up # {} /\ Asked \ {0} = AskedPairs
  BY <1>15, <1>17
<1> QED BY <1>12, <1>14, <1>16, <1>18 DEF time, up, down

LEMMA WindowHonest ==
  ASSUME TypeOK, NewestKept
  PROVE  WindowsHonest
<1>1. /\ Asked = {h \in Heights : tip - Window < h /\ h <= tip}
      /\ AskedPairs = {h \in Asked : h - 1 \in Held /\ h \in Held}
  BY DEF Asked, AskedPairs
<1> QED BY MinersHonest, TimesHonest, SignalsHonest DEF WindowsHonest, Asked, AskedPairs, Gap

\* The statistics of a window count the blocks of the heights asked that the store
\* still has, and say complete only when none is missing: miners' wins, the intervals
\* between neighbours, never across a hole, with their median, and the signals recorded.
\* The intervals of a complete window come to the time it took, or to more where a
\* header that went backwards was dropped (windowMinerStats, blockTimeStats and
\* versionBitsSignaling in store.js).
THEOREM WindowsCorrect == ReadsSpec => []WindowsHonest
<1>1. ReadsInv => WindowsHonest
  BY WindowHonest DEF ReadsInv, TablesInv, IInv
<1> QED BY <1>1, ReadsInvHolds, PTL

-----------------------------------------------------------------------------
(* Queries: the fields are resolved one after the other.                      *)

AliasesOf(sels) == {sels[i].alias : i \in DOMAIN sels}
Begun(D) == [chars |-> 0, errors |-> 0, data |-> [a \in D |-> Nothing]]
IsRun(r, sels, D) == r = [i \in 0..Len(sels) |-> IF i = 0 THEN Begun(D) ELSE Resolve(r[i - 1], sels[i])]
Fits(s, sel) == schemaRoots(sel.root) # Nothing /\ s.chars + schemaRoots(sel.root) <= MaxChars
SumsUp(s) == IsFiniteSet(Units(s.data)) /\ SumOf(s.data) <= s.chars
State(D) == [chars : 0..MaxChars, errors : Nat, data : [D -> Nat]]

LEMMA RunExists ==
  ASSUME NEW sels \in Seq(Selections), NEW D
  PROVE  \E r : IsRun(r, sels, D)
<1> DEFINE n == Len(sels)
           Partly(r, k) == r = [i \in 0..k |-> IF i = 0 THEN Begun(D) ELSE Resolve(r[i - 1], sels[i])]
           Not == {k \in Nat : k <= n /\ ~ \E r : Partly(r, k)}
<1>0. n \in Nat
  OBVIOUS
<1>1. Not = {}
  <2> SUFFICES ASSUME Not # {} PROVE FALSE
    OBVIOUS
  <2>1. PICK k \in Not : \A j \in Not : k <= j
    <3>1. Not \in SUBSET Nat
      OBVIOUS
    <3> HIDE DEF Not
    <3> QED BY <3>1, LeastNat
  <2>2. k # 0
    <3>1. Partly([i \in 0..0 |-> Begun(D)], 0)
      OBVIOUS
    <3> QED BY <3>1
  <2>3. PICK r : Partly(r, k - 1)
    <3>1. k - 1 \in Nat /\ k - 1 <= n /\ ~ k <= k - 1
      BY <1>0, <2>2
    <3> QED BY <2>1, <3>1
  <2> DEFINE q == [i \in 0..k |-> IF i = k THEN Resolve(r[k - 1], sels[k]) ELSE r[i]]
  <2>4. \A i \in 0..k : q[i] = IF i = 0 THEN Begun(D) ELSE Resolve(q[i - 1], sels[i])
    <3> TAKE i \in 0..k
    <3>1. CASE i = k
      <4>1. k - 1 \in 0..k /\ k - 1 # k
        BY <2>2
      <4>2. q[k - 1] = r[k - 1]
        BY <4>1
      <4> QED BY <2>2, <3>1, <4>2
    <3>2. CASE i # k /\ i = 0
      <4>1. 0 \in 0..(k - 1)
        BY <2>2
      <4>2. r[0] = Begun(D)
        BY <2>3, <4>1
      <4> QED BY <3>2, <4>2
    <3>3. CASE i # k /\ i # 0
      <4>1. i \in 0..(k - 1) /\ i - 1 \in 0..k /\ i - 1 # k
        BY <3>3
      <4>2. q[i] = r[i] /\ q[i - 1] = r[i - 1]
        BY <3>3, <4>1
      <4>3. r[i] = Resolve(r[i - 1], sels[i])
        BY <2>3, <3>3, <4>1
      <4> QED BY <3>3, <4>2, <4>3
    <3> QED BY <3>1, <3>2, <3>3
  <2>5. Partly(q, k)
    <3>1. q = [i \in 0..k |-> q[i]]
      OBVIOUS
    <3> HIDE DEF q
    <3> QED BY <2>4, <3>1
  <2> QED BY <2>1, <2>5
<1>2. n \notin Not
  BY <1>1
<1> QED BY <1>0, <1>2 DEF IsRun

LEMMA RunGoes ==
  ASSUME NEW sels \in Seq(Selections), NEW D, NEW r, IsRun(r, sels, D)
  PROVE  /\ r[0] = Begun(D)
         /\ \A i \in 1..Len(sels) : r[i] = Resolve(r[i - 1], sels[i])
<1>1. Len(sels) \in Nat
  OBVIOUS
<1>2. \A i \in 0..Len(sels) : r[i] = IF i = 0 THEN Begun(D) ELSE Resolve(r[i - 1], sels[i])
  BY DEF IsRun
<1>3. 0 \in 0..Len(sels) /\ \A i \in 1..Len(sels) : i \in 0..Len(sels) /\ i # 0
  BY <1>1
<1> QED BY <1>2, <1>3

LEMMA RunIs ==
  ASSUME NEW sels \in Seq(Selections)
  PROVE  \E r : IsRun(r, sels, AliasesOf(sels)) /\ executeGraphql(sels) = r[Len(sels)]
<1> DEFINE D == AliasesOf(sels)
           R == CHOOSE r : IsRun(r, sels, D)
<1>1. IsRun(R, sels, D)
  BY RunExists
<1>2. executeGraphql(sels) = R[Len(sels)]
  BY DEF executeGraphql, IsRun, Begun, AliasesOf
<1> QED BY <1>1, <1>2

\* A root is worth a natural number.
LEMMA RootSized == TypeOK => \A root \in Roots : schemaRoots(root) \in Nat
<1> SUFFICES ASSUME TypeOK, NEW root \in Roots PROVE schemaRoots(root) \in Nat
  OBVIOUS
<1>1. \A h : Stored(h) \in Nat
  <2>1. \A h \in Held : blocks[h] \in Blocks
    BY DEF TypeOK, Held
  <2> QED BY <2>1, StoreAssumption DEF Stored
<1> QED BY <1>1 DEF schemaRoots, Nothing

\* What is summed when one value changes.
LEMMA SumChanged ==
  ASSUME NEW D, NEW f \in [D -> Nat], NEW x \in D, NEW v \in Nat, IsFiniteSet(Units(f)),
         NEW g, g = [f EXCEPT ![x] = v]
  PROVE  /\ IsFiniteSet(Units(g)) /\ SumOf(g) \in Nat /\ SumOf(f) \in Nat
         /\ SumOf(g) <= SumOf(f) + v
<1> DEFINE more == {x} \X (1..v)
<1>1. IsFiniteSet(more) /\ Cardinality(more) = v
  <2>1. IsFiniteSet(1..v) /\ Cardinality(1..v) = v
    BY FS_Interval
  <2>2. IsFiniteSet({x}) /\ Cardinality({x}) = 1
    BY FS_Singleton
  <2>3. IsFiniteSet(more) /\ Cardinality(more) = Cardinality({x}) * Cardinality(1..v)
    BY <2>1, <2>2, FS_Product
  <2>4. Cardinality({x}) * Cardinality(1..v) = v
    BY <2>1, <2>2
  <2> QED BY <2>3, <2>4
<1>2. Units(g) \subseteq Units(f) \cup more
  BY DEF Units
<1>3. IsFiniteSet(Units(f) \cup more) /\ Cardinality(Units(f) \cup more) = Cardinality(Units(f)) + Cardinality(more) - Cardinality(Units(f) \cap more)
  BY <1>1, FS_Union
<1>4. IsFiniteSet(Units(f) \cap more) /\ IsFiniteSet(Units(g))
  BY <1>1, <1>2, <1>3, FS_Subset
<1>5. Cardinality(Units(g)) <= Cardinality(Units(f) \cup more)
  BY <1>2, <1>3, FS_Subset
<1>6. /\ Cardinality(Units(f) \cap more) \in Nat /\ Cardinality(Units(g)) \in Nat
      /\ Cardinality(Units(f)) \in Nat /\ Cardinality(Units(f) \cup more) \in Nat
  BY <1>3, <1>4, FS_CardinalityType
<1> HIDE DEF more
<1>7. SumOf(g) <= SumOf(f) + v
  BY <1>1, <1>3, <1>5, <1>6 DEF SumOf
<1> QED BY <1>4, <1>6, <1>7 DEF SumOf

\* What is taken away when one value becomes nothing.
LEMMA SumDropped ==
  ASSUME NEW D, NEW f \in [D -> Nat], NEW x \in D, IsFiniteSet(Units(f)),
         NEW g, g = [f EXCEPT ![x] = 0]
  PROVE  IsFiniteSet(Units(g)) /\ SumOf(g) \in Nat /\ SumOf(g) <= SumOf(f)
<1>1. 0 \in Nat
  OBVIOUS
<1>2. /\ IsFiniteSet(Units(g)) /\ SumOf(g) \in Nat /\ SumOf(f) \in Nat
      /\ SumOf(g) <= SumOf(f) + 0
  BY <1>1, SumChanged
<1> QED BY <1>2

LEMMA ResolveEffect ==
  ASSUME TypeOK, NEW D, NEW s \in State(D), NEW sel \in Selections
  PROVE  /\ Resolve(s, sel).data = [s.data EXCEPT ![sel.alias] = IF Fits(s, sel) THEN schemaRoots(sel.root) ELSE 0]
         /\ Resolve(s, sel).chars = IF Fits(s, sel) THEN s.chars + schemaRoots(sel.root) ELSE s.chars
         /\ Resolve(s, sel).errors = IF Fits(s, sel) THEN s.errors ELSE s.errors + 1
         /\ Resolve(s, sel) \in State(D)
         /\ schemaRoots(sel.root) \in Nat
<1>1. schemaRoots(sel.root) \in Nat
  BY RootSized DEF Selections
<1>2. /\ Resolve(s, sel).data = [s.data EXCEPT ![sel.alias] = IF Fits(s, sel) THEN schemaRoots(sel.root) ELSE 0]
      /\ Resolve(s, sel).chars = IF Fits(s, sel) THEN s.chars + schemaRoots(sel.root) ELSE s.chars
      /\ Resolve(s, sel).errors = IF Fits(s, sel) THEN s.errors ELSE s.errors + 1
      /\ Resolve(s, sel) = [chars |-> Resolve(s, sel).chars, data |-> Resolve(s, sel).data, errors |-> Resolve(s, sel).errors]
  BY DEF Resolve, Fits, Nothing
<1>3. s.chars \in 0..MaxChars /\ s.errors \in Nat /\ s.data \in [D -> Nat]
  BY DEF State
<1>4. Resolve(s, sel).chars \in 0..MaxChars /\ Resolve(s, sel).errors \in Nat
  BY <1>1, <1>2, <1>3, RootsAssumption DEF Fits
<1>5. Resolve(s, sel).data \in [D -> Nat]
  <2>1. (IF Fits(s, sel) THEN schemaRoots(sel.root) ELSE 0) \in Nat
    BY <1>1
  <2>2. \A f, v : f \in [D -> Nat] /\ v \in Nat => [f EXCEPT ![sel.alias] = v] \in [D -> Nat]
    OBVIOUS
  <2> QED BY <1>2, <1>3, <2>1, <2>2
<1>6. Resolve(s, sel) \in State(D)
  BY <1>2, <1>4, <1>5 DEF State
<1> QED BY <1>1, <1>2, <1>6

LEMMA RunTyped ==
  ASSUME TypeOK, NEW sels \in Seq(Selections), NEW D, IsFiniteSet(D), AliasesOf(sels) \subseteq D,
         NEW r, IsRun(r, sels, D)
  PROVE  \A i \in 0..Len(sels) : r[i] \in State(D) /\ SumsUp(r[i])
<1> DEFINE Bad == {i \in Nat : i <= Len(sels) /\ ~ (r[i] \in State(D) /\ SumsUp(r[i]))}
<1>0. Len(sels) \in Nat
  OBVIOUS
<1> SUFFICES ASSUME Bad # {} PROVE FALSE
  BY <1>0
<1>1. PICK k \in Bad : \A j \in Bad : k <= j
  <2>1. Bad \in SUBSET Nat
    OBVIOUS
  <2> HIDE DEF Bad
  <2> QED BY <2>1, LeastNat
<1>2. r[k] = IF k = 0 THEN Begun(D) ELSE Resolve(r[k - 1], sels[k])
  <2>1. k \in 0..Len(sels)
    BY <1>0
  <2> QED BY <2>1 DEF IsRun
<1>3. CASE k = 0
  <2>1. r[0] \in State(D)
    BY <1>2, <1>3, RootsAssumption DEF Begun, State, Nothing
  <2>2. Units(r[0].data) = {}
    BY <1>2, <1>3 DEF Begun, Nothing, Units
  <2>3. SumsUp(r[0])
    <3>1. r[0].chars = 0
      BY <1>2, <1>3 DEF Begun
    <3> QED BY <2>2, <3>1, FS_EmptySet DEF SumsUp, SumOf
  <2> QED BY <1>3, <2>1, <2>3
<1>4. CASE k # 0
  <2>1. k - 1 \in Nat /\ k - 1 <= Len(sels) /\ ~ k <= k - 1 /\ k \in 1..Len(sels)
    BY <1>0, <1>4
  <2>2. r[k - 1] \in State(D) /\ SumsUp(r[k - 1])
    BY <1>1, <2>1
  <2>3. sels[k] \in Selections /\ sels[k].alias \in D
    BY <2>1 DEF AliasesOf
  <2> DEFINE s == r[k - 1]  sel == sels[k]  v == schemaRoots(sel.root)  t == r[k]
  <2>4. t = Resolve(s, sel)
    BY <1>2, <1>4
  <2>5. s.data \in [D -> Nat] /\ s.chars \in 0..MaxChars
    BY <2>2 DEF State
  <2>6. /\ t.data = [s.data EXCEPT ![sel.alias] = IF Fits(s, sel) THEN v ELSE 0]
        /\ t.chars = IF Fits(s, sel) THEN s.chars + v ELSE s.chars
        /\ t \in State(D) /\ v \in Nat
    <3>1. s \in State(D) /\ sel \in Selections
      BY <2>2, <2>3
    <3> HIDE DEF s, sel, t
    <3> QED BY <2>4, <3>1, ResolveEffect
  <2>7. IsFiniteSet(Units(s.data)) /\ SumOf(s.data) <= s.chars
    BY <2>2 DEF SumsUp
  <2>8. SumsUp(t)
    <3> HIDE DEF s, sel, v, t
    <3>1. sel.alias \in D
      BY <2>3 DEF sel
    <3>2. CASE Fits(s, sel)
      <4>1. t.data = [s.data EXCEPT ![sel.alias] = v] /\ t.chars = s.chars + v
        BY <2>6, <3>2
      <4>2. /\ IsFiniteSet(Units(t.data)) /\ SumOf(t.data) \in Nat /\ SumOf(s.data) \in Nat
            /\ SumOf(t.data) <= SumOf(s.data) + v
        BY <2>5, <2>6, <2>7, <3>1, <4>1, SumChanged
      <4>3. SumOf(t.data) <= t.chars
        BY <2>5, <2>6, <2>7, <4>1, <4>2
      <4> QED BY <4>2, <4>3 DEF SumsUp
    <3>3. CASE ~ Fits(s, sel)
      <4>1. t.data = [s.data EXCEPT ![sel.alias] = 0] /\ t.chars = s.chars
        BY <2>6, <3>3
      <4>2. IsFiniteSet(Units(t.data)) /\ SumOf(t.data) \in Nat /\ SumOf(t.data) <= SumOf(s.data)
        BY <2>5, <2>7, <3>1, <4>1, SumDropped
      <4>3. SumOf(s.data) \in Nat
        BY <2>7, FS_CardinalityType DEF SumOf
      <4>4. SumOf(t.data) <= t.chars
        BY <2>5, <2>7, <4>1, <4>2, <4>3
      <4> QED BY <4>2, <4>4 DEF SumsUp
    <3> QED BY <3>2, <3>3
  <2> QED BY <2>6, <2>8
<1> QED BY <1>3, <1>4

\* Two executions that differ by the answers of some aliases and by some errors.
Agree(s, t, A, e) == s.chars = t.chars /\ s.errors = t.errors + e /\ \A a \in A : s.data[a] = t.data[a]

LEMMA AgreeOn ==
  ASSUME TypeOK, NEW D, NEW E, NEW A \in SUBSET (D \cap E), NEW e \in Nat,
         NEW s \in State(D), NEW t \in State(E), NEW sel \in Selections, Agree(s, t, A, e)
  PROVE  Agree(Resolve(s, sel), Resolve(t, sel), A, e)
<1>1. Fits(s, sel) <=> Fits(t, sel)
  BY DEF Agree, Fits
<1>2. s.data \in [D -> Nat] /\ t.data \in [E -> Nat] /\ s.errors \in Nat /\ t.errors \in Nat
  BY DEF State
<1>3. /\ Resolve(s, sel).data = [s.data EXCEPT ![sel.alias] = IF Fits(s, sel) THEN schemaRoots(sel.root) ELSE 0]
      /\ Resolve(s, sel).chars = IF Fits(s, sel) THEN s.chars + schemaRoots(sel.root) ELSE s.chars
      /\ Resolve(s, sel).errors = IF Fits(s, sel) THEN s.errors ELSE s.errors + 1
  BY ResolveEffect
<1>4. /\ Resolve(t, sel).data = [t.data EXCEPT ![sel.alias] = IF Fits(t, sel) THEN schemaRoots(sel.root) ELSE 0]
      /\ Resolve(t, sel).chars = IF Fits(t, sel) THEN t.chars + schemaRoots(sel.root) ELSE t.chars
      /\ Resolve(t, sel).errors = IF Fits(t, sel) THEN t.errors ELSE t.errors + 1
  BY ResolveEffect
<1>5. Resolve(s, sel).chars = Resolve(t, sel).chars
  BY <1>1, <1>3, <1>4 DEF Agree
<1>6. Resolve(s, sel).errors = Resolve(t, sel).errors + e
  BY <1>1, <1>2, <1>3, <1>4 DEF Agree
<1>7. ASSUME NEW a \in A PROVE Resolve(s, sel).data[a] = Resolve(t, sel).data[a]
  BY <1>1, <1>2, <1>3, <1>4 DEF Agree
<1> QED BY <1>5, <1>6, <1>7 DEF Agree

IsTyped(r, sels, D) ==
  IsRun(r, sels, D) /\ sels \in Seq(Selections) /\ \A i \in 0..Len(sels) : r[i] \in State(D)

\* Executions that agree still do after the same fields.
LEMMA Lockstep ==
  ASSUME TypeOK, NEW D, NEW E, NEW A \in SUBSET (D \cap E), NEW e \in Nat,
         NEW u, NEW w, NEW r, NEW q, IsTyped(r, u, D), IsTyped(q, w, E),
         NEW b \in Nat, NEW c \in Nat, NEW n \in Nat, b + n <= Len(u), c + n <= Len(w),
         \A k \in 1..n : u[b + k] = w[c + k], Agree(r[b], q[c], A, e)
  PROVE  Agree(r[b + n], q[c + n], A, e)
<1> DEFINE Bad == {k \in Nat : k <= n /\ ~ Agree(r[b + k], q[c + k], A, e)}
<1>1. CASE Bad # {}
  <2>1. PICK k \in Bad : \A j \in Bad : k <= j
    <3>1. Bad \in SUBSET Nat
      OBVIOUS
    <3> HIDE DEF Bad
    <3> QED BY <1>1, <3>1, LeastNat
  <2>2. k # 0
    <3>1. b + 0 = b /\ c + 0 = c
      OBVIOUS
    <3> QED BY <2>1, <3>1
  <2>3. k - 1 \in Nat /\ k - 1 <= n /\ ~ k <= k - 1 /\ k \in 1..n
    BY <2>1, <2>2
  <2>4. Agree(r[b + (k - 1)], q[c + (k - 1)], A, e)
    BY <2>1, <2>3
  <2>5. /\ Len(u) \in Nat /\ Len(w) \in Nat
        /\ b + k \in 1..Len(u) /\ b + (k - 1) \in 0..Len(u) /\ (b + k) - 1 = b + (k - 1)
        /\ c + k \in 1..Len(w) /\ c + (k - 1) \in 0..Len(w) /\ (c + k) - 1 = c + (k - 1)
    <3>1. Len(u) \in Nat /\ Len(w) \in Nat
      BY DEF IsTyped
    <3> QED BY <2>3, <3>1
  <2>6. r[b + k] = Resolve(r[b + (k - 1)], u[b + k])
    BY <2>5, RunGoes DEF IsTyped
  <2>7. q[c + k] = Resolve(q[c + (k - 1)], w[c + k])
    BY <2>5, RunGoes DEF IsTyped
  <2>8. u[b + k] = w[c + k] /\ u[b + k] \in Selections
    BY <2>3, <2>5 DEF IsTyped
  <2>9. r[b + (k - 1)] \in State(D) /\ q[c + (k - 1)] \in State(E)
    BY <2>5 DEF IsTyped
  <2>10. Agree(r[b + k], q[c + k], A, e)
    BY <2>4, <2>6, <2>7, <2>8, <2>9, AgreeOn
  <2> QED BY <2>1, <2>10
<1>2. CASE Bad = {}
  <2>1. n \notin Bad
    BY <1>2
  <2> QED BY <2>1
<1> QED BY <1>1, <1>2

LEMMA QueryTyped ==
  ASSUME TypeOK, NEW sels \in Seq(Selections)
  PROVE  \E r : /\ IsTyped(r, sels, AliasesOf(sels)) /\ executeGraphql(sels) = r[Len(sels)]
                /\ \A i \in 0..Len(sels) : SumsUp(r[i])
<1>1. PICK r : IsRun(r, sels, AliasesOf(sels)) /\ executeGraphql(sels) = r[Len(sels)]
  BY RunIs
<1>2. IsFiniteSet(AliasesOf(sels))
  <2>1. IsFiniteSet(1..Len(sels))
    BY FS_Interval
  <2>2. AliasesOf(sels) = {sels[i].alias : i \in 1..Len(sels)}
    BY DEF AliasesOf
  <2> DEFINE f == [i \in 1..Len(sels) |-> sels[i].alias]
  <2>3. f \in Surjection(1..Len(sels), AliasesOf(sels))
    BY <2>2 DEF Surjection
  <2> QED BY <2>1, <2>3, FS_Surjection
<1>3. \A i \in 0..Len(sels) : r[i] \in State(AliasesOf(sels)) /\ SumsUp(r[i])
  BY <1>1, <1>2, RunTyped
<1> QED BY <1>1, <1>3 DEF IsTyped

\* The first fields leave the counters where the whole query has them after these.
LEMMA FirstCounts ==
  ASSUME TypeOK, NEW sels \in Seq(Selections), NEW D, NEW r, IsTyped(r, sels, D), NEW i \in 0..Len(sels)
  PROVE  executeGraphql(First(sels, i)).errors = r[i].errors
<1> DEFINE w == First(sels, i)
<1>1. w \in Seq(Selections) /\ Len(w) = i /\ \A k \in 1..i : w[k] = sels[k]
  BY DEF First
<1>2. PICK q : IsTyped(q, w, AliasesOf(w)) /\ executeGraphql(w) = q[Len(w)]
  BY <1>1, QueryTyped
<1>3. Agree(r[0], q[0], {}, 0)
  <2>1. r[0] = Begun(D) /\ q[0] = Begun(AliasesOf(w))
    BY <1>1, <1>2 DEF IsTyped, IsRun
  <2> QED BY <2>1 DEF Agree, Begun
<1>4. Agree(r[0 + i], q[0 + i], {}, 0)
  <2>1. {} \in SUBSET (D \cap AliasesOf(w)) /\ 0 \in Nat /\ i \in Nat /\ 0 + i <= Len(sels) /\ 0 + i <= Len(w)
    BY <1>1
  <2>2. \A k \in 1..i : sels[0 + k] = w[0 + k]
    BY <1>1
  <2> HIDE DEF w
  <2> QED BY <1>2, <1>3, <2>1, <2>2, Lockstep
<1>5. 0 + i = i /\ q[i].errors \in Nat
  BY <1>1, <1>2 DEF IsTyped, State
<1> QED BY <1>1, <1>2, <1>4, <1>5 DEF Agree

\* An error shows that the field was refused, which leaves all but its alias.
LEMMA RefusedEffect ==
  ASSUME TypeOK, NEW D, NEW s \in State(D), NEW sel \in Selections,
         NEW t, t = Resolve(s, sel), t.errors > s.errors
  PROVE  t.chars = s.chars /\ t.errors = s.errors + 1 /\ t.data = [s.data EXCEPT ![sel.alias] = 0]
<1>1. s.errors \in Nat
  BY DEF State
<1>2. /\ t.data = [s.data EXCEPT ![sel.alias] = IF Fits(s, sel) THEN schemaRoots(sel.root) ELSE 0]
      /\ t.chars = IF Fits(s, sel) THEN s.chars + schemaRoots(sel.root) ELSE s.chars
      /\ t.errors = IF Fits(s, sel) THEN s.errors ELSE s.errors + 1
  BY ResolveEffect
<1>3. ~ Fits(s, sel)
  BY <1>1, <1>2
<1> QED BY <1>2, <1>3

LEMMA RefusedAlone ==
  ASSUME TypeOK, NEW sels \in Seq(Selections), NEW i \in 1..Len(sels),
         executeGraphql(First(sels, i)).errors > executeGraphql(First(sels, i - 1)).errors
  PROVE  \A a \in DOMAIN executeGraphql(Without(sels, i)).data \ {sels[i].alias} :
           executeGraphql(sels).data[a] = executeGraphql(Without(sels, i)).data[a]
<1> DEFINE n == Len(sels)
           w == Without(sels, i)
           D == AliasesOf(sels)
           E == AliasesOf(w)
           A == E \ {sels[i].alias}
<1>1. PICK r : IsTyped(r, sels, D) /\ executeGraphql(sels) = r[n]
  BY QueryTyped
<1>2. /\ w \in Seq(Selections) /\ Len(w) = n - 1 /\ n \in Nat \ {0}
      /\ \A k \in 1..(i - 1) : w[k] = sels[k]
      /\ \A k \in 1..(n - i) : w[(i - 1) + k] = sels[i + k]
  <2> DEFINE f == SubSeq(sels, 1, i - 1)
             g == SubSeq(sels, i + 1, n)
  <2>1. n \in Nat \ {0} /\ i \in Nat /\ i - 1 \in Nat /\ n - i \in Nat
    OBVIOUS
  <2>2. f \in Seq(Selections) /\ Len(f) = i - 1 /\ \A k \in 1..(i - 1) : f[k] = sels[k]
    OBVIOUS
  <2>3. g \in Seq(Selections) /\ Len(g) = n - i /\ \A k \in 1..(n - i) : g[k] = sels[i + k]
    <3>1. \A j \in (i + 1)..n : sels[j] \in Selections
      OBVIOUS
    <3>2. /\ g \in Seq(Selections)
          /\ Len(g) = IF i + 1 <= n THEN n - (i + 1) + 1 ELSE 0
          /\ \A k \in 1..(n - (i + 1) + 1) : g[k] = sels[i + 1 + k - 1]
      BY <2>1, <3>1, SubSeqProperties
    <3> QED BY <2>1, <3>2
  <2>4. w = f \o g
    BY DEF Without, First
  <2> HIDE DEF f, g, w, n
  <2>5. w \in Seq(Selections) /\ Len(w) = Len(f) + Len(g)
        /\ \A k \in 1..(Len(f) + Len(g)) : w[k] = IF k <= Len(f) THEN f[k] ELSE g[k - Len(f)]
    BY <2>2, <2>3, <2>4, ConcatProperties, Zenon
  <2>6. \A k \in 1..(i - 1) : w[k] = sels[k]
    BY <2>1, <2>2, <2>3, <2>5
  <2>7. ASSUME NEW k \in 1..(n - i) PROVE w[(i - 1) + k] = sels[i + k]
    <3>1. (i - 1) + k \in 1..(Len(f) + Len(g)) /\ ~ (i - 1) + k <= Len(f) /\ ((i - 1) + k) - Len(f) = k
      BY <2>1, <2>2, <2>3
    <3>2. w[(i - 1) + k] = g[k]
      BY <2>5, <3>1
    <3> QED BY <2>3, <3>2
  <2> QED BY <2>1, <2>2, <2>3, <2>5, <2>6, <2>7
<1>3. PICK q : IsTyped(q, w, E) /\ executeGraphql(w) = q[Len(w)]
  BY <1>2, QueryTyped
<1> HIDE DEF w
<1>4. E \subseteq D
  <2>0. DOMAIN w = 1..Len(w)
    BY <1>2
  <2> SUFFICES ASSUME NEW k \in 1..Len(w) PROVE w[k].alias \in D
    BY <2>0 DEF AliasesOf
  <2>1. CASE k <= i - 1
    <3>1. w[k] = sels[k] /\ k \in DOMAIN sels
      BY <1>2, <2>1
    <3> QED BY <3>1 DEF AliasesOf
  <2>2. CASE k > i - 1
    <3>1. k - (i - 1) \in 1..(n - i) /\ (i - 1) + (k - (i - 1)) = k /\ i + (k - (i - 1)) \in DOMAIN sels
      BY <1>2, <2>2
    <3>2. w[k] = sels[i + (k - (i - 1))]
      BY <1>2, <3>1
    <3> QED BY <3>1, <3>2 DEF AliasesOf
  <2> QED BY <1>2, <2>1, <2>2
<1>5. Agree(r[0], q[0], E, 0)
  <2>1. r[0] = Begun(D) /\ q[0] = Begun(E)
    BY <1>2, <1>1, <1>3 DEF IsTyped, IsRun
  <2> QED BY <1>4, <2>1 DEF Agree, Begun
<1>6. Agree(r[i - 1], q[i - 1], E, 0)
  <2>1. /\ E \in SUBSET (D \cap E) /\ 0 \in Nat /\ i - 1 \in Nat
        /\ 0 + (i - 1) <= Len(sels) /\ 0 + (i - 1) <= Len(w) /\ 0 + (i - 1) = i - 1
    BY <1>2, <1>4
  <2>2. \A k \in 1..(i - 1) : sels[0 + k] = w[0 + k]
    BY <1>2
  <2> HIDE DEF w, D, E
  <2>3. Agree(r[0 + (i - 1)], q[0 + (i - 1)], E, 0)
    BY <1>1, <1>3, <1>5, <2>1, <2>2, Lockstep
  <2> QED BY <2>1, <2>3
<1>7. r[i] = Resolve(r[i - 1], sels[i]) /\ r[i - 1] \in State(D) /\ sels[i] \in Selections
  <2>1. i \in 0..n /\ i - 1 \in 0..n /\ i # 0
    BY <1>2
  <2> QED BY <1>1, <2>1 DEF IsTyped, IsRun
<1>8. r[i].errors > r[i - 1].errors
  <2>1. i \in 0..Len(sels) /\ i - 1 \in 0..Len(sels)
    BY <1>2
  <2> QED BY <1>1, <2>1, FirstCounts
<1>9. /\ r[i].chars = r[i - 1].chars /\ r[i].errors = r[i - 1].errors + 1
      /\ r[i].data = [r[i - 1].data EXCEPT ![sels[i].alias] = 0]
  <2> DEFINE p == r[i - 1]
             sel == sels[i]
             t == r[i]
  <2>1. p \in State(D) /\ sel \in Selections /\ t = Resolve(p, sel) /\ t.errors > p.errors
    BY <1>7, <1>8
  <2>2. t.chars = p.chars /\ t.errors = p.errors + 1 /\ t.data = [p.data EXCEPT ![sel.alias] = 0]
    <3> HIDE DEF p, sel, t, D
    <3> QED BY <2>1, RefusedEffect
  <2> QED BY <2>2
<1>10. Agree(r[i], q[i - 1], A, 1)
  <2>1. q[i - 1].errors \in Nat
    BY <1>2, <1>3 DEF IsTyped, State
  <2>2. r[i - 1].data \in [D -> Nat]
    BY <1>7 DEF State
  <2>3. \A a \in A : r[i].data[a] = r[i - 1].data[a]
    BY <1>4, <1>9, <2>2
  <2>4. r[i].errors = q[i - 1].errors + 1
    BY <1>6, <1>9, <2>1 DEF Agree
  <2> QED BY <1>6, <1>9, <2>3, <2>4 DEF Agree
<1>11. Agree(r[n], q[n - 1], A, 1)
  <2> DEFINE c == i - 1
             m == n - i
  <2>1. /\ A \in SUBSET (D \cap E) /\ 1 \in Nat /\ i \in Nat /\ c \in Nat /\ m \in Nat
        /\ i + m <= Len(sels) /\ c + m <= Len(w) /\ i + m = n /\ c + m = n - 1
    BY <1>2, <1>4
  <2>2. \A k \in 1..m : sels[i + k] = w[c + k]
    BY <1>2
  <2>3. Agree(r[i], q[c], A, 1)
    BY <1>10
  <2> HIDE DEF c, m, w, D, E, A
  <2>4. Agree(r[i + m], q[c + m], A, 1)
    BY <1>1, <1>3, <2>1, <2>2, <2>3, Lockstep
  <2> QED BY <2>1, <2>4
<1>12. DOMAIN executeGraphql(w).data = E
  <2>1. q[Len(w)] \in State(E)
    BY <1>2, <1>3 DEF IsTyped
  <2> QED BY <1>3, <2>1 DEF State
<1> QED BY <1>1, <1>2, <1>3, <1>11, <1>12 DEF Agree, w

LEMMA QueryIsolated == TypeOK => FailureIsolated
<1> SUFFICES ASSUME TypeOK, NEW n \in 1..MaxRoots, NEW sels \in [1..n -> Selections]
             PROVE  /\ executeGraphql(sels).chars <= MaxChars
                    /\ SumOf(executeGraphql(sels).data) <= executeGraphql(sels).chars
                    /\ \A i \in 1..n :
                         executeGraphql(First(sels, i)).errors > executeGraphql(First(sels, i - 1)).errors =>
                           \A a \in DOMAIN executeGraphql(Without(sels, i)).data \ {sels[i].alias} :
                             executeGraphql(sels).data[a] = executeGraphql(Without(sels, i)).data[a]
  BY DEF FailureIsolated
<1>1. sels \in Seq(Selections) /\ Len(sels) = n
  <2>1. n \in Nat
    OBVIOUS
  <2> QED BY <2>1
<1>2. PICK r : /\ IsTyped(r, sels, AliasesOf(sels)) /\ executeGraphql(sels) = r[Len(sels)]
               /\ \A i \in 0..Len(sels) : SumsUp(r[i])
  BY <1>1, QueryTyped
<1>3. r[n] \in State(AliasesOf(sels)) /\ SumsUp(r[n])
  BY <1>1, <1>2 DEF IsTyped
<1>4. r[n].chars <= MaxChars /\ SumOf(r[n].data) <= r[n].chars
  BY <1>3, RootsAssumption DEF State, SumsUp
<1> QED BY <1>1, <1>2, <1>4, RefusedAlone

\* A root field of a query that fails or does not fit changes no other answer, and
\* what is sent is within the budget, for any query, any aliases and any budget
\* (executeGraphql in graphql.js).
THEOREM FailuresCorrect == ReadsSpec => []FailureIsolated
<1>1. ReadsInv => FailureIsolated
  BY QueryIsolated DEF ReadsInv, TablesInv, IInv
<1> QED BY <1>1, ReadsInvHolds, PTL

-----------------------------------------------------------------------------
(* The parser: arguments.                                                     *)

ArgsStep(toks, g, i) ==
  IF peek(toks, i) = ")" THEN i + 1
  ELSE IF peek(toks, i) \in Names /\ peek(toks, i + 1) = ":" /\ peek(toks, i + 2) \in Values
       THEN g[i + 3] ELSE 0
IsArgs(g, toks) == g = [i \in 1..(Len(toks) + 1) |-> ArgsStep(toks, g, i)]

LEMMA PeekIn ==
  ASSUME NEW toks \in Seq(Tokens), NEW p \in Int
  PROVE  /\ p \in 1..Len(toks) => peek(toks, p) = toks[p] /\ toks[p] \in Tokens
         /\ p \notin 1..Len(toks) => peek(toks, p) = "EOF"
         /\ peek(toks, p) \in Tokens => p \in 1..Len(toks)
         /\ peek(toks, p) \in Tokens \cup {"EOF"}
<1>1. DOMAIN toks = 1..Len(toks) /\ \A i \in 1..Len(toks) : toks[i] \in Tokens
  OBVIOUS
<1>2. peek(toks, p) = IF p \in 1..Len(toks) THEN toks[p] ELSE "EOF"
  BY <1>1 DEF peek
<1>3. "EOF" \notin Tokens
  BY DEF Tokens
<1>4. CASE p \in 1..Len(toks)
  BY <1>1, <1>2, <1>4
<1>5. CASE p \notin 1..Len(toks)
  BY <1>2, <1>3, <1>5
<1> QED BY <1>4, <1>5

LEMMA ArgsExist ==
  ASSUME NEW toks \in Seq(Tokens)
  PROVE  \E g : IsArgs(g, toks)
<1> DEFINE n == Len(toks)
           Partly(g, k) == g = [i \in (n + 1 - k)..(n + 1) |-> ArgsStep(toks, g, i)]
           Not == {k \in Nat : k <= n /\ ~ \E g : Partly(g, k)}
<1>0. n \in Nat
  OBVIOUS
<1>1. Not = {}
  <2> SUFFICES ASSUME Not # {} PROVE FALSE
    OBVIOUS
  <2>1. PICK k \in Not : \A j \in Not : k <= j
    <3>1. Not \in SUBSET Nat
      OBVIOUS
    <3> HIDE DEF Not
    <3> QED BY <3>1, LeastNat
  <2> DEFINE m == n + 1 - k
             Onto(g) == [i \in m..(n + 1) |-> IF i = m THEN ArgsStep(toks, g, m) ELSE g[i]]
  <2>2. m \in 1..(n + 1) /\ k \in Nat
    BY <1>0, <2>1
  <2>3. ASSUME NEW g, \A i \in (m + 1)..(n + 1) : g[i] = ArgsStep(toks, g, i)
        PROVE  Partly(Onto(g), k)
    <3> DEFINE q == Onto(g)
    <3>1. \A i \in (m + 1)..(n + 1) : q[i] = g[i]
      BY <1>0, <2>2
    <3>2. q[m] = ArgsStep(toks, g, m)
      BY <1>0, <2>2
    <3>3. q = [i \in m..(n + 1) |-> q[i]]
      OBVIOUS
    <3> HIDE DEF q
    <3>4. \A i \in m..(n + 1) : ArgsStep(toks, q, i) = ArgsStep(toks, g, i)
      <4> TAKE i \in m..(n + 1)
      <4>1. CASE peek(toks, i + 2) \in Values
        <5>1. i + 2 \in 1..n
          <6>1. peek(toks, i + 2) \in Tokens
            BY <4>1 DEF Values, Names, Tokens
          <6>2. i + 2 \in Int
            BY <1>0, <2>2
          <6> QED BY <6>1, <6>2, PeekIn
        <5>2. q[i + 3] = g[i + 3]
          BY <1>0, <2>2, <3>1, <5>1
        <5> QED BY <5>2 DEF ArgsStep
      <4>2. CASE peek(toks, i + 2) \notin Values
        BY <4>2 DEF ArgsStep
      <4> QED BY <4>1, <4>2
    <3>5. \A i \in m..(n + 1) : q[i] = ArgsStep(toks, q, i)
      <4> TAKE i \in m..(n + 1)
      <4>1. CASE i = m
        BY <3>2, <3>4, <4>1
      <4>2. CASE i # m
        <5>1. i \in (m + 1)..(n + 1)
          BY <1>0, <2>2, <4>2
        <5> QED BY <2>3, <3>1, <3>4, <5>1
      <4> QED BY <4>1, <4>2
    <3>6. Partly(q, k)
      BY <3>3, <3>5
    <3> QED BY <3>6 DEF q
  <2>4. CASE k = 0
    <3> DEFINE g == [i \in {} |-> 0]
    <3>1. \A i \in (m + 1)..(n + 1) : g[i] = ArgsStep(toks, g, i)
      BY <1>0, <2>4
    <3> HIDE DEF g
    <3>2. Partly(Onto(g), k)
      BY <2>3, <3>1
    <3> QED BY <2>1, <3>2
  <2>5. CASE k # 0
    <3>1. k - 1 \in Nat /\ k - 1 <= n /\ ~ k <= k - 1 /\ n + 1 - (k - 1) = m + 1
      BY <1>0, <2>1, <2>5
    <3>2. PICK g : Partly(g, k - 1)
      BY <2>1, <3>1
    <3>3. \A i \in (m + 1)..(n + 1) : g[i] = ArgsStep(toks, g, i)
      BY <3>1, <3>2
    <3>4. Partly(Onto(g), k)
      BY <2>3, <3>3
    <3> QED BY <2>1, <3>4
  <2> QED BY <2>4, <2>5
<1>2. n \notin Not /\ n + 1 - n = 1
  BY <1>0, <1>1
<1> QED BY <1>0, <1>2 DEF IsArgs

LEMMA ArgsAre ==
  ASSUME NEW toks \in Seq(Tokens)
  PROVE  \E g : /\ \A i \in 1..(Len(toks) + 1) : g[i] = ArgsStep(toks, g, i)
                /\ \A p : parseArgs(toks, p) = IF peek(toks, p) = "(" THEN g[p + 1] ELSE p
<1> DEFINE G == CHOOSE g : IsArgs(g, toks)
<1>1. IsArgs(G, toks)
  BY ArgsExist
<1>2. \A p : parseArgs(toks, p) = IF peek(toks, p) = "(" THEN G[p + 1] ELSE p
  BY DEF parseArgs, IsArgs, ArgsStep
<1> HIDE DEF G
<1>3. \A i \in 1..(Len(toks) + 1) : G[i] = ArgsStep(toks, G, i)
  BY <1>1 DEF IsArgs
<1> QED BY <1>2, <1>3

\* The brackets of arguments that start at first close at end.
Closes(toks, first, end) ==
  first <= end /\ end \in 1..Len(toks) /\ toks[end] = ")" /\ ArgPairs(toks, first, end)

LEMMA ThirdsOf ==
  /\ \A a \in Int : (a + 3) % 3 = a % 3 /\ a % 3 \in 0..2
  /\ 0 % 3 = 0 /\ 1 % 3 = 1 /\ 2 % 3 = 2
OBVIOUS

LEMMA ClosesOn ==
  ASSUME NEW toks \in Seq(Tokens), NEW i \in Nat \ {0}, NEW e \in Int
  PROVE  /\ Closes(toks, i, e) /\ e # i =>
              /\ toks[i] \in Names /\ toks[i + 1] = ":" /\ toks[i + 2] \in Values
              /\ i + 2 \in 1..Len(toks) /\ Closes(toks, i + 3, e)
         /\ /\ Closes(toks, i + 3, e)
            /\ toks[i] \in Names /\ toks[i + 1] = ":" /\ toks[i + 2] \in Values
            => Closes(toks, i, e)
<1>0. Len(toks) \in Nat
  OBVIOUS
<1>1. \A j \in Int : (j - i) % 3 = (j - (i + 3)) % 3
  <2> TAKE j \in Int
  <2>1. j - i = (j - (i + 3)) + 3 /\ j - (i + 3) \in Int
    OBVIOUS
  <2> QED BY <2>1, ThirdsOf
<1>2. (i - i) % 3 = 0 /\ (i + 1 - i) % 3 = 1 /\ (i + 2 - i) % 3 = 2
  <2>1. i - i = 0 /\ i + 1 - i = 1 /\ i + 2 - i = 2
    OBVIOUS
  <2> QED BY <2>1, ThirdsOf
<1>3. ASSUME Closes(toks, i, e), e # i
      PROVE  /\ toks[i] \in Names /\ toks[i + 1] = ":" /\ toks[i + 2] \in Values
             /\ i + 2 \in 1..Len(toks) /\ Closes(toks, i + 3, e)
  <2>1. (e - i) % 3 = 0 /\ e > i /\ e \in 1..Len(toks)
    BY <1>0, <1>3 DEF Closes, ArgPairs
  <2>2. e # i + 1 /\ e # i + 2
    BY <1>2, <2>1
  <2>3. e >= i + 3
    BY <1>0, <2>1, <2>2
  <2>4. i \in i..(e - 1) /\ i + 1 \in i..(e - 1) /\ i + 2 \in i..(e - 1)
    BY <1>0, <2>1, <2>3
  <2>5. toks[i] \in Names /\ toks[i + 1] \in {":"} /\ toks[i + 2] \in Values
    BY <1>2, <1>3, <2>4 DEF Closes, ArgPairs, Part
  <2>6. ArgPairs(toks, i + 3, e)
    <3>1. (e - (i + 3)) % 3 = 0
      BY <1>0, <1>1, <2>1
    <3>2. \A j \in (i + 3)..(e - 1) : j \in i..(e - 1) /\ (j - (i + 3)) % 3 = (j - i) % 3
      BY <1>0, <1>1, <2>1
    <3> QED BY <1>3, <3>1, <3>2 DEF Closes, ArgPairs
  <2> QED BY <1>0, <1>3, <2>1, <2>3, <2>5, <2>6 DEF Closes
<1>4. ASSUME Closes(toks, i + 3, e), toks[i] \in Names, toks[i + 1] = ":", toks[i + 2] \in Values
      PROVE  Closes(toks, i, e)
  <2>1. (e - (i + 3)) % 3 = 0 /\ e >= i + 3 /\ e \in 1..Len(toks)
    BY <1>0, <1>4 DEF Closes, ArgPairs
  <2>2. (e - i) % 3 = 0
    BY <1>0, <1>1, <2>1
  <2>3. \A j \in i..(e - 1) : toks[j] \in Part((j - i) % 3)
    <3> TAKE j \in i..(e - 1)
    <3>1. j = i \/ j = i + 1 \/ j = i + 2 \/ j \in (i + 3)..(e - 1)
      BY <1>0, <2>1
    <3>2. CASE j \in (i + 3)..(e - 1)
      <4>1. (j - i) % 3 = (j - (i + 3)) % 3
        BY <1>1, <3>2
      <4> QED BY <1>4, <3>2, <4>1 DEF Closes, ArgPairs
    <3>3. CASE j = i \/ j = i + 1 \/ j = i + 2
      BY <1>2, <1>4, <3>3 DEF Part
    <3> QED BY <3>1, <3>2, <3>3
  <2> QED BY <1>0, <1>4, <2>1, <2>2, <2>3 DEF Closes, ArgPairs
<1> QED BY <1>3, <1>4

LEMMA ArgsExact ==
  ASSUME NEW toks \in Seq(Tokens), NEW g,
         \A i \in 1..(Len(toks) + 1) : g[i] = ArgsStep(toks, g, i)
  PROVE  \A q \in 1..(Len(toks) + 1) :
           /\ g[q] = 0 \/ Closes(toks, q, g[q] - 1)
           /\ g[q] \in Nat
           /\ \A e \in Int : Closes(toks, q, e) => g[q] = e + 1
<1> DEFINE n == Len(toks)
           Exact(q) == /\ g[q] = 0 \/ Closes(toks, q, g[q] - 1)
                       /\ g[q] \in Nat
                       /\ \A e \in Int : Closes(toks, q, e) => g[q] = e + 1
           Not == {k \in Nat : k <= n /\ ~ Exact(n + 1 - k)}
<1>0. n \in Nat
  OBVIOUS
<1>1. ASSUME NEW q \in 1..(n + 1), \A j \in (q + 1)..(n + 1) : Exact(j)
      PROVE  Exact(q)
  <2>1. g[q] = ArgsStep(toks, g, q)
    OBVIOUS
  <2>2. CASE q = n + 1
    <3>1. peek(toks, q) = "EOF"
      BY <1>0, <2>2, PeekIn
    <3>2. g[q] = 0
      BY <2>1, <3>1 DEF ArgsStep, Names
    <3>3. \A e \in Int : ~ Closes(toks, q, e)
      BY <1>0, <2>2 DEF Closes
    <3> QED BY <3>2, <3>3
  <2>3. CASE q # n + 1
    <3>1. q \in 1..n /\ q \in Nat \ {0} /\ peek(toks, q) = toks[q]
      BY <1>0, <2>3, PeekIn
    <3>2. CASE toks[q] = ")"
      <4>1. g[q] = q + 1 /\ g[q] - 1 = q
        BY <1>0, <2>1, <3>1, <3>2 DEF ArgsStep
      <4>2. Closes(toks, q, q)
        <5>1. (q - q) % 3 = 0 /\ \A i \in q..(q - 1) : FALSE
          BY <3>1, ThirdsOf
        <5> QED BY <3>1, <3>2, <5>1 DEF Closes, ArgPairs
      <4>3. ASSUME NEW e \in Int, Closes(toks, q, e) PROVE e = q
        <5>1. e # q => toks[q] \in Names
          BY <3>1, <4>3, ClosesOn
        <5> QED BY <3>2, <5>1 DEF Names
      <4> QED BY <3>1, <4>1, <4>2, <4>3
    <3>3. CASE /\ peek(toks, q) \in Names /\ peek(toks, q + 1) = ":" /\ peek(toks, q + 2) \in Values
      <4>1. q + 1 \in 1..n /\ q + 2 \in 1..n
        <5>1. peek(toks, q + 1) \in Tokens /\ peek(toks, q + 2) \in Tokens
          BY <3>3 DEF Values, Names, Tokens
        <5>2. q + 1 \in Int /\ q + 2 \in Int
          BY <3>1
        <5> QED BY <5>1, <5>2, PeekIn
      <4>2. toks[q] \in Names /\ toks[q + 1] = ":" /\ toks[q + 2] \in Values
        BY <3>1, <3>3, <4>1, PeekIn
      <4>3. g[q] = g[q + 3]
        BY <2>1, <3>3 DEF ArgsStep, Names
      <4>4. Exact(q + 3)
        <5>1. q + 3 \in (q + 1)..(n + 1)
          BY <1>0, <4>1
        <5> HIDE DEF Exact
        <5> QED BY <1>1, <5>1
      <4>5. g[q] # 0 => Closes(toks, q, g[q] - 1)
        <5>1. g[q] - 1 \in Int
          BY <4>3, <4>4
        <5> QED BY <3>1, <4>2, <4>3, <4>4, <5>1, ClosesOn
      <4>6. ASSUME NEW e \in Int, Closes(toks, q, e) PROVE g[q] = e + 1
        <5>1. e # q
          <6>1. toks[q] # ")"
            BY <4>2 DEF Names
          <6> QED BY <4>6, <6>1 DEF Closes
        <5>2. Closes(toks, q + 3, e)
          BY <3>1, <4>6, <5>1, ClosesOn
        <5> QED BY <4>3, <4>4, <5>2
      <4> QED BY <4>3, <4>4, <4>5, <4>6
    <3>4. CASE ~ (toks[q] = ")") /\ ~ (/\ peek(toks, q) \in Names /\ peek(toks, q + 1) = ":" /\ peek(toks, q + 2) \in Values)
      <4>1. g[q] = 0
        BY <2>1, <3>1, <3>4 DEF ArgsStep
      <4>2. ASSUME NEW e \in Int, Closes(toks, q, e) PROVE FALSE
        <5>1. e # q
          BY <3>4, <4>2 DEF Closes
        <5>2. /\ toks[q] \in Names /\ toks[q + 1] = ":" /\ toks[q + 2] \in Values
              /\ q + 2 \in 1..n
          BY <3>1, <4>2, <5>1, ClosesOn
        <5>3. peek(toks, q + 1) = toks[q + 1] /\ peek(toks, q + 2) = toks[q + 2]
          <6>1. q + 1 \in 1..n
            BY <3>1, <5>2
          <6> QED BY <5>2, <6>1, PeekIn
        <5> QED BY <3>1, <3>4, <5>2, <5>3
      <4> QED BY <4>1, <4>2
    <3> QED BY <3>2, <3>3, <3>4
  <2> QED BY <2>2, <2>3
<1> HIDE DEF Exact
<1>2. Not = {}
  <2> SUFFICES ASSUME Not # {} PROVE FALSE
    OBVIOUS
  <2>1. PICK k \in Not : \A j \in Not : k <= j
    <3>1. Not \in SUBSET Nat
      OBVIOUS
    <3> HIDE DEF Not
    <3> QED BY <3>1, LeastNat
  <2>2. n + 1 - k \in 1..(n + 1) /\ ~ Exact(n + 1 - k)
    BY <1>0, <2>1
  <2>3. ASSUME NEW j \in (n + 1 - k + 1)..(n + 1) PROVE Exact(j)
    <3>1. n + 1 - j \in Nat /\ n + 1 - j <= n /\ ~ k <= n + 1 - j /\ n + 1 - (n + 1 - j) = j
      BY <1>0, <2>1
    <3>2. n + 1 - j \notin Not
      BY <2>1, <3>1
    <3> QED BY <3>1, <3>2
  <2> QED BY <1>1, <2>2, <2>3
<1>3. ASSUME NEW q \in 1..(n + 1) PROVE Exact(q)
  <2>1. n + 1 - q \in Nat /\ n + 1 - q <= n /\ n + 1 - (n + 1 - q) = q
    BY <1>0
  <2> QED BY <1>2, <2>1
<1> QED BY <1>3 DEF Exact

-----------------------------------------------------------------------------
(* The parser: the words of a field.                                          *)

\* w stands in toks from p on.
Stands(toks, p, w) ==
  p + Len(w) <= Len(toks) + 1 /\ \A i \in 1..Len(w) : toks[p + i - 1] = w[i]

LEMMA PairsShift ==
  ASSUME NEW toks, NEW w, NEW d \in Nat, NEW f \in Nat \ {0}, NEW e \in Nat,
         \A i \in f..(e - 1) : w[i] = toks[i + d]
  PROVE  ArgPairs(w, f, e) <=> ArgPairs(toks, f + d, e + d)
<1>1. (e + d) - (f + d) = e - f
  OBVIOUS
<1>2. ASSUME ArgPairs(w, f, e) PROVE ArgPairs(toks, f + d, e + d)
  <2>1. ASSUME NEW j \in (f + d)..(e + d - 1)
        PROVE  toks[j] \in Part((j - (f + d)) % 3)
    <3>1. j - d \in f..(e - 1) /\ (j - d) + d = j /\ (j - d) - f = j - (f + d)
      OBVIOUS
    <3>2. w[j - d] = toks[j]
      BY <3>1
    <3>3. w[j - d] \in Part(((j - d) - f) % 3)
      BY <1>2, <3>1 DEF ArgPairs
    <3> QED BY <3>1, <3>2, <3>3
  <2> QED BY <1>1, <1>2, <2>1 DEF ArgPairs
<1>3. ASSUME ArgPairs(toks, f + d, e + d) PROVE ArgPairs(w, f, e)
  <2>1. ASSUME NEW i \in f..(e - 1)
        PROVE  w[i] \in Part((i - f) % 3)
    <3>1. i + d \in (f + d)..(e + d - 1) /\ (i + d) - (f + d) = i - f
      OBVIOUS
    <3>2. toks[i + d] \in Part(((i + d) - (f + d)) % 3)
      BY <1>3, <3>1 DEF ArgPairs
    <3> QED BY <3>1, <3>2
  <2> QED BY <1>1, <1>3, <2>1 DEF ArgPairs
<1> QED BY <1>2, <1>3

\* parseArgs reads the brackets that stand there, or nothing.
LEMMA ArgsRead ==
  ASSUME NEW toks \in Seq(Tokens), NEW p \in 1..(Len(toks) + 1)
  PROVE  /\ peek(toks, p) # "(" => parseArgs(toks, p) = p
         /\ peek(toks, p) = "(" /\ parseArgs(toks, p) # 0 =>
              Closes(toks, p + 1, parseArgs(toks, p) - 1) /\ parseArgs(toks, p) \in Nat
         /\ peek(toks, p) = "(" =>
              \A e \in Int : Closes(toks, p + 1, e) => parseArgs(toks, p) = e + 1
<1>1. PICK g : /\ \A i \in 1..(Len(toks) + 1) : g[i] = ArgsStep(toks, g, i)
               /\ \A q : parseArgs(toks, q) = IF peek(toks, q) = "(" THEN g[q + 1] ELSE q
  BY ArgsAre
<1>2. CASE peek(toks, p) = "("
  <2>1. peek(toks, p) \in Tokens
    BY <1>2 DEF Tokens
  <2>2. p \in 1..Len(toks)
    <3>1. p \in Int
      OBVIOUS
    <3> QED BY <2>1, <3>1, PeekIn
  <2>3. p + 1 \in 1..(Len(toks) + 1) /\ parseArgs(toks, p) = g[p + 1]
    BY <1>1, <1>2, <2>2
  <2>4. /\ g[p + 1] = 0 \/ Closes(toks, p + 1, g[p + 1] - 1)
        /\ g[p + 1] \in Nat
        /\ \A e \in Int : Closes(toks, p + 1, e) => g[p + 1] = e + 1
    BY <1>1, <2>3, ArgsExact
  <2> QED BY <1>2, <2>3, <2>4
<1>3. CASE peek(toks, p) # "("
  BY <1>1, <1>3
<1> QED BY <1>2, <1>3

\* k words of a field before its arguments.
Called(toks, p) == IF peek(toks, p + 1) = ":" THEN 3 ELSE 1

LEMMA FieldRead ==
  ASSUME NEW toks \in Seq(Tokens), NEW p \in 1..Len(toks), toks[p] \in Names,
         FieldEnd(toks, p) # 0
  PROVE  /\ FieldEnd(toks, p) \in (p + 1)..(Len(toks) + 1)
         /\ SubSeq(toks, p, FieldEnd(toks, p) - 1) \in Fields
         /\ Len(SubSeq(toks, p, FieldEnd(toks, p) - 1)) = FieldEnd(toks, p) - p
<1> DEFINE n == Len(toks)
           k == Called(toks, p)
           e == FieldEnd(toks, p)
           w == SubSeq(toks, p, e - 1)
<1>0. n \in Nat /\ p \in Nat \ {0} /\ p <= n
  OBVIOUS
<1>1. k \in {1, 3} /\ p + k <= n + 1 /\ e = parseArgs(toks, p + k) /\ toks[p + k - 1] \in Names
      /\ (k = 3 => toks[p + 1] = ":")
  <2>1. CASE peek(toks, p + 1) # ":"
    BY <1>0, <2>1 DEF FieldEnd, Called
  <2>2. CASE peek(toks, p + 1) = ":"
    <3>1. peek(toks, p + 2) \in Names /\ e = parseArgs(toks, p + 3) /\ k = 3
      BY <2>2 DEF FieldEnd, Called
    <3>2. peek(toks, p + 2) \in Tokens
      BY <3>1 DEF Names, Tokens
    <3>3. p + 2 \in 1..n
      <4>1. p + 2 \in Int
        BY <1>0
      <4> QED BY <3>2, <4>1, PeekIn
    <3>4. p + 1 \in 1..n
      BY <1>0, <3>3
    <3>5. peek(toks, p + 2) = toks[p + 2] /\ peek(toks, p + 1) = toks[p + 1]
      BY <3>3, <3>4, PeekIn
    <3>6. p + k <= n + 1 /\ p + k - 1 = p + 2
      BY <1>0, <3>1, <3>3
    <3> QED BY <2>2, <3>1, <3>5, <3>6
  <2> QED BY <2>1, <2>2
<1> HIDE DEF k, e
<1>2. p + k \in 1..(n + 1)
  BY <1>0, <1>1
<1>3. CASE peek(toks, p + k) # "("
  <2>1. e = p + k
    BY <1>1, <1>2, <1>3, ArgsRead
  <2>2. w \in Seq(Tokens) /\ Len(w) = k /\ \A i \in 1..k : w[i] = toks[p + i - 1]
    BY <1>0, <1>1, <2>1
  <2> HIDE DEF w
  <2>3. w[1] = toks[p] /\ w[k] = toks[p + k - 1] /\ (k = 3 => w[2] = ":")
    BY <1>0, <1>1, <2>2
  <2>4. peek(w, 2) = ":" <=> k = 3
    <3>1. DOMAIN w = 1..k
      BY <2>2
    <3> QED BY <1>1, <2>3, <3>1 DEF peek
  <2>5. Field(w)
    BY <1>1, <2>2, <2>3, <2>4 DEF Field
  <2>6. w \in Fields
    BY <2>2, <2>5 DEF Fields
  <2>7. e \in (p + 1)..(n + 1) /\ k = e - p
    <3> HIDE DEF n
    <3> QED BY <1>0, <1>1, <2>1
  <2> QED BY <2>2, <2>6, <2>7 DEF e, w
<1>4. CASE peek(toks, p + k) = "("
  <2>1. Closes(toks, p + k + 1, e - 1) /\ e \in Nat
    BY <1>1, <1>2, <1>4, ArgsRead DEF e
  <2>2. e - 1 \in 1..n /\ e - 1 >= p + k + 1 /\ toks[e - 1] = ")" /\ ArgPairs(toks, p + k + 1, e - 1)
    BY <2>1 DEF Closes
  <2>3. p + k \in 1..n /\ toks[p + k] = "("
    <3>1. peek(toks, p + k) \in Tokens
      BY <1>4 DEF Tokens
    <3>2. p + k \in Int
      BY <1>2
    <3> QED BY <1>4, <3>1, <3>2, PeekIn
  <2>4. w \in Seq(Tokens) /\ Len(w) = e - p /\ \A i \in 1..(e - p) : w[i] = toks[p + i - 1]
    <3>1. e - 1 \in 1..n /\ p <= e - 1 /\ (e - 1) - p + 1 = e - p /\ \A i \in 1..(e - p) : p + i - 1 = i + p - 1
      BY <1>0, <1>1, <2>1, <2>2
    <3> HIDE DEF n
    <3> QED BY <1>0, <3>1 DEF n
  <2> HIDE DEF w, n
  <2>5. k + 1 \in 1..(e - p) /\ k \in 1..(e - p) /\ e - p > k + 1 /\ 1 \in 1..(e - p)
        /\ e - p \in 1..(e - p) /\ 2 \in 1..(e - p)
    <3>1. e - p > k + 1 /\ k >= 1 /\ k \in Nat /\ e - p \in Nat
      <4>1. k \in Nat /\ k >= 1
        BY <1>1
      <4> QED BY <1>0, <2>1, <2>2, <4>1
    <3> QED BY <3>1
  <2>6. w[1] = toks[p] /\ w[k] = toks[p + k - 1] /\ w[k + 1] = "(" /\ w[e - p] = ")"
        /\ w[2] = toks[p + 1]
    <3>1. p + 1 - 1 = p /\ p + (k + 1) - 1 = p + k /\ p + (e - p) - 1 = e - 1 /\ p + 2 - 1 = p + 1
      BY <1>0, <1>1, <2>1
    <3>2. w[1] = toks[p + 1 - 1] /\ w[k] = toks[p + k - 1] /\ w[k + 1] = toks[p + (k + 1) - 1]
          /\ w[e - p] = toks[p + (e - p) - 1] /\ w[2] = toks[p + 2 - 1]
      BY <2>4, <2>5
    <3> QED BY <2>2, <2>3, <3>1, <3>2
  <2>7. peek(w, 2) = ":" <=> k = 3
    <3>1. DOMAIN w = 1..(e - p)
      BY <2>4
    <3> QED BY <1>1, <2>3, <2>5, <2>6, <3>1 DEF peek
  <2>8. ArgPairs(w, k + 2, e - p)
    <3>1. \A i \in (k + 2)..((e - p) - 1) : w[i] = toks[i + (p - 1)]
      BY <1>0, <1>1, <2>4
    <3>2. p - 1 \in Nat /\ k + 2 \in Nat \ {0} /\ e - p \in Nat
          /\ (k + 2) + (p - 1) = p + k + 1 /\ (e - p) + (p - 1) = e - 1
      BY <1>0, <1>1, <2>1, <2>5
    <3>3. ArgPairs(w, k + 2, e - p) <=> ArgPairs(toks, (k + 2) + (p - 1), (e - p) + (p - 1))
      BY <3>1, <3>2, PairsShift
    <3> QED BY <2>2, <3>2, <3>3
  <2>9. Field(w)
    BY <1>1, <2>4, <2>5, <2>6, <2>7, <2>8 DEF Field
  <2>10. e \in (p + 1)..(n + 1)
    <3>1. e - p >= 2
      BY <2>5
    <3>2. e - 1 \in 1..n
      BY <2>2
    <3>3. e \in Nat
      BY <2>1
    <3> QED BY <1>0, <3>1, <3>2, <3>3
  <2>11. w \in Fields
    BY <2>4, <2>9 DEF Fields
  <2> QED BY <2>4, <2>10, <2>11 DEF e, w, n
<1> QED BY <1>3, <1>4

LEMMA FieldFound ==
  ASSUME NEW toks \in Seq(Tokens), NEW p \in Nat \ {0}, NEW w \in Fields, Stands(toks, p, w),
         peek(toks, p + Len(w)) \notin {":", "("}
  PROVE  FieldEnd(toks, p) = p + Len(w) /\ Len(w) \in Nat \ {0} /\ toks[p] \in Names /\ p \in 1..Len(toks)
<1> DEFINE n == Len(toks)
           m == Len(w)
           k == Called(w, 1)
<1>1. w \in Seq(Tokens) /\ Field(w) /\ m \in Nat /\ n \in Nat /\ DOMAIN w = 1..m
  BY DEF Fields
<1>2. /\ k \in {1, 3} /\ (k = 3 <=> peek(w, 2) = ":") /\ m >= k /\ w[1] \in Names /\ w[k] \in Names
      /\ \/ m = k
         \/ m > k + 1 /\ w[k + 1] = "(" /\ w[m] = ")" /\ ArgPairs(w, k + 2, m)
  BY <1>1 DEF Field, Called
<1>3. p + m <= n + 1 /\ \A i \in 1..m : toks[p + i - 1] = w[i]
  BY DEF Stands
<1> HIDE DEF n, m, k
<1>4. p \in 1..n /\ p + k \in 1..(n + 1) /\ toks[p] = w[1] /\ toks[p + k - 1] = w[k]
  BY <1>1, <1>2, <1>3
<1>5. FieldEnd(toks, p) = parseArgs(toks, p + k)
  <2>1. CASE k = 3
    <3>1. peek(toks, p + 1) = ":" /\ peek(toks, p + 2) \in Names
      <4>1. 2 \in 1..m /\ p + 1 \in 1..n /\ p + 2 \in 1..n
        BY <1>1, <1>2, <1>3, <2>1
      <4>2. w[2] = ":"
        BY <1>1, <1>2, <2>1, <4>1 DEF peek
      <4>3. toks[p + 1] = w[2] /\ toks[p + 2] = w[3]
        <5>1. p + 2 - 1 = p + 1 /\ p + 3 - 1 = p + 2 /\ 3 \in 1..m
          BY <1>1, <1>2, <2>1
        <5> QED BY <1>3, <4>1, <5>1
      <4>4. peek(toks, p + 1) = toks[p + 1] /\ peek(toks, p + 2) = toks[p + 2]
        BY <4>1, PeekIn DEF n
      <4> QED BY <1>2, <2>1, <4>2, <4>3, <4>4
    <3> QED BY <2>1, <3>1 DEF FieldEnd
  <2>2. CASE k = 1
    <3>1. peek(toks, p + 1) # ":"
      <4>1. CASE m = 1
        BY <4>1 DEF m
      <4>2. CASE m # 1
        <5>1. m > 2 /\ w[2] = "(" /\ p + 1 \in 1..n
          BY <1>1, <1>2, <1>3, <2>2, <4>2
        <5>2. toks[p + 1] = w[2]
          <6>1. 2 \in 1..m /\ p + 2 - 1 = p + 1
            BY <1>1, <5>1
          <6> QED BY <1>3, <6>1
        <5> QED BY <5>1, <5>2, PeekIn DEF n
      <4> QED BY <4>1, <4>2
    <3> QED BY <2>2, <3>1 DEF FieldEnd
  <2> QED BY <1>2, <2>1, <2>2
<1>6. CASE m = k
  <2>1. peek(toks, p + k) # "("
    BY <1>6 DEF m
  <2>2. parseArgs(toks, p + k) = p + k
    BY <1>4, <2>1, ArgsRead DEF n
  <2> QED BY <1>1, <1>2, <1>4, <1>5, <1>6, <2>2 DEF m, n
<1>7. CASE m # k
  <2>1. m > k + 1 /\ w[k + 1] = "(" /\ w[m] = ")" /\ ArgPairs(w, k + 2, m)
    BY <1>2, <1>7
  <2>2. p + k \in 1..n /\ toks[p + k] = w[k + 1] /\ toks[p + m - 1] = w[m] /\ p + m - 1 \in 1..n
    <3>1. k + 1 \in 1..m /\ m \in 1..m /\ p + (k + 1) - 1 = p + k
      BY <1>1, <1>2, <2>1
    <3> QED BY <1>1, <1>3, <1>4, <2>1, <3>1
  <2>3. peek(toks, p + k) = "("
    BY <2>1, <2>2, PeekIn DEF n
  <2>4. ArgPairs(toks, p + k + 1, p + m - 1)
    <3>1. \A i \in (k + 2)..(m - 1) : w[i] = toks[i + (p - 1)]
      BY <1>1, <1>2, <1>3
    <3>2. p - 1 \in Nat /\ k + 2 \in Nat \ {0} /\ m \in Nat
          /\ (k + 2) + (p - 1) = p + k + 1 /\ m + (p - 1) = p + m - 1
      BY <1>1, <1>2
    <3>3. ArgPairs(w, k + 2, m) <=> ArgPairs(toks, (k + 2) + (p - 1), m + (p - 1))
      BY <3>1, <3>2, PairsShift
    <3> QED BY <2>1, <3>2, <3>3
  <2>5. Closes(toks, p + k + 1, p + m - 1)
    <3>1. p + k + 1 <= p + m - 1
      BY <1>1, <1>2, <2>1
    <3> QED BY <2>1, <2>2, <2>4, <3>1 DEF Closes, n
  <2>6. parseArgs(toks, p + k) = (p + m - 1) + 1
    BY <1>4, <2>2, <2>3, <2>5, ArgsRead DEF n
  <2>7. (p + m - 1) + 1 = p + m /\ m # 0
    BY <1>1, <1>2, <2>1
  <2> QED BY <1>1, <1>2, <1>4, <1>5, <2>6, <2>7 DEF m, n
<1> QED BY <1>6, <1>7

LEMMA StandsSplit ==
  ASSUME NEW toks \in Seq(Tokens), NEW p \in Nat \ {0}, NEW u \in Seq(Tokens), NEW v \in Seq(Tokens)
  PROVE  Stands(toks, p, u \o v) <=> Stands(toks, p, u) /\ Stands(toks, p + Len(u), v)
<1> DEFINE a == Len(u)
           b == Len(v)
           w == u \o v
<1>1. /\ a \in Nat /\ b \in Nat /\ Len(toks) \in Nat /\ Len(w) = a + b
      /\ \A i \in 1..a : w[i] = u[i]
      /\ \A i \in 1..b : w[a + i] = v[i]
  OBVIOUS
<1> HIDE DEF a, b, w
<1>2. ASSUME Stands(toks, p, w) PROVE Stands(toks, p, u) /\ Stands(toks, p + a, v)
  <2>1. p + (a + b) <= Len(toks) + 1 /\ \A i \in 1..(a + b) : toks[p + i - 1] = w[i]
    BY <1>1, <1>2 DEF Stands
  <2>2. p + a <= Len(toks) + 1 /\ p + a + b <= Len(toks) + 1
    BY <1>1, <2>1
  <2>3. \A i \in 1..a : toks[p + i - 1] = u[i]
    BY <1>1, <2>1
  <2>4. ASSUME NEW i \in 1..b PROVE toks[(p + a) + i - 1] = v[i]
    <3>1. a + i \in 1..(a + b) /\ p + (a + i) - 1 = (p + a) + i - 1
      BY <1>1
    <3> QED BY <1>1, <2>1, <3>1
  <2> QED BY <2>2, <2>3, <2>4 DEF Stands, a, b
<1>3. ASSUME Stands(toks, p, u), Stands(toks, p + a, v) PROVE Stands(toks, p, w)
  <2>1. /\ p + a + b <= Len(toks) + 1
        /\ \A i \in 1..a : toks[p + i - 1] = u[i]
        /\ \A i \in 1..b : toks[(p + a) + i - 1] = v[i]
    BY <1>3 DEF Stands, a, b
  <2>2. p + (a + b) <= Len(toks) + 1
    BY <1>1, <2>1
  <2>3. ASSUME NEW i \in 1..(a + b) PROVE toks[p + i - 1] = w[i]
    <3>1. CASE i <= a
      BY <1>1, <2>1, <3>1
    <3>2. CASE i > a
      <4>1. i - a \in 1..b /\ a + (i - a) = i /\ (p + a) + (i - a) - 1 = p + i - 1
        BY <1>1, <3>2
      <4>2. w[a + (i - a)] = v[i - a] /\ toks[(p + a) + (i - a) - 1] = v[i - a]
        BY <1>1, <2>1, <4>1
      <4> QED BY <4>1, <4>2
    <3> QED BY <1>1, <3>1, <3>2
  <2> QED BY <1>1, <2>2, <2>3 DEF Stands
<1> QED BY <1>2, <1>3 DEF a, w

LEMMA StandsOne ==
  ASSUME NEW toks \in Seq(Tokens), NEW p \in Nat \ {0}, NEW t \in Tokens
  PROVE  Stands(toks, p, <<t>>) <=> peek(toks, p) = t
<1>1. Len(<<t>>) = 1 /\ <<t>>[1] = t /\ Len(toks) \in Nat /\ p + 1 - 1 = p /\ p \in Int
  OBVIOUS
<1>2. Stands(toks, p, <<t>>) <=> p \in 1..Len(toks) /\ toks[p] = t
  <2>1. p + 1 <= Len(toks) + 1 <=> p \in 1..Len(toks)
    BY <1>1
  <2>2. \A i \in 1..1 : i = 1
    OBVIOUS
  <2>3. 1 \in 1..1
    OBVIOUS
  <2> QED BY <1>1, <2>1, <2>2, <2>3 DEF Stands
<1>3. peek(toks, p) = t => p \in 1..Len(toks)
  BY <1>1, PeekIn
<1> QED BY <1>1, <1>2, <1>3, PeekIn

LEMMA StandsFirst ==
  ASSUME NEW toks \in Seq(Tokens), NEW p \in Nat \ {0}, NEW w \in Seq(Tokens), w # <<>>,
         Stands(toks, p, w)
  PROVE  peek(toks, p) = w[1] /\ p \in 1..Len(toks)
<1>1. Len(w) \in Nat \ {0} /\ Len(toks) \in Nat
  OBVIOUS
<1>2. 1 \in 1..Len(w) /\ p + 1 - 1 = p /\ p \in 1..Len(toks)
  BY <1>1 DEF Stands
<1> QED BY <1>2, PeekIn DEF Stands

LEMMA StandsSub ==
  ASSUME NEW toks \in Seq(Tokens), NEW p \in 1..(Len(toks) + 1), NEW e \in p..(Len(toks) + 1)
  PROVE  /\ Stands(toks, p, SubSeq(toks, p, e - 1))
         /\ SubSeq(toks, p, e - 1) \in Seq(Tokens)
         /\ Len(SubSeq(toks, p, e - 1)) = e - p
<1>0. Len(toks) \in Nat
  OBVIOUS
<1>1. /\ SubSeq(toks, p, e - 1) \in Seq(Tokens) /\ Len(SubSeq(toks, p, e - 1)) = e - p
      /\ \A i \in 1..(e - p) : SubSeq(toks, p, e - 1)[i] = toks[p + i - 1]
  BY <1>0
<1>2. p + (e - p) <= Len(toks) + 1
  BY <1>0
<1> QED BY <1>1, <1>2 DEF Stands

LEMMA StandsWords ==
  ASSUME NEW toks \in Seq(Tokens), NEW p \in Nat \ {0}, NEW w \in Seq(Tokens), Stands(toks, p, w), w # <<>>
  PROVE  SubSeq(toks, p, p + Len(w) - 1) = w
<1> DEFINE m == Len(w)
           v == SubSeq(toks, p, p + m - 1)
<1>0. Len(toks) \in Nat /\ m \in Nat \ {0}
  OBVIOUS
<1>1. p + m <= Len(toks) + 1 /\ \A i \in 1..m : toks[p + i - 1] = w[i]
  BY DEF Stands
<1> HIDE DEF m
<1>2. p \in 1..(Len(toks) + 1) /\ p + m \in p..(Len(toks) + 1) /\ (p + m) - p = m
  BY <1>0, <1>1
<1>3. Stands(toks, p, v) /\ v \in Seq(Tokens) /\ Len(v) = m
  BY <1>2, StandsSub
<1> HIDE DEF v
<1>4. \A i \in 1..m : v[i] = w[i]
  BY <1>1, <1>3 DEF Stands
<1>5. v = w
  BY <1>3, <1>4 DEF m
<1> QED BY <1>5 DEF v, m

LEMMA StandsAll ==
  ASSUME NEW s \in Seq(Tokens), NEW w \in Seq(Tokens), Stands(s, 1, w), Len(w) = Len(s)
  PROVE  s = w
<1>1. \A i \in 1..Len(s) : s[i] = w[i]
  <2>1. \A i \in 1..Len(w) : s[1 + i - 1] = w[i] /\ 1 + i - 1 = i
    BY DEF Stands
  <2> QED BY <2>1
<1> QED BY <1>1

LEMMA StandsSame ==
  ASSUME NEW s \in Seq(Tokens)
  PROVE  Stands(s, 1, s)
<1>1. Len(s) \in Nat /\ \A i \in 1..Len(s) : 1 + i - 1 = i
  OBVIOUS
<1> QED BY <1>1 DEF Stands

-----------------------------------------------------------------------------
(* The parser: the loop over the fields of a set.                             *)

\* What the loop reads from itself at x: the set below the field, the other fields.
Nested(toks, L, x) ==
  IF peek(toks, FieldEnd(toks, x.at)) # "{"
  THEN [at |-> FieldEnd(toks, x.at), seen |-> x.seen + 1, sels |-> Leaf]
  ELSE parseSelectionSet(toks, L, [at |-> FieldEnd(toks, x.at), depth |-> x.depth + 1, seen |-> x.seen + 1])
After(toks, L, x) == L[[at |-> Nested(toks, L, x).at, depth |-> x.depth, seen |-> Nested(toks, L, x).seen]]
Refuses(toks, L, x) ==
  \/ peek(toks, x.at) \notin Names \/ x.seen >= MaxSelections
  \/ FieldEnd(toks, x.at) = 0 \/ Nested(toks, L, x) = Fail \/ After(toks, L, x) = Fail
Here(toks, L, x) ==
  [words |-> SubSeq(toks, x.at, FieldEnd(toks, x.at) - 1), sub |-> Nested(toks, L, x).sels]

LEMMA LoopIs ==
  ASSUME NEW toks, NEW L, NEW x
  PROVE  /\ peek(toks, x.at) = "}" => Loop(toks, L, x) = [at |-> x.at + 1, seen |-> x.seen, sels |-> <<>>]
         /\ peek(toks, x.at) # "}" /\ Refuses(toks, L, x) => Loop(toks, L, x) = Fail
         /\ peek(toks, x.at) # "}" /\ ~ Refuses(toks, L, x) =>
              Loop(toks, L, x) = [at |-> After(toks, L, x).at, seen |-> After(toks, L, x).seen,
                                  sels |-> <<Here(toks, L, x)>> \o After(toks, L, x).sels]
BY DEF Loop, Refuses, Nested, After, Here, Exhausted

Next1(toks, x) == [at |-> FieldEnd(toks, x.at) + 1, depth |-> x.depth + 1, seen |-> x.seen + 1]
Advances(toks, r, x) == r = Fail \/ (r.at \in (x.at + 1)..(Len(toks) + 1) /\ r.seen \in Nat)

LEMMA SpotIs ==
  ASSUME NEW toks \in Seq(Tokens), NEW p \in 1..(Len(toks) + 1), NEW d \in Nat, NEW s \in Nat
  PROVE  [at |-> p, depth |-> d, seen |-> s] \in Spots(toks)
BY DEF Spots

LEMMA NestedIs ==
  ASSUME NEW toks, NEW L, NEW x
  PROVE  /\ peek(toks, FieldEnd(toks, x.at)) # "{" =>
              Nested(toks, L, x) = [at |-> FieldEnd(toks, x.at), seen |-> x.seen + 1, sels |-> Leaf]
         /\ peek(toks, FieldEnd(toks, x.at)) = "{" =>
              Nested(toks, L, x) = IF x.depth + 1 > MaxDepth THEN Fail ELSE L[Next1(toks, x)]
<1> DEFINE e == FieldEnd(toks, x.at)
           y == [at |-> e, depth |-> x.depth + 1, seen |-> x.seen + 1]
<1>1. y.depth = x.depth + 1 /\ y.at = e /\ [y EXCEPT !.at = @ + 1] = Next1(toks, x)
  BY DEF Next1
<1>2. Nested(toks, L, x) = IF peek(toks, e) # "{" THEN [at |-> e, seen |-> x.seen + 1, sels |-> Leaf]
                          ELSE parseSelectionSet(toks, L, y)
  BY DEF Nested
<1> HIDE DEF y, e
<1>3. peek(toks, e) = "{" => parseSelectionSet(toks, L, y) = IF y.depth > MaxDepth THEN Fail ELSE L[[y EXCEPT !.at = @ + 1]]
  <2>1. peek(toks, y.at) = peek(toks, e)
    BY <1>1
  <2> QED BY <2>1 DEF parseSelectionSet
<1> QED BY <1>1, <1>2, <1>3 DEF e

\* The loop reads itself only further on, and goes on.
LEMMA LoopAdvances ==
  ASSUME NEW toks \in Seq(Tokens), NEW x \in Spots(toks), NEW F, NEW G,
         \A y \in Spots(toks) : y.at > x.at => F[y] = G[y] /\ Advances(toks, F[y], y)
  PROVE  Loop(toks, F, x) = Loop(toks, G, x) /\ Advances(toks, Loop(toks, F, x), x)
<1> DEFINE n == Len(toks)
           e == FieldEnd(toks, x.at)
<1>0. n \in Nat /\ x.at \in 1..(n + 1) /\ x.at \in Nat \ {0} /\ x.depth \in Nat /\ x.seen \in Nat
  BY DEF Spots
<1>1. CASE peek(toks, x.at) = "}"
  <2>1. x.at \in 1..n
    <3>1. peek(toks, x.at) \in Tokens
      BY <1>1 DEF Tokens
    <3>2. x.at \in Int
      BY <1>0
    <3> QED BY <3>1, <3>2, PeekIn
  <2>2. Loop(toks, F, x) = [at |-> x.at + 1, seen |-> x.seen, sels |-> <<>>] /\ Loop(toks, G, x) = Loop(toks, F, x)
    BY <1>1, LoopIs
  <2>3. Loop(toks, F, x).at = x.at + 1 /\ Loop(toks, F, x).seen = x.seen
    BY <2>2
  <2>4. x.at + 1 \in (x.at + 1)..(n + 1)
    BY <1>0, <2>1
  <2> QED BY <1>0, <2>2, <2>3, <2>4 DEF Advances
<1>2. CASE peek(toks, x.at) # "}" /\ (peek(toks, x.at) \notin Names \/ e = 0)
  <2>1. Refuses(toks, F, x) /\ Refuses(toks, G, x)
    BY <1>2 DEF Refuses
  <2> QED BY <1>2, <2>1, LoopIs DEF Advances
<1>3. CASE peek(toks, x.at) # "}" /\ peek(toks, x.at) \in Names /\ e # 0
  <2>1. x.at \in 1..n /\ toks[x.at] \in Names
    <3>1. peek(toks, x.at) \in Tokens
      BY <1>3 DEF Tokens, Names
    <3>2. x.at \in Int
      BY <1>0
    <3> QED BY <1>3, <3>1, <3>2, PeekIn
  <2>2. e \in (x.at + 1)..(n + 1)
    BY <1>3, <2>1, FieldRead
  <2> HIDE DEF e
  <2>3. Nested(toks, F, x) = Nested(toks, G, x)
        /\ (Nested(toks, F, x) = Fail \/ (Nested(toks, F, x).at \in (x.at + 1)..(n + 1) /\ Nested(toks, F, x).seen \in Nat))
    <3>1. CASE peek(toks, e) # "{"
      <4>1. /\ Nested(toks, F, x) = [at |-> e, seen |-> x.seen + 1, sels |-> Leaf]
            /\ Nested(toks, G, x) = [at |-> e, seen |-> x.seen + 1, sels |-> Leaf]
        BY <3>1, NestedIs DEF e
      <4>2. Nested(toks, F, x).at = e /\ Nested(toks, F, x).seen = x.seen + 1
        BY <4>1
      <4> QED BY <1>0, <2>2, <4>1, <4>2
    <3>2. CASE peek(toks, e) = "{"
      <4> DEFINE y == Next1(toks, x)
      <4>1. e \in 1..n
        <5>1. peek(toks, e) \in Tokens
          BY <3>2 DEF Tokens
        <5>2. e \in Int
          BY <1>0, <2>2
        <5> QED BY <5>1, <5>2, PeekIn
      <4>2. y \in Spots(toks) /\ y.at = e + 1 /\ e + 1 > x.at
        <5>1. e + 1 \in 1..(n + 1) /\ x.depth + 1 \in Nat /\ x.seen + 1 \in Nat /\ e + 1 > x.at
          BY <1>0, <2>2, <4>1
        <5>2. y = [at |-> e + 1, depth |-> x.depth + 1, seen |-> x.seen + 1]
          BY DEF Next1, e
        <5> QED BY <5>1, <5>2, SpotIs
      <4> HIDE DEF y
      <4>3. F[y] = G[y] /\ Advances(toks, F[y], y)
        BY <4>2
      <4>4. /\ Nested(toks, F, x) = IF x.depth + 1 > MaxDepth THEN Fail ELSE F[y]
            /\ Nested(toks, G, x) = IF x.depth + 1 > MaxDepth THEN Fail ELSE G[y]
        BY <3>2, NestedIs DEF e, y
      <4>5. (e + 1 + 1)..(n + 1) \subseteq (x.at + 1)..(n + 1)
        BY <1>0, <2>2
      <4> QED BY <4>2, <4>3, <4>4, <4>5 DEF Advances
    <3> QED BY <3>1, <3>2
  <2>4. CASE Nested(toks, F, x) = Fail
    <3>1. Refuses(toks, F, x) /\ Refuses(toks, G, x)
      BY <2>3, <2>4 DEF Refuses
    <3> QED BY <1>3, <3>1, LoopIs DEF Advances
  <2>5. CASE Nested(toks, F, x) # Fail
    <3> DEFINE y == [at |-> Nested(toks, F, x).at, depth |-> x.depth, seen |-> Nested(toks, F, x).seen]
    <3>1. y \in Spots(toks) /\ y.at > x.at /\ y.at \in (x.at + 1)..(n + 1)
      <4>1. Nested(toks, F, x).at \in (x.at + 1)..(n + 1) /\ Nested(toks, F, x).seen \in Nat
        BY <2>3, <2>5
      <4>2. Nested(toks, F, x).at \in 1..(n + 1) /\ Nested(toks, F, x).at > x.at
        BY <1>0, <4>1
      <4> QED BY <1>0, <4>1, <4>2, SpotIs
    <3>2. After(toks, F, x) = F[y] /\ After(toks, G, x) = G[y]
      BY <2>3 DEF After
    <3> HIDE DEF y
    <3>3. F[y] = G[y] /\ Advances(toks, F[y], y)
      BY <3>1
    <3>4. Refuses(toks, F, x) <=> Refuses(toks, G, x)
      BY <2>3, <3>2, <3>3 DEF Refuses
    <3>5. CASE Refuses(toks, F, x)
      BY <1>3, <3>4, <3>5, LoopIs DEF Advances
    <3>6. CASE ~ Refuses(toks, F, x)
      <4>1. Here(toks, F, x) = Here(toks, G, x)
        BY <2>3 DEF Here
      <4>2. /\ Loop(toks, F, x) = [at |-> F[y].at, seen |-> F[y].seen, sels |-> <<Here(toks, F, x)>> \o F[y].sels]
            /\ Loop(toks, G, x) = [at |-> G[y].at, seen |-> G[y].seen, sels |-> <<Here(toks, G, x)>> \o G[y].sels]
        BY <1>3, <3>2, <3>4, <3>6, LoopIs
      <4>3. F[y] # Fail
        BY <3>2, <3>6 DEF Refuses
      <4>4. F[y].at \in (y.at + 1)..(n + 1) /\ F[y].seen \in Nat
        BY <3>3, <4>3 DEF Advances
      <4>5. F[y].at \in (x.at + 1)..(n + 1)
        BY <1>0, <3>1, <4>4
      <4>6. Loop(toks, F, x).at = F[y].at /\ Loop(toks, F, x).seen = F[y].seen
        BY <4>2
      <4>7. Loop(toks, F, x) = Loop(toks, G, x)
        BY <3>3, <4>1, <4>2
      <4> QED BY <4>4, <4>5, <4>6, <4>7 DEF Advances
    <3> QED BY <3>5, <3>6
  <2> QED BY <2>4, <2>5
<1> QED BY <1>1, <1>2, <1>3

IsLoop(L, toks) == L = [x \in Spots(toks) |-> Loop(toks, L, x)]
Ahead(toks, m) == {y \in Spots(toks) : y.at >= m}

LEMMA LoopOnto ==
  ASSUME NEW toks \in Seq(Tokens), NEW m \in Nat, NEW F,
         \A y \in Ahead(toks, m + 1) : F[y] = Loop(toks, F, y) /\ Advances(toks, F[y], y),
         NEW q, q = [x \in Ahead(toks, m) |-> IF x.at = m THEN Loop(toks, F, x) ELSE F[x]]
  PROVE  /\ q = [x \in Ahead(toks, m) |-> Loop(toks, q, x)]
         /\ \A x \in Ahead(toks, m) : q[x] = Loop(toks, q, x) /\ Advances(toks, q[x], x)
<1>0. \A x \in Spots(toks) : x.at \in Nat
  BY DEF Spots
<1>1. \A x \in Ahead(toks, m) : x \in Spots(toks) /\ x.at >= m /\ x.at \in Nat
  BY <1>0 DEF Ahead
<1>2. \A x \in Spots(toks) : x.at > m => x \in Ahead(toks, m) /\ x \in Ahead(toks, m + 1) /\ q[x] = F[x]
  BY <1>0 DEF Ahead
<1>3. ASSUME NEW x \in Ahead(toks, m)
      PROVE  Loop(toks, F, x) = Loop(toks, q, x) /\ Advances(toks, Loop(toks, F, x), x)
  <2>1. x \in Spots(toks)
    BY <1>1
  <2>2. \A y \in Spots(toks) : y.at > x.at => F[y] = q[y] /\ Advances(toks, F[y], y)
    <3> TAKE y \in Spots(toks)
    <3>1. y.at > x.at => y.at > m
      BY <1>0, <1>1
    <3>2. y.at > m => q[y] = F[y] /\ Advances(toks, F[y], y)
      BY <1>2
    <3> QED BY <3>1, <3>2
  <2> QED BY <2>1, <2>2, LoopAdvances
<1>4. ASSUME NEW x \in Ahead(toks, m) PROVE q[x] = Loop(toks, F, x)
  <2>1. CASE x.at = m
    BY <2>1
  <2>2. CASE x.at # m
    <3>1. x.at > m
      BY <1>1, <2>2
    <3>2. x \in Ahead(toks, m + 1)
      BY <1>1, <1>2, <3>1
    <3> QED BY <2>2, <3>2
  <2> QED BY <2>1, <2>2
<1>5. \A x \in Ahead(toks, m) : q[x] = Loop(toks, q, x) /\ Advances(toks, q[x], x)
  BY <1>3, <1>4
<1>6. q = [x \in Ahead(toks, m) |-> q[x]]
  OBVIOUS
<1> QED BY <1>5, <1>6

LEMMA LoopExists ==
  ASSUME NEW toks \in Seq(Tokens)
  PROVE  \E L : IsLoop(L, toks)
<1> DEFINE n == Len(toks)
           Good(F, m) == \A x \in Ahead(toks, m) : F[x] = Loop(toks, F, x) /\ Advances(toks, F[x], x)
           Not == {k \in Nat : k <= n /\ ~ \E F : Good(F, n + 1 - k) /\ F = [x \in Ahead(toks, n + 1 - k) |-> Loop(toks, F, x)]}
<1>0. n \in Nat
  OBVIOUS
<1>1. Not = {}
  <2> SUFFICES ASSUME Not # {} PROVE FALSE
    OBVIOUS
  <2>1. PICK k \in Not : \A j \in Not : k <= j
    <3>1. Not \in SUBSET Nat
      OBVIOUS
    <3> HIDE DEF Not
    <3> QED BY <3>1, LeastNat
  <2> DEFINE m == n + 1 - k
  <2>2. m \in 1..(n + 1) /\ k \in Nat /\ m \in Nat
    BY <1>0, <2>1
  <2>3. ASSUME NEW F, Good(F, m + 1)
        PROVE  FALSE
    <3> DEFINE q == [x \in Ahead(toks, m) |-> IF x.at = m THEN Loop(toks, F, x) ELSE F[x]]
    <3>1. q = [x \in Ahead(toks, m) |-> Loop(toks, q, x)] /\ Good(q, m)
      BY <2>2, <2>3, LoopOnto
    <3> HIDE DEF q
    <3> QED BY <2>1, <3>1
  <2>4. CASE k = 0
    <3> DEFINE F == [x \in {} |-> 0]
    <3>1. Ahead(toks, m + 1) = {}
      <4>1. \A x \in Spots(toks) : x.at \in 1..(n + 1)
        BY DEF Spots
      <4>2. \A x \in Spots(toks) : ~ (x.at >= m + 1)
        BY <1>0, <2>4, <4>1
      <4> QED BY <4>2 DEF Ahead
    <3> HIDE DEF F, m
    <3>2. Good(F, m + 1)
      BY <3>1
    <3> QED BY <2>3, <3>2
  <2>5. CASE k # 0
    <3>1. k - 1 \in Nat /\ k - 1 <= n /\ ~ k <= k - 1 /\ n + 1 - (k - 1) = m + 1
      BY <1>0, <2>1, <2>5
    <3>2. k - 1 \notin Not
      BY <2>1, <3>1
    <3>3. \E F : Good(F, n + 1 - (k - 1))
      BY <3>1, <3>2
    <3> QED BY <2>3, <3>1, <3>3
  <2> QED BY <2>4, <2>5
<1>2. n \notin Not /\ n + 1 - n = 1
  BY <1>0, <1>1
<1>3. PICK F : F = [x \in Ahead(toks, 1) |-> Loop(toks, F, x)]
  BY <1>0, <1>2
<1>4. Ahead(toks, 1) = Spots(toks)
  <2>1. \A x \in Spots(toks) : x.at \in 1..(n + 1)
    BY DEF Spots
  <2>2. \A x \in Spots(toks) : x.at >= 1
    BY <1>0, <2>1
  <2> QED BY <2>2 DEF Ahead
<1> QED BY <1>3, <1>4 DEF IsLoop

ParseWith(toks, L) ==
  LET first == IF peek(toks, 1) # "query" THEN 1 ELSE IF peek(toks, 2) \in Names THEN 3 ELSE 2
      set == parseSelectionSet(toks, L, [at |-> first, depth |-> 1, seen |-> 0])
  IN  IF set = Fail \/ set.at # Len(toks) + 1 \/ Len(set.sels) > MaxRoots THEN Fail ELSE set

LEMMA ParseIs ==
  ASSUME NEW toks \in Seq(Tokens)
  PROVE  \E L : /\ \A x \in Spots(toks) : L[x] = Loop(toks, L, x)
                /\ parse(toks) = ParseWith(toks, L)
<1> DEFINE G == CHOOSE L : IsLoop(L, toks)
<1>1. IsLoop(G, toks)
  BY LoopExists
<1>2. parse(toks) = ParseWith(toks, G)
  BY DEF parse, IsLoop, ParseWith
<1> HIDE DEF G
<1>3. \A x \in Spots(toks) : G[x] = Loop(toks, G, x)
  BY <1>1 DEF IsLoop
<1> QED BY <1>2, <1>3

-----------------------------------------------------------------------------
(* Queries as they are written.                                               *)

MeasureStep(u, sels, g, i) == IF i > Len(sels) THEN Closed ELSE Added(u, sels[i], g[i + 1])
IsMeasure(g, u, sels) == g = [i \in 1..(Len(sels) + 1) |-> MeasureStep(u, sels, g, i)]

LEMMA MeasureExists ==
  ASSUME NEW u, NEW S, NEW sels \in Seq(S)
  PROVE  \E g : IsMeasure(g, u, sels)
<1> DEFINE n == Len(sels)
           Partly(g, k) == g = [i \in (n + 1 - k)..(n + 1) |-> MeasureStep(u, sels, g, i)]
           Not == {k \in Nat : k <= n /\ ~ \E g : Partly(g, k)}
<1>0. n \in Nat
  OBVIOUS
<1>1. Not = {}
  <2> SUFFICES ASSUME Not # {} PROVE FALSE
    OBVIOUS
  <2>1. PICK k \in Not : \A j \in Not : k <= j
    <3>1. Not \in SUBSET Nat
      OBVIOUS
    <3> HIDE DEF Not
    <3> QED BY <3>1, LeastNat
  <2> DEFINE m == n + 1 - k
             Onto(g) == [i \in m..(n + 1) |-> IF i = m THEN MeasureStep(u, sels, g, m) ELSE g[i]]
  <2>2. m \in 1..(n + 1) /\ k \in Nat
    BY <1>0, <2>1
  <2>3. ASSUME NEW g, \A i \in (m + 1)..(n + 1) : g[i] = MeasureStep(u, sels, g, i)
        PROVE  Partly(Onto(g), k)
    <3> DEFINE q == Onto(g)
    <3>1. \A i \in (m + 1)..(n + 1) : q[i] = g[i]
      BY <1>0, <2>2
    <3>2. q[m] = MeasureStep(u, sels, g, m)
      BY <1>0, <2>2
    <3>3. q = [i \in m..(n + 1) |-> q[i]]
      OBVIOUS
    <3> HIDE DEF q
    <3>4. \A i \in m..(n + 1) : MeasureStep(u, sels, q, i) = MeasureStep(u, sels, g, i)
      <4> TAKE i \in m..(n + 1)
      <4>1. CASE i > n
        BY <4>1 DEF MeasureStep
      <4>2. CASE ~ (i > n)
        <5>1. i + 1 \in (m + 1)..(n + 1)
          BY <1>0, <2>2, <4>2
        <5> QED BY <3>1, <5>1 DEF MeasureStep
      <4> QED BY <4>1, <4>2
    <3>5. \A i \in m..(n + 1) : q[i] = MeasureStep(u, sels, q, i)
      <4> TAKE i \in m..(n + 1)
      <4>1. CASE i = m
        BY <3>2, <3>4, <4>1
      <4>2. CASE i # m
        <5>1. i \in (m + 1)..(n + 1)
          BY <1>0, <2>2, <4>2
        <5> QED BY <2>3, <3>1, <3>4, <5>1
      <4> QED BY <4>1, <4>2
    <3>6. Partly(q, k)
      BY <3>3, <3>5
    <3> QED BY <3>6 DEF q
  <2>4. CASE k = 0
    <3> DEFINE g == [i \in {} |-> 0]
    <3>1. \A i \in (m + 1)..(n + 1) : g[i] = MeasureStep(u, sels, g, i)
      BY <1>0, <2>4
    <3> HIDE DEF g
    <3>2. Partly(Onto(g), k)
      BY <2>3, <3>1
    <3> QED BY <2>1, <3>2
  <2>5. CASE k # 0
    <3>1. k - 1 \in Nat /\ k - 1 <= n /\ ~ k <= k - 1 /\ n + 1 - (k - 1) = m + 1
      BY <1>0, <2>1, <2>5
    <3>2. PICK g : Partly(g, k - 1)
      BY <2>1, <3>1
    <3>3. \A i \in (m + 1)..(n + 1) : g[i] = MeasureStep(u, sels, g, i)
      BY <3>1, <3>2
    <3>4. Partly(Onto(g), k)
      BY <2>3, <3>3
    <3> QED BY <2>1, <3>4
  <2> QED BY <2>4, <2>5
<1>2. n \notin Not /\ n + 1 - n = 1
  BY <1>0, <1>1
<1> QED BY <1>0, <1>2 DEF IsMeasure

LEMMA MeasureIs ==
  ASSUME NEW u, NEW S, NEW sels \in Seq(S)
  PROVE  \E g : /\ \A i \in 1..(Len(sels) + 1) : g[i] = MeasureStep(u, sels, g, i)
                /\ Measured(u, sels) = g[1]
<1> DEFINE G == CHOOSE g : IsMeasure(g, u, sels)
<1>1. IsMeasure(G, u, sels)
  BY MeasureExists
<1>2. Measured(u, sels) = G[1]
  BY DEF Measured, IsMeasure, MeasureStep
<1> HIDE DEF G
<1>3. \A i \in 1..(Len(sels) + 1) : G[i] = MeasureStep(u, sels, G, i)
  BY <1>1 DEF IsMeasure
<1> QED BY <1>2, <1>3

LEMMA MeasuredNone == ASSUME NEW u PROVE Measured(u, <<>>) = Closed
<1>1. <<>> \in Seq({}) /\ Len(<<>>) = 0 /\ 1 \in 1..(0 + 1) /\ 1 > 0
  OBVIOUS
<1>2. PICK g : /\ \A i \in 1..(Len(<<>>) + 1) : g[i] = MeasureStep(u, <<>>, g, i)
               /\ Measured(u, <<>>) = g[1]
  BY <1>1, MeasureIs
<1> QED BY <1>1, <1>2 DEF MeasureStep

LEMMA MeasuredMore ==
  ASSUME NEW u, NEW S, NEW f \in S, NEW rest \in Seq(S)
  PROVE  Measured(u, <<f>> \o rest) = Added(u, f, Measured(u, rest))
<1> DEFINE n == Len(rest)
           all == <<f>> \o rest
<1>0. /\ n \in Nat /\ all \in Seq(S) /\ Len(all) = n + 1 /\ all[1] = f
      /\ \A i \in 1..n : all[i + 1] = rest[i]
  OBVIOUS
<1> HIDE DEF all
<1>1. PICK g : /\ \A i \in 1..(n + 1) : g[i] = MeasureStep(u, rest, g, i)
               /\ Measured(u, rest) = g[1]
  BY MeasureIs
<1>2. PICK h : /\ \A i \in 1..(Len(all) + 1) : h[i] = MeasureStep(u, all, h, i)
               /\ Measured(u, all) = h[1]
  BY <1>0, MeasureIs
<1> HIDE DEF n
<1> DEFINE Same(i) == h[i + 1] = g[i]
           Not == {k \in Nat : k <= n /\ ~ Same(n + 1 - k)}
<1>3. ASSUME NEW i \in 1..(n + 1), i # n + 1 => Same(i + 1)
      PROVE  Same(i)
  <2>1. i + 1 \in 1..(Len(all) + 1) /\ i \in Nat
    BY <1>0
  <2>2. h[i + 1] = MeasureStep(u, all, h, i + 1) /\ g[i] = MeasureStep(u, rest, g, i)
    BY <1>1, <1>2, <2>1
  <2>3. CASE i = n + 1
    <3>1. i + 1 > Len(all) /\ i > n
      BY <1>0, <2>3
    <3> QED BY <2>2, <3>1 DEF MeasureStep, n
  <2>4. CASE i # n + 1
    <3>1. ~ (i + 1 > Len(all)) /\ ~ (i > n) /\ i \in 1..n
      BY <1>0, <2>4
    <3>2. h[(i + 1) + 1] = g[i + 1] /\ all[i + 1] = rest[i]
      BY <1>0, <1>3, <2>4, <3>1
    <3> QED BY <2>2, <3>1, <3>2 DEF MeasureStep, n
  <2> QED BY <2>3, <2>4
<1> HIDE DEF Same
<1>4. Not = {}
  <2> SUFFICES ASSUME Not # {} PROVE FALSE
    OBVIOUS
  <2>1. PICK k \in Not : \A j \in Not : k <= j
    <3>1. Not \in SUBSET Nat
      OBVIOUS
    <3> HIDE DEF Not
    <3> QED BY <3>1, LeastNat
  <2> DEFINE i == n + 1 - k
  <2>2. i \in 1..(n + 1) /\ ~ Same(i)
    BY <1>0, <2>1
  <2>3. ASSUME i # n + 1 PROVE Same(i + 1)
    <3>1. k - 1 \in Nat /\ k - 1 <= n /\ ~ k <= k - 1 /\ n + 1 - (k - 1) = i + 1
      BY <1>0, <2>1, <2>3
    <3>2. k - 1 \notin Not
      BY <2>1, <3>1
    <3> QED BY <3>1, <3>2
  <2> HIDE DEF i
  <2> QED BY <1>3, <2>2, <2>3
<1>5. Same(1)
  <2>1. n \in Nat /\ n + 1 - n = 1
    BY <1>0
  <2> QED BY <1>4, <2>1
<1>6. h[1 + 1] = g[1]
  BY <1>5 DEF Same
<1>7. h[1] = Added(u, f, h[1 + 1])
  <2>1. 1 \in 1..(Len(all) + 1) /\ ~ (1 > Len(all))
    BY <1>0
  <2> QED BY <1>0, <1>2, <2>1 DEF MeasureStep
<1> QED BY <1>1, <1>2, <1>6, <1>7 DEF all

LevelStep(R, d) ==
  IF d = 0 THEN <<>>
  ELSE [sels \in Seq([words : Fields, sub : {Leaf} \cup DOMAIN R[d - 1]]) |-> Measured(R[d - 1], sels)]
IsReading(R) == R = [d \in 0..Levels |-> LevelStep(R, d)]

LEMMA ReadingExists == \E R : IsReading(R)
<1> DEFINE Partly(R, k) == R = [d \in 0..k |-> LevelStep(R, d)]
           Not == {k \in Nat : k <= Levels /\ ~ \E R : Partly(R, k)}
<1>0. Levels \in Nat
  BY ParserAssumption
<1>1. Not = {}
  <2> SUFFICES ASSUME Not # {} PROVE FALSE
    OBVIOUS
  <2>1. PICK k \in Not : \A j \in Not : k <= j
    <3>1. Not \in SUBSET Nat
      OBVIOUS
    <3> HIDE DEF Not
    <3> QED BY <3>1, LeastNat
  <2>2. ASSUME NEW R, \A d \in 0..(k - 1) : R[d] = LevelStep(R, d) PROVE FALSE
    <3> DEFINE q == [d \in 0..k |-> IF d = k THEN LevelStep(R, k) ELSE R[d]]
    <3>0. k \in Nat
      BY <2>1
    <3>1. \A d \in 0..(k - 1) : q[d] = R[d]
      BY <3>0
    <3>2. q[k] = LevelStep(R, k) /\ q = [d \in 0..k |-> q[d]]
      BY <3>0
    <3> HIDE DEF q
    <3>3. \A d \in 0..k : LevelStep(q, d) = LevelStep(R, d)
      <4> TAKE d \in 0..k
      <4>1. CASE d = 0
        BY <4>1 DEF LevelStep
      <4>2. CASE d # 0
        <5>1. d - 1 \in 0..(k - 1)
          BY <3>0, <4>2
        <5>2. q[d - 1] = R[d - 1]
          BY <3>1, <5>1
        <5> QED BY <5>2 DEF LevelStep
      <4> QED BY <4>1, <4>2
    <3>4. \A d \in 0..k : q[d] = LevelStep(q, d)
      <4> TAKE d \in 0..k
      <4>1. CASE d = k
        BY <3>2, <3>3, <4>1
      <4>2. CASE d # k
        <5>1. d \in 0..(k - 1)
          BY <3>0, <4>2
        <5> QED BY <2>2, <3>1, <3>3, <5>1
      <4> QED BY <4>1, <4>2
    <3>5. Partly(q, k)
      BY <3>2, <3>4
    <3> QED BY <2>1, <3>5
  <2>3. CASE k = 0
    <3> DEFINE R == [d \in {} |-> 0]
    <3>1. \A d \in 0..(k - 1) : R[d] = LevelStep(R, d)
      BY <2>3
    <3> HIDE DEF R
    <3> QED BY <2>2, <3>1
  <2>4. CASE k # 0
    <3>1. k - 1 \in Nat /\ k - 1 <= Levels /\ ~ k <= k - 1
      BY <1>0, <2>1, <2>4
    <3>2. PICK R : Partly(R, k - 1)
      BY <2>1, <3>1
    <3>3. \A d \in 0..(k - 1) : R[d] = LevelStep(R, d)
      BY <3>2
    <3> QED BY <2>2, <3>3
  <2> QED BY <2>3, <2>4
<1>2. Levels \notin Not
  BY <1>1
<1> QED BY <1>0, <1>2 DEF IsReading

LEMMA ReadingIs == \A d \in 0..Levels : Reading[d] = LevelStep(Reading, d)
<1> DEFINE R == CHOOSE R : IsReading(R)
<1>1. IsReading(R)
  BY ReadingExists
<1>2. Reading = R
  BY DEF Reading, IsReading, LevelStep
<1> HIDE DEF R
<1>3. \A d \in 0..Levels : R[d] = LevelStep(R, d)
  BY <1>1 DEF IsReading
<1> QED BY <1>2, <1>3

LEMMA LimitsAre ==
  /\ MaxDepth \in Nat \ {0} /\ MaxSelections \in Nat /\ MaxRoots \in Nat /\ Levels \in Nat
  /\ MaxDepth <= Levels
BY ParserAssumption

FieldsAt(d) == [words : Fields, sub : {Leaf} \cup DOMAIN Reading[d - 1]]

LEMMA LevelIs ==
  /\ DOMAIN Reading[0] = {}
  /\ \A d \in 1..Levels :
       /\ DOMAIN Reading[d] = Seq(FieldsAt(d))
       /\ \A sels \in Seq(FieldsAt(d)) : Reading[d][sels] = Measured(Reading[d - 1], sels)
<1>1. 0 \in 0..Levels
  BY LimitsAre
<1>2. Reading[0] = <<>>
  BY <1>1, ReadingIs DEF LevelStep
<1>3. DOMAIN Reading[0] = {}
  <2>1. DOMAIN <<>> = {}
    OBVIOUS
  <2> QED BY <1>2, <2>1
<1>4. ASSUME NEW d \in 1..Levels
      PROVE  Reading[d] = [sels \in Seq(FieldsAt(d)) |-> Measured(Reading[d - 1], sels)]
  <2>1. d \in 0..Levels /\ d # 0
    BY LimitsAre
  <2> QED BY <2>1, ReadingIs DEF LevelStep, FieldsAt
<1> QED BY <1>3, <1>4

LEMMA LevelNone ==
  ASSUME NEW d \in 1..Levels
  PROVE  <<>> \in DOMAIN Reading[d] /\ Reading[d][<<>>] = Closed
<1>1. <<>> \in Seq(FieldsAt(d))
  OBVIOUS
<1> QED BY <1>1, LevelIs, MeasuredNone

LEMMA LevelMore ==
  ASSUME NEW d \in 1..Levels, NEW f \in FieldsAt(d), NEW rest \in DOMAIN Reading[d]
  PROVE  /\ <<f>> \o rest \in DOMAIN Reading[d]
         /\ Reading[d][<<f>> \o rest] = Added(Reading[d - 1], f, Reading[d][rest])
<1>1. DOMAIN Reading[d] = Seq(FieldsAt(d)) /\ \A sels \in Seq(FieldsAt(d)) : Reading[d][sels] = Measured(Reading[d - 1], sels)
  BY LevelIs
<1>2. rest \in Seq(FieldsAt(d))
  BY <1>1
<1>3. <<f>> \o rest \in Seq(FieldsAt(d))
  BY <1>2
<1>4. Measured(Reading[d - 1], <<f>> \o rest) = Added(Reading[d - 1], f, Measured(Reading[d - 1], rest))
  BY <1>2, MeasuredMore
<1> QED BY <1>1, <1>2, <1>3, <1>4

\* What holds of the empty list and of one field more, on every level, holds of every list.
LEMMA LevelInduction ==
  ASSUME NEW G,
         \A d \in 1..Levels : DOMAIN Reading[d - 1] \subseteq G[d - 1] =>
           /\ <<>> \in G[d]
           /\ \A f \in FieldsAt(d), rest \in DOMAIN Reading[d] : rest \in G[d] => <<f>> \o rest \in G[d]
  PROVE  \A d \in 0..Levels : DOMAIN Reading[d] \subseteq G[d]
<1>1. ASSUME NEW d \in 1..Levels, DOMAIN Reading[d - 1] \subseteq G[d - 1]
      PROVE  DOMAIN Reading[d] \subseteq G[d]
  <2> DEFINE Wrong == {k \in Nat : \E sels \in DOMAIN Reading[d] : Len(sels) = k /\ sels \notin G[d]}
  <2>1. /\ <<>> \in G[d]
        /\ \A f \in FieldsAt(d), rest \in DOMAIN Reading[d] : rest \in G[d] => <<f>> \o rest \in G[d]
    BY <1>1
  <2>2. DOMAIN Reading[d] = Seq(FieldsAt(d))
    BY LevelIs
  <2>3. Wrong = {}
    <3> SUFFICES ASSUME Wrong # {} PROVE FALSE
      OBVIOUS
    <3>1. PICK k \in Wrong : \A j \in Wrong : k <= j
      <4>1. Wrong \in SUBSET Nat
        OBVIOUS
      <4> HIDE DEF Wrong
      <4> QED BY <4>1, LeastNat
    <3>2. PICK sels \in Seq(FieldsAt(d)) : Len(sels) = k /\ sels \notin G[d]
      BY <2>2, <3>1
    <3>3. sels # <<>>
      BY <2>1, <3>2
    <3>4. /\ Head(sels) \in FieldsAt(d) /\ Tail(sels) \in Seq(FieldsAt(d)) /\ Len(Tail(sels)) = k - 1
          /\ sels = <<Head(sels)>> \o Tail(sels) /\ k \in Nat \ {0}
      BY <3>2, <3>3
    <3>5. Tail(sels) \in G[d]
      <4>1. k - 1 \in Nat /\ ~ k <= k - 1
        BY <3>4
      <4>2. k - 1 \notin Wrong
        BY <3>1, <4>1
      <4> QED BY <2>2, <3>4, <4>1, <4>2
    <3> QED BY <2>1, <2>2, <3>2, <3>4, <3>5
  <2>4. ASSUME NEW sels \in DOMAIN Reading[d] PROVE sels \in G[d]
    <3>1. Len(sels) \in Nat
      BY <2>2
    <3> QED BY <2>3, <3>1
  <2> QED BY <2>4
<1> DEFINE Bad == {k \in Nat : k <= Levels /\ ~ (DOMAIN Reading[k] \subseteq G[k])}
<1>2. Bad = {}
  <2> SUFFICES ASSUME Bad # {} PROVE FALSE
    OBVIOUS
  <2>1. PICK k \in Bad : \A j \in Bad : k <= j
    <3>1. Bad \in SUBSET Nat
      OBVIOUS
    <3> HIDE DEF Bad
    <3> QED BY <3>1, LeastNat
  <2>2. k # 0
    BY <2>1, LevelIs
  <2>3. k - 1 \in Nat /\ ~ k <= k - 1 /\ k \in 1..Levels /\ k - 1 <= Levels
    BY <2>1, <2>2, LimitsAre
  <2>4. DOMAIN Reading[k - 1] \subseteq G[k - 1]
    <3>1. k - 1 \notin Bad
      BY <2>1, <2>3
    <3> QED BY <2>3, <3>1
  <2> QED BY <1>1, <2>1, <2>3, <2>4
<1>3. \A d \in 0..Levels : d \in Nat /\ d <= Levels
  BY LimitsAre
<1> QED BY <1>2, <1>3

LEMMA WordsAre ==
  ASSUME NEW w \in Fields
  PROVE  w \in Seq(Tokens) /\ Len(w) \in Nat \ {0} /\ w # <<>> /\ w[1] \in Names
<1>1. w \in Seq(Tokens) /\ Field(w) /\ Len(w) \in Nat
  BY DEF Fields
<1>2. Len(w) >= 1 /\ w[1] \in Names
  BY <1>1 DEF Field
<1>3. w # <<>>
  BY <1>1, <1>2
<1> QED BY <1>1, <1>2, <1>3

LEMMA LeafApart == \A d \in 0..Levels : Leaf \notin DOMAIN Reading[d]
<1> SUFFICES ASSUME NEW d \in 0..Levels, Leaf \in DOMAIN Reading[d] PROVE FALSE
  OBVIOUS
<1>1. d \in 1..Levels
  BY LevelIs, LimitsAre
<1>2. Leaf \in Seq(FieldsAt(d))
  BY <1>1, LevelIs
<1>3. Len(Leaf) = 1 /\ Leaf[1] = [words |-> <<>>, sub |-> <<>>]
  BY DEF Leaf
<1>4. Leaf[1] \in FieldsAt(d)
  <2>1. 1 \in 1..Len(Leaf)
    BY <1>3
  <2> HIDE DEF Leaf
  <2> QED BY <1>2, <2>1
<1>5. Leaf[1].words \in Fields
  BY <1>4 DEF FieldsAt
<1>6. Leaf[1].words = <<>>
  BY <1>3
<1> QED BY <1>5, <1>6, WordsAre

Typed(r) ==
  /\ r.text \in Seq(Tokens) /\ r.size \in Nat /\ r.deep \in Nat \ {0}
  /\ r.text # <<>> /\ r.text[1] \in Names \cup {"}"}

LEMMA OneToken ==
  ASSUME NEW t \in Tokens
  PROVE  <<t>> \in Seq(Tokens) /\ <<t>> # <<>> /\ <<t>>[1] = t /\ Len(<<t>>) = 1
OBVIOUS

LEMMA JoinFirst ==
  ASSUME NEW w \in Seq(Tokens), w # <<>>, NEW rest \in Seq(Tokens)
  PROVE  w \o rest \in Seq(Tokens) /\ w \o rest # <<>> /\ (w \o rest)[1] = w[1]
<1>1. Len(w) \in Nat \ {0} /\ Len(rest) \in Nat
  OBVIOUS
<1>2. w \o rest \in Seq(Tokens) /\ Len(w \o rest) = Len(w) + Len(rest)
  OBVIOUS
<1>3. \A i \in 1..Len(w) : (w \o rest)[i] = w[i]
  OBVIOUS
<1>4. 1 \in 1..Len(w) /\ Len(w) + Len(rest) # 0
  BY <1>1
<1>5. Len(<<>>) = 0
  OBVIOUS
<1> QED BY <1>2, <1>3, <1>4, <1>5

LEMMA ClosedTyped == Typed(Closed)
<1>1. Closed.text = <<"}">>
  BY DEF Closed
<1>2. <<"}">> \in Seq(Tokens) /\ <<"}">> # <<>> /\ <<"}">>[1] = "}"
  <2>1. "}" \in Tokens
    BY DEF Tokens
  <2> QED BY <2>1, OneToken
<1>3. Closed.size \in Nat /\ Closed.deep \in Nat \ {0}
  BY DEF Closed
<1>4. Closed.text \in Seq(Tokens) /\ Closed.text # <<>> /\ Closed.text[1] = "}"
  BY <1>1, <1>2, Zenon
<1> QED BY <1>3, <1>4, Zenon DEF Typed

LEMMA AddedText ==
  ASSUME NEW u, NEW f, NEW r
  PROVE  Added(u, f, r).text =
           f.words \o (IF f.sub = Leaf THEN r.text ELSE <<"{">> \o (u[f.sub].text \o r.text))
BY DEF Added

LEMMA AddedSize ==
  ASSUME NEW u, NEW f, NEW r
  PROVE  Added(u, f, r).size = IF f.sub = Leaf THEN r.size + 1 ELSE r.size + 1 + u[f.sub].size
BY DEF Added

LEMMA AddedDeep ==
  ASSUME NEW u, NEW f, NEW r
  PROVE  Added(u, f, r).deep = IF f.sub = Leaf THEN r.deep ELSE Larger(r.deep, u[f.sub].deep + 1)
BY DEF Added

LEMMA AddedTyped ==
  ASSUME NEW u, NEW f, NEW r, Typed(r), f.words \in Fields, f.sub # Leaf => Typed(u[f.sub])
  PROVE  Typed(Added(u, f, r))
<1> DEFINE a == Added(u, f, r)
<1>1. f.words \in Seq(Tokens) /\ f.words # <<>> /\ f.words[1] \in Names
  BY WordsAre
<1>2. ASSUME NEW rest \in Seq(Tokens)
      PROVE  f.words \o rest \in Seq(Tokens) /\ f.words \o rest # <<>> /\ (f.words \o rest)[1] \in Names
  BY <1>1, JoinFirst
<1>3. CASE f.sub = Leaf
  <2>1. a.text = f.words \o r.text /\ a.size = r.size + 1 /\ a.deep = r.deep
    BY <1>3, AddedText, AddedSize, AddedDeep
  <2>2. r.text \in Seq(Tokens) /\ r.size \in Nat /\ r.deep \in Nat \ {0}
    BY Zenon DEF Typed
  <2> HIDE DEF a
  <2>3. a.text \in Seq(Tokens) /\ a.text # <<>> /\ a.text[1] \in Names
    BY <1>2, <2>1, <2>2
  <2>4. a.size \in Nat /\ a.deep \in Nat \ {0}
    BY <2>1, <2>2
  <2>5. Typed(a)
    BY <2>3, <2>4 DEF Typed
  <2> QED BY <2>5 DEF a
<1>4. CASE f.sub # Leaf
  <2> DEFINE b == u[f.sub]
             rest == <<"{">> \o (b.text \o r.text)
  <2>1. a.text = f.words \o rest /\ a.size = r.size + 1 + b.size /\ a.deep = Larger(r.deep, b.deep + 1)
    BY <1>4, AddedText, AddedSize, AddedDeep
  <2>2. /\ b.text \in Seq(Tokens) /\ b.size \in Nat /\ b.deep \in Nat \ {0}
        /\ r.text \in Seq(Tokens) /\ r.size \in Nat /\ r.deep \in Nat \ {0}
    BY <1>4, Zenon DEF Typed
  <2> HIDE DEF a, b
  <2>3. rest \in Seq(Tokens)
    <3>1. b.text \o r.text \in Seq(Tokens)
      BY <2>2
    <3>2. "{" \in Tokens
      BY DEF Tokens
    <3>3. <<"{">> \in Seq(Tokens) /\ <<"{">> # <<>>
      BY <3>2, OneToken
    <3> QED BY <3>1, <3>3, JoinFirst
  <2> HIDE DEF rest
  <2>4. a.size \in Nat
    BY <2>1, <2>2
  <2>5. a.deep \in Nat \ {0}
    BY <2>1, <2>2 DEF Larger
  <2>6. a.text \in Seq(Tokens) /\ a.text # <<>> /\ a.text[1] \in Names
    BY <1>2, <2>1, <2>3
  <2>7. Typed(a)
    BY <2>4, <2>5, <2>6 DEF Typed
  <2> QED BY <2>7 DEF a
<1> QED BY <1>3, <1>4

LEMMA ReadingTyped == \A d \in 0..Levels : \A sels \in DOMAIN Reading[d] : Typed(Reading[d][sels])
<1> DEFINE G == [d \in 0..Levels |-> {sels \in DOMAIN Reading[d] : Typed(Reading[d][sels])}]
<1>1. ASSUME NEW d \in 1..Levels, DOMAIN Reading[d - 1] \subseteq G[d - 1]
      PROVE  /\ <<>> \in G[d]
             /\ \A f \in FieldsAt(d), rest \in DOMAIN Reading[d] : rest \in G[d] => <<f>> \o rest \in G[d]
  <2>1. d \in 0..Levels /\ d - 1 \in 0..Levels
    BY LimitsAre
  <2>2. <<>> \in G[d]
    BY <2>1, LevelNone, ClosedTyped
  <2>3. ASSUME NEW f \in FieldsAt(d), NEW rest \in DOMAIN Reading[d], rest \in G[d]
        PROVE  <<f>> \o rest \in G[d]
    <3>1. Typed(Reading[d][rest])
      BY <2>1, <2>3
    <3>2. f.words \in Fields /\ (f.sub # Leaf => f.sub \in DOMAIN Reading[d - 1])
      BY DEF FieldsAt
    <3>3. f.sub # Leaf => Typed(Reading[d - 1][f.sub])
      BY <1>1, <2>1, <3>2
    <3>4. Typed(Added(Reading[d - 1], f, Reading[d][rest]))
      BY <3>1, <3>2, <3>3, AddedTyped
    <3>5. <<f>> \o rest \in DOMAIN Reading[d] /\ Typed(Reading[d][<<f>> \o rest])
      BY <3>4, LevelMore
    <3> QED BY <2>1, <3>5
  <2> QED BY <2>2, <2>3
<1> HIDE DEF G
<1>2. \A d \in 0..Levels : DOMAIN Reading[d] \subseteq G[d]
  BY <1>1, LevelInduction
<1> QED BY <1>2 DEF G

-----------------------------------------------------------------------------
(* What is written is taken, within the limits.                               *)

\* The braces, by names of their own.
Opening == "{"
Closing == "}"

\* The loop may stand at x: the set is within the depth, the fields so far within their limit.
Live(toks, x) == x \in Spots(toks) /\ x.depth \in 1..MaxDepth /\ x.seen <= MaxSelections
Spared(x, size, deep) == x.depth + deep - 1 <= MaxDepth /\ x.seen + size <= MaxSelections
Answer(x, text, size, deep, sels) ==
  IF Spared(x, size, deep)
  THEN [at |-> x.at + Len(text), seen |-> x.seen + size, sels |-> sels] ELSE Fail
Takes(toks, L, text, size, deep, sels) ==
  \A x \in Spots(toks) : Live(toks, x) /\ Stands(toks, x.at, text) => L[x] = Answer(x, text, size, deep, sels)
Loops(toks, L) == \A x \in Spots(toks) : L[x] = Loop(toks, L, x)

LEMMA SpotTyped ==
  ASSUME NEW toks \in Seq(Tokens), NEW x \in Spots(toks)
  PROVE  /\ Len(toks) \in Nat /\ x.at \in 1..(Len(toks) + 1) /\ x.at \in Nat \ {0} /\ x.at \in Int
         /\ x.depth \in Nat /\ x.seen \in Nat
BY DEF Spots

LEMMA FailApart ==
  ASSUME NEW p \in Nat \ {0}, NEW s, NEW sels
  PROVE  [at |-> p, seen |-> s, sels |-> sels] # Fail
<1>1. [at |-> p, seen |-> s, sels |-> sels].at = p /\ Fail.at = 0
  BY DEF Fail
<1> QED BY <1>1

LEMMA Joined ==
  ASSUME NEW w \in Seq(Tokens), NEW v \in Seq(Tokens)
  PROVE  w \o v \in Seq(Tokens) /\ Len(w \o v) = Len(w) + Len(v) /\ Len(w) \in Nat /\ Len(v) \in Nat
OBVIOUS

LEMMA TakesNone ==
  ASSUME NEW toks \in Seq(Tokens), NEW L, Loops(toks, L)
  PROVE  Takes(toks, L, <<Closing>>, 0, 1, <<>>)
<1> SUFFICES ASSUME NEW x \in Spots(toks), Live(toks, x), Stands(toks, x.at, <<Closing>>)
             PROVE  L[x] = Answer(x, <<Closing>>, 0, 1, <<>>)
  BY DEF Takes
<1>1. Closing \in Tokens
  BY Zenon DEF Tokens, Closing
<1>2. x.at \in Nat \ {0} /\ x.seen \in Nat /\ x.depth \in 1..MaxDepth /\ x.seen <= MaxSelections
  BY SpotTyped DEF Live
<1>3. peek(toks, x.at) = Closing
  BY <1>1, <1>2, StandsOne
<1>4. L[x] = [at |-> x.at + 1, seen |-> x.seen, sels |-> <<>>]
  BY <1>3, LoopIs, Zenon DEF Loops, Closing
<1>5. Spared(x, 0, 1) /\ x.seen + 0 = x.seen
  <2> DEFINE c == x.seen
             h == x.depth
  <2>1. c \in Nat /\ h \in 1..MaxDepth /\ c <= MaxSelections /\ MaxDepth \in Nat /\ MaxSelections \in Nat
    BY <1>2, LimitsAre
  <2> HIDE DEF c, h
  <2>2. c + 0 = c /\ h + 1 - 1 <= MaxDepth /\ c + 0 <= MaxSelections
    BY <2>1
  <2> QED BY <2>2 DEF Spared, c, h
<1>6. Answer(x, <<Closing>>, 0, 1, <<>>) = [at |-> x.at + Len(<<Closing>>), seen |-> x.seen + 0, sels |-> <<>>]
  BY <1>5 DEF Answer
<1>7. Len(<<Closing>>) = 1
  OBVIOUS
<1> QED BY <1>4, <1>5, <1>6, <1>7

Listed(w, t, rest) == <<[words |-> w, sub |-> t]>> \o rest
Ends(x, b, s, text, size, deep, list) ==
  IF x.depth + deep - 1 <= MaxDepth /\ s + size <= MaxSelections
  THEN [at |-> b + Len(text), seen |-> s + size, sels |-> list] ELSE Fail

\* The field at x has the words w up to e, and what is below it is t, up to b.
FieldAt(toks, L, x, w, e, b, s, t) ==
  /\ Live(toks, x) /\ x.seen < MaxSelections
  /\ Stands(toks, x.at, w) /\ e \in Nat /\ e = x.at + Len(w) /\ FieldEnd(toks, x.at) = e
  /\ toks[x.at] \in Names /\ x.at \in 1..Len(toks)
  /\ b \in 1..(Len(toks) + 1) /\ s \in Nat /\ s <= MaxSelections
  /\ Nested(toks, L, x) = [at |-> b, seen |-> s, sels |-> t]

LEMMA LoopRest ==
  ASSUME NEW toks \in Seq(Tokens), NEW L, Loops(toks, L), NEW x \in Spots(toks), NEW w \in Fields,
         NEW e, NEW b, NEW s, NEW t, FieldAt(toks, L, x, w, e, b, s, t),
         NEW text \in Seq(Tokens), NEW size \in Nat, NEW deep \in Nat, NEW rest,
         Takes(toks, L, text, size, deep, rest), Stands(toks, b, text)
  PROVE  L[x] = Ends(x, b, s, text, size, deep, Listed(w, t, rest))
<1>1. /\ Live(toks, x) /\ x.seen < MaxSelections
      /\ Stands(toks, x.at, w) /\ e \in Nat /\ e = x.at + Len(w) /\ FieldEnd(toks, x.at) = e
      /\ toks[x.at] \in Names /\ x.at \in 1..Len(toks)
      /\ b \in 1..(Len(toks) + 1) /\ s \in Nat /\ s <= MaxSelections
      /\ Nested(toks, L, x) = [at |-> b, seen |-> s, sels |-> t]
  BY DEF FieldAt
<1> DEFINE y == [at |-> b, depth |-> x.depth, seen |-> s]
           B == [at |-> b, seen |-> s, sels |-> t]
           ok == x.depth + deep - 1 <= MaxDepth /\ s + size <= MaxSelections
<1>2. x.depth \in Nat /\ x.at \in Nat \ {0} /\ x.depth \in 1..MaxDepth /\ b \in Nat \ {0}
  BY <1>1, SpotTyped DEF Live
<1>3. y \in Spots(toks)
  BY <1>2, <1>1, SpotIs
<1>4. y.at = b /\ y.depth = x.depth /\ y.seen = s
  OBVIOUS
<1>5. B.at = b /\ B.seen = s /\ B.sels = t /\ B # Fail
  BY <1>2, FailApart
<1>6. After(toks, L, x) = L[y]
  BY <1>5, <1>1 DEF After, B
<1> HIDE DEF y, B, ok
<1>7. Live(toks, y) /\ Stands(toks, y.at, text)
  BY <1>2, <1>3, <1>4, <1>1 DEF Live
<1>8. L[y] = Answer(y, text, size, deep, rest)
  BY <1>3, <1>7 DEF Takes
<1>9. Spared(y, size, deep) <=> ok
  BY <1>4 DEF Spared, ok
<1>10. Here(toks, L, x) = [words |-> w, sub |-> t]
  <2>1. w \in Seq(Tokens) /\ w # <<>>
    BY WordsAre
  <2>2. SubSeq(toks, x.at, FieldEnd(toks, x.at) - 1) = w
    <3> DEFINE p == x.at
    <3>1. p \in Nat \ {0} /\ Stands(toks, p, w) /\ e = p + Len(w) /\ Len(w) \in Nat
      BY <1>2, <1>1, <2>1
    <3> HIDE DEF p
    <3>2. SubSeq(toks, p, p + Len(w) - 1) = w
      BY <2>1, <3>1, StandsWords
    <3>3. p + Len(w) - 1 = e - 1
      BY <3>1
    <3>4. SubSeq(toks, p, e - 1) = w
      BY <3>2, <3>3
    <3> QED BY <1>1, <3>4 DEF p
  <2>3. Nested(toks, L, x).sels = t
    BY <1>5, <1>1 DEF B
  <2> QED BY <2>2, <2>3 DEF Here
<1>11. peek(toks, x.at) \in Names /\ peek(toks, x.at) # "}"
  <2>1. peek(toks, x.at) = toks[x.at]
    BY <1>2, <1>1, PeekIn
  <2> QED BY <1>1, <2>1 DEF Names
<1>12. FieldEnd(toks, x.at) # 0 /\ ~ (x.seen >= MaxSelections)
  <2>1. Len(w) \in Nat \ {0}
    BY WordsAre
  <2> DEFINE p == x.at
             c == x.seen
  <2>2. p \in Nat /\ e = p + Len(w) /\ c \in Nat /\ c < MaxSelections /\ MaxSelections \in Nat
    BY <1>2, <1>1, SpotTyped, LimitsAre
  <2> HIDE DEF p, c
  <2>3. e # 0 /\ ~ (c >= MaxSelections)
    BY <2>1, <2>2
  <2> QED BY <1>1, <2>3 DEF c
<1>13. Nested(toks, L, x) # Fail
  BY <1>5, <1>1 DEF B
<1>14. CASE ok
  <2>1. L[y] = [at |-> b + Len(text), seen |-> s + size, sels |-> rest]
    BY <1>4, <1>8, <1>9, <1>14 DEF Answer
  <2>2. L[y] # Fail
    <3>1. Len(text) \in Nat
      OBVIOUS
    <3>2. b + Len(text) \in Nat \ {0}
      BY <1>2, <3>1
    <3> QED BY <2>1, <3>2, FailApart
  <2>3. L[y].at = b + Len(text) /\ L[y].sels = rest
    BY <2>1
  <2>4. L[y].seen = s + size
    BY <2>1
  <2>5. ~ Refuses(toks, L, x)
    BY <1>6, <1>11, <1>12, <1>13, <2>2 DEF Refuses
  <2>6. Loop(toks, L, x) = [at |-> L[y].at, seen |-> L[y].seen, sels |-> <<Here(toks, L, x)>> \o L[y].sels]
    <3>1. Loop(toks, L, x) = [at |-> After(toks, L, x).at, seen |-> After(toks, L, x).seen,
                              sels |-> <<Here(toks, L, x)>> \o After(toks, L, x).sels]
      BY <1>11, <2>5, LoopIs
    <3> QED BY <1>6, <3>1
  <2>7. L[x] = Loop(toks, L, x)
    BY DEF Loops
  <2>8. L[x] = [at |-> b + Len(text), seen |-> s + size, sels |-> <<[words |-> w, sub |-> t]>> \o rest]
    BY <1>10, <2>3, <2>4, <2>6, <2>7
  <2> QED BY <1>14, <2>8 DEF ok, Ends, Listed
<1>15. CASE ~ ok
  <2>1. L[y] = Fail
    BY <1>8, <1>9, <1>15 DEF Answer
  <2>2. Refuses(toks, L, x)
    BY <1>6, <2>1 DEF Refuses
  <2>3. L[x] = Fail
    BY <1>11, <2>2, LoopIs DEF Loops
  <2> QED BY <1>15, <2>3 DEF ok, Ends, Listed
<1> QED BY <1>14, <1>15

LEMMA TakesLeaf ==
  ASSUME NEW toks \in Seq(Tokens), NEW L, Loops(toks, L), NEW w \in Fields,
         NEW text \in Seq(Tokens), text # <<>>, text[1] \in Names \cup {Closing},
         NEW size \in Nat, NEW deep \in Nat \ {0}, NEW rest, Takes(toks, L, text, size, deep, rest)
  PROVE  Takes(toks, L, w \o text, size + 1, deep, <<[words |-> w, sub |-> Leaf]>> \o rest)
<1> DEFINE all == w \o text
           list == <<[words |-> w, sub |-> Leaf]>> \o rest
<1> SUFFICES ASSUME NEW x \in Spots(toks), Live(toks, x), Stands(toks, x.at, all)
             PROVE  L[x] = Answer(x, all, size + 1, deep, list)
  BY DEF Takes
<1> DEFINE p == x.at
           n == Len(toks)
           h == x.depth
           c == x.seen
           e == p + Len(w)
<1>1. /\ n \in Nat /\ p \in 1..(n + 1) /\ p \in Nat \ {0} /\ h \in Nat /\ c \in Nat
      /\ h \in 1..MaxDepth /\ c <= MaxSelections /\ MaxSelections \in Nat /\ MaxDepth \in Nat
  BY SpotTyped, LimitsAre DEF Live
<1> HIDE DEF n, p, h, c
<1>2. w \in Seq(Tokens) /\ Len(w) \in Nat \ {0} /\ w # <<>>
  BY WordsAre
<1>3. Len(text) \in Nat /\ Len(all) = Len(w) + Len(text)
  BY <1>2, Joined
<1>4. e \in Nat \ {0}
  BY <1>1, <1>2
<1>5. Stands(toks, p, w) /\ Stands(toks, e, text)
  BY <1>1, <1>2, StandsSplit DEF p
<1> HIDE DEF all, list, e
<1>6. peek(toks, e) \in Names \cup {Closing} /\ e \in 1..n
  BY <1>4, <1>5, StandsFirst DEF n
<1>7. peek(toks, e) \notin {":", "("} /\ peek(toks, e) # "{"
  BY <1>6, Zenon DEF Names, Closing
<1>8. FieldEnd(toks, p) = e /\ toks[p] \in Names /\ p \in 1..n
  <2>1. peek(toks, p + Len(w)) \notin {":", "("}
    BY <1>7 DEF e
  <2> QED BY <1>1, <1>5, <2>1, FieldFound DEF e, n
<1> DEFINE s == c + 1
<1>9. Nested(toks, L, x) = [at |-> e, seen |-> s, sels |-> Leaf]
  BY <1>7, <1>8, NestedIs DEF p, c
<1>10. CASE c < MaxSelections
  <2>1. e \in 1..(n + 1) /\ s \in Nat /\ s <= MaxSelections
    BY <1>1, <1>4, <1>6, <1>10
  <2>2. s + size = c + (size + 1)
    BY <1>1
  <2> HIDE DEF s
  <2>3. e \in 1..(Len(toks) + 1) /\ deep \in Nat /\ FieldEnd(toks, x.at) = e /\ e = x.at + Len(w) /\ e \in Nat
        /\ toks[x.at] \in Names /\ x.at \in 1..Len(toks) /\ Stands(toks, x.at, w)
    BY <1>4, <1>5, <1>8, <2>1 DEF n, p, e
  <2>4. x.seen < MaxSelections
    BY <1>10 DEF c
  <2>5. L[x] = Ends(x, e, s, text, size, deep, list)
    <3>1. list = Listed(w, Leaf, rest)
      BY DEF list, Listed
    <3>2. s \in Nat /\ s <= MaxSelections
      BY <2>1
    <3>3. FieldAt(toks, L, x, w, e, e, s, Leaf)
      BY <1>9, <2>3, <2>4, <3>2 DEF FieldAt
    <3>4. deep \in Nat
      OBVIOUS
    <3> QED BY <1>5, <3>1, <3>3, <3>4, LoopRest
  <2>6. e + Len(text) = p + Len(all)
    BY <1>1, <1>2, <1>3 DEF e
  <2> QED BY <2>2, <2>5, <2>6 DEF Answer, Spared, Ends, p, c
<1>11. CASE ~ (c < MaxSelections)
  <2>1. c >= MaxSelections /\ ~ (c + (size + 1) <= MaxSelections)
    BY <1>1, <1>11
  <2>2. Refuses(toks, L, x)
    BY <2>1 DEF Refuses, c
  <2>3. peek(toks, p) # "}"
    <3>1. p \in Int
      BY <1>1
    <3>2. peek(toks, p) = toks[p]
      BY <1>8, <3>1, PeekIn DEF n
    <3> QED BY <1>8, <3>2 DEF Names
  <2>4. L[x] = Fail
    BY <2>2, <2>3, LoopIs DEF Loops, p
  <2>5. ~ Spared(x, size + 1, deep)
    BY <2>1 DEF Spared, c
  <2> QED BY <2>4, <2>5 DEF Answer
<1> QED BY <1>10, <1>11

LEMMA TakesSet ==
  ASSUME NEW toks \in Seq(Tokens), NEW L, Loops(toks, L), NEW w \in Fields,
         NEW under \in Seq(Tokens), under # <<>>, NEW most \in Nat, NEW far \in Nat \ {0}, NEW sub,
         Takes(toks, L, under, most, far, sub),
         NEW text \in Seq(Tokens), text # <<>>,
         NEW size \in Nat, NEW deep \in Nat \ {0}, NEW rest, Takes(toks, L, text, size, deep, rest)
  PROVE  Takes(toks, L, w \o (<<Opening>> \o (under \o text)), size + 1 + most, Larger(deep, far + 1),
               <<[words |-> w, sub |-> sub]>> \o rest)
<1> DEFINE inner == under \o text
           opened == <<Opening>> \o inner
           all == w \o opened
           list == <<[words |-> w, sub |-> sub]>> \o rest
           size1 == size + 1 + most
           deep1 == Larger(deep, far + 1)
<1> SUFFICES ASSUME NEW x \in Spots(toks), Live(toks, x), Stands(toks, x.at, all)
             PROVE  L[x] = Answer(x, all, size1, deep1, list)
  BY DEF Takes
<1> DEFINE p == x.at
           n == Len(toks)
           h == x.depth
           c == x.seen
           e == p + Len(w)
           after == (e + 1) + Len(under)
           y == [at |-> e + 1, depth |-> h + 1, seen |-> c + 1]
<1>1. /\ n \in Nat /\ p \in 1..(n + 1) /\ p \in Nat \ {0} /\ h \in Nat /\ c \in Nat
      /\ h \in 1..MaxDepth /\ c <= MaxSelections /\ MaxSelections \in Nat /\ MaxDepth \in Nat
  BY SpotTyped, LimitsAre DEF Live
<1> HIDE DEF n, p, h, c
<1>2. w \in Seq(Tokens) /\ Len(w) \in Nat \ {0} /\ w # <<>>
  BY WordsAre
<1>3. inner \in Seq(Tokens) /\ Len(inner) = Len(under) + Len(text) /\ Len(under) \in Nat /\ Len(text) \in Nat
  BY Joined
<1>4. Opening \in Tokens
  BY Zenon DEF Tokens, Opening
<1>5. <<Opening>> \in Seq(Tokens) /\ Len(<<Opening>>) = 1
  BY <1>4, OneToken
<1> HIDE DEF inner
<1>6. opened \in Seq(Tokens) /\ Len(opened) = 1 + Len(inner)
  BY <1>3, <1>5, Joined
<1>7. e \in Nat \ {0} /\ e + 1 \in Nat \ {0}
  BY <1>1, <1>2
<1> HIDE DEF e
<1>8. Stands(toks, e, <<Opening>>) /\ Stands(toks, e + 1, inner) <=> Stands(toks, e, opened)
  BY <1>3, <1>5, <1>7, StandsSplit
<1> HIDE DEF opened
<1>9. Len(all) = Len(w) + Len(opened)
  BY <1>2, <1>6, Joined
<1>10. Stands(toks, p, w) /\ Stands(toks, e, opened)
  BY <1>1, <1>2, <1>6, StandsSplit DEF e, p
<1> HIDE DEF all, list
<1>11. Stands(toks, e + 1, under) /\ Stands(toks, after, text)
  BY <1>7, <1>8, <1>10, StandsSplit DEF inner
<1>12. peek(toks, e) = Opening
  BY <1>4, <1>7, <1>8, <1>10, StandsOne
<1>13. FieldEnd(toks, p) = e /\ toks[p] \in Names /\ p \in 1..n
  <2>1. peek(toks, p + Len(w)) \notin {":", "("}
    BY <1>12, Zenon DEF e, Opening
  <2> QED BY <1>1, <1>10, <2>1, FieldFound DEF e, n
<1>14. Nested(toks, L, x) = IF h + 1 > MaxDepth THEN Fail ELSE L[y]
  BY <1>12, <1>13, NestedIs, Zenon DEF Next1, p, h, c, Opening
<1>15. y.at = e + 1 /\ y.depth = h + 1 /\ y.seen = c + 1
  OBVIOUS
<1>16. after \in Nat \ {0}
  BY <1>3, <1>7
<1> HIDE DEF after
<1>17. e + 1 \in 1..n /\ after \in 1..n
  BY <1>7, <1>11, <1>16, StandsFirst DEF n
<1>18. peek(toks, p) # "}"
  <2>1. peek(toks, p) = toks[p]
    BY <1>1, <1>13, PeekIn DEF n
  <2> QED BY <1>13, <2>1 DEF Names
<1>19. size1 \in Nat /\ deep1 \in Nat /\ deep1 >= far + 1 /\ deep1 >= deep /\ (deep1 = far + 1 \/ deep1 = deep)
  BY DEF Larger
<1>20. size1 = size + 1 + most
  OBVIOUS
<1> HIDE DEF size1, deep1
<1>21. ASSUME Refuses(toks, L, x), ~ Spared(x, size1, deep1) PROVE L[x] = Answer(x, all, size1, deep1, list)
  <2>1. L[x] = Fail
    BY <1>18, <1>21, LoopIs DEF Loops, p
  <2> QED BY <1>21, <2>1 DEF Answer
<1>22. CASE c >= MaxSelections
  <2>1. Refuses(toks, L, x)
    BY <1>22 DEF Refuses, c
  <2>2. ~ (c + size1 <= MaxSelections)
    BY <1>1, <1>20, <1>22
  <2> QED BY <1>21, <2>1, <2>2 DEF Spared, h, c
<1>23. CASE h + 1 > MaxDepth
  <2>1. Refuses(toks, L, x)
    BY <1>14, <1>23 DEF Refuses
  <2>2. ~ (h + deep1 - 1 <= MaxDepth)
    BY <1>1, <1>19, <1>23
  <2> QED BY <1>21, <2>1, <2>2 DEF Spared, h, c
<1>24. CASE ~ (c >= MaxSelections) /\ ~ (h + 1 > MaxDepth)
  <2>1. c < MaxSelections /\ h + 1 \in 1..MaxDepth /\ h + 1 \in Nat
        /\ c + 1 \in Nat /\ c + 1 <= MaxSelections
    BY <1>1, <1>24
  <2>2. e + 1 \in 1..(Len(toks) + 1)
    BY <1>1, <1>17 DEF n
  <2>3. y \in Spots(toks)
    BY <2>1, <2>2, SpotIs
  <2> HIDE DEF y
  <2>4. Live(toks, y) /\ Stands(toks, y.at, under)
    BY <1>11, <1>15, <2>1, <2>3 DEF Live
  <2>5. Nested(toks, L, x) = Answer(y, under, most, far, sub)
    BY <1>14, <1>24, <2>3, <2>4 DEF Takes
  <2>6. CASE ~ Spared(y, most, far)
    <3>1. Nested(toks, L, x) = Fail
      BY <2>5, <2>6 DEF Answer
    <3>2. Refuses(toks, L, x)
      BY <3>1 DEF Refuses
    <3>3. ~ ((h + 1) + far - 1 <= MaxDepth) \/ ~ ((c + 1) + most <= MaxSelections)
      BY <1>15, <2>6 DEF Spared, h, c
    <3>4. ~ (h + deep1 - 1 <= MaxDepth) \/ ~ (c + size1 <= MaxSelections)
      BY <1>1, <1>19, <1>20, <3>3
    <3> QED BY <1>21, <3>2, <3>4 DEF Spared, h, c
  <2>7. CASE Spared(y, most, far)
    <3> DEFINE s == (c + 1) + most
    <3>1. (h + 1) + far - 1 <= MaxDepth /\ s <= MaxSelections
      BY <1>15, <2>7 DEF Spared, h, c
    <3>2. s \in Nat
      BY <1>1
    <3>3. Nested(toks, L, x) = [at |-> after, seen |-> s, sels |-> sub]
      <4>1. Nested(toks, L, x) = [at |-> y.at + Len(under), seen |-> y.seen + most, sels |-> sub]
        BY <2>5, <2>7 DEF Answer
      <4>2. y.at + Len(under) = after /\ y.seen + most = s
        BY <1>15 DEF after
      <4> QED BY <4>1, <4>2
    <3>4. s + size = c + size1
      BY <1>1, <1>20
    <3> HIDE DEF s
    <3>5. after \in 1..(Len(toks) + 1) /\ deep \in Nat /\ FieldEnd(toks, x.at) = e /\ e = x.at + Len(w) /\ e \in Nat
          /\ toks[x.at] \in Names /\ x.at \in 1..Len(toks) /\ Stands(toks, x.at, w)
      <4>1. after \in 1..(n + 1)
        BY <1>1, <1>17
      <4> QED BY <1>7, <1>10, <1>13, <4>1 DEF n, p, e
    <3>9. x.seen < MaxSelections
      BY <2>1 DEF c
    <3>6. L[x] = Ends(x, after, s, text, size, deep, list)
      <4>1. list = Listed(w, sub, rest)
        BY DEF list, Listed
      <4>2. s <= MaxSelections
        BY <3>1
      <4>3. FieldAt(toks, L, x, w, e, after, s, sub)
        BY <3>2, <3>3, <3>5, <3>9, <4>2 DEF FieldAt
      <4>4. deep \in Nat
        OBVIOUS
      <4> QED BY <1>11, <4>1, <4>3, <4>4, LoopRest
    <3>7. after + Len(text) = p + Len(all)
      BY <1>1, <1>2, <1>3, <1>6, <1>9 DEF after, e
    <3>8. h + deep1 - 1 <= MaxDepth <=> h + deep - 1 <= MaxDepth
      BY <1>1, <1>19, <3>1
    <3> QED BY <3>4, <3>6, <3>7, <3>8 DEF Answer, Spared, Ends, p, h, c
  <2> QED BY <2>6, <2>7
<1> QED BY <1>22, <1>23, <1>24

-----------------------------------------------------------------------------
(* Lists of fields, one field at a time.                                      *)

\* How the list is written on level d.
Reads(d, sels, text, size, deep) ==
  /\ sels \in DOMAIN Reading[d]
  /\ Reading[d][sels].text = text /\ Reading[d][sels].size = size /\ Reading[d][sels].deep = deep

LEMMA ReadsTyped ==
  ASSUME NEW d \in 0..Levels, NEW sels, NEW text, NEW size, NEW deep, Reads(d, sels, text, size, deep)
  PROVE  /\ text \in Seq(Tokens) /\ text # <<>> /\ text[1] \in Names \cup {Closing}
         /\ size \in Nat /\ deep \in Nat \ {0}
<1>1. Typed(Reading[d][sels])
  BY ReadingTyped DEF Reads
<1>2. Reading[d][sels].text = text /\ Reading[d][sels].size = size /\ Reading[d][sels].deep = deep
  BY Zenon DEF Reads
<1>3. text \in Seq(Tokens) /\ text # <<>> /\ text[1] \in Names \cup {Closing}
  BY <1>1, <1>2, Zenon DEF Typed, Closing
<1>4. size \in Nat /\ deep \in Nat \ {0}
  BY <1>1, <1>2, Zenon DEF Typed
<1> QED BY <1>3, <1>4, Zenon

LEMMA ReadsSome ==
  ASSUME NEW d \in 0..Levels, NEW sels \in DOMAIN Reading[d]
  PROVE  Reads(d, sels, Reading[d][sels].text, Reading[d][sels].size, Reading[d][sels].deep)
BY Zenon DEF Reads

LEMMA ReadsNone ==
  ASSUME NEW d \in 1..Levels
  PROVE  Reads(d, <<>>, <<Closing>>, 0, 1)
<1>1. <<>> \in DOMAIN Reading[d] /\ Reading[d][<<>>] = Closed
  BY LevelNone
<1>2. Closed.text = <<Closing>>
  BY Zenon DEF Closed, Closing
<1>3. Closed.size = 0
  BY DEF Closed
<1>4. Closed.deep = 1
  BY DEF Closed
<1> QED BY <1>1, <1>2, <1>3, <1>4, Zenon DEF Reads

LEMMA ReadsLeaf ==
  ASSUME NEW d \in 1..Levels, NEW w \in Fields,
         NEW rest, NEW text, NEW size, NEW deep, Reads(d, rest, text, size, deep)
  PROVE  Reads(d, Listed(w, Leaf, rest), w \o text, size + 1, deep)
<1> DEFINE f == [words |-> w, sub |-> Leaf]
           r == Reading[d][rest]
           a == Added(Reading[d - 1], f, r)
<1>1. f \in FieldsAt(d) /\ f.words = w /\ f.sub = Leaf
  BY DEF FieldsAt
<1>2. rest \in DOMAIN Reading[d] /\ r.text = text /\ r.size = size /\ r.deep = deep
  BY Zenon DEF Reads
<1> HIDE DEF f, r
<1>3. <<f>> \o rest \in DOMAIN Reading[d] /\ Reading[d][<<f>> \o rest] = a
  BY <1>1, <1>2, LevelMore DEF r
<1>4. a.text = w \o text
  BY <1>1, <1>2, AddedText
<1>5. a.size = size + 1
  BY <1>1, <1>2, AddedSize
<1>6. a.deep = deep
  BY <1>1, <1>2, AddedDeep
<1> HIDE DEF a
<1>7. Listed(w, Leaf, rest) = <<f>> \o rest
  BY DEF Listed, f
<1> QED BY <1>3, <1>4, <1>5, <1>6, <1>7, Zenon DEF Reads

Opened(v) == <<Opening>> \o v

LEMMA AddedSet ==
  ASSUME NEW u, NEW f, NEW r, f.sub # Leaf
  PROVE  Added(u, f, r).text = f.words \o Opened(u[f.sub].text \o r.text)
<1>1. Added(u, f, r).text = f.words \o (<<"{">> \o (u[f.sub].text \o r.text))
  BY DEF Added
<1> QED BY <1>1, Zenon DEF Opening, Opened

LEMMA ReadsSet ==
  ASSUME NEW d \in 1..Levels, NEW w \in Fields,
         NEW sub, NEW under, NEW most, NEW far, Reads(d - 1, sub, under, most, far),
         NEW rest, NEW text, NEW size, NEW deep, Reads(d, rest, text, size, deep)
  PROVE  Reads(d, Listed(w, sub, rest), w \o (<<Opening>> \o (under \o text)), size + 1 + most,
               Larger(deep, far + 1))
<1> DEFINE f == [words |-> w, sub |-> sub]
           r == Reading[d][rest]
           b == Reading[d - 1][sub]
           a == Added(Reading[d - 1], f, r)
<1>1. rest \in DOMAIN Reading[d] /\ r.text = text /\ r.size = size /\ r.deep = deep
  BY Zenon DEF Reads
<1>2. sub \in DOMAIN Reading[d - 1] /\ b.text = under /\ b.size = most /\ b.deep = far
  BY Zenon DEF Reads
<1>3. f \in FieldsAt(d) /\ f.words = w /\ f.sub = sub
  BY <1>2 DEF FieldsAt
<1>4. sub # Leaf
  <2>1. d - 1 \in 0..Levels
    BY LimitsAre
  <2> QED BY <1>2, <2>1, LeafApart
<1> HIDE DEF f, r
<1>5. <<f>> \o rest \in DOMAIN Reading[d] /\ Reading[d][<<f>> \o rest] = a
  BY <1>1, <1>3, LevelMore DEF r
<1>6. a.text = w \o Opened(b.text \o r.text)
  <2> DEFINE u == Reading[d - 1]
  <2>1. f.sub # Leaf /\ f.words = w /\ u[f.sub] = b
    BY <1>3, <1>4
  <2> HIDE DEF u, b
  <2>2. Added(u, f, r).text = f.words \o Opened(u[f.sub].text \o r.text)
    BY <2>1, AddedSet, Zenon
  <2>3. Added(u, f, r).text = w \o Opened(b.text \o r.text)
    BY <2>1, <2>2, Zenon
  <2> QED BY <2>3, Zenon DEF u
<1>7. a.size = r.size + 1 + b.size
  BY <1>3, <1>4, AddedSize
<1>8. a.deep = Larger(r.deep, b.deep + 1)
  BY <1>3, <1>4, AddedDeep
<1> HIDE DEF a, b
<1>9. Listed(w, sub, rest) = <<f>> \o rest
  BY DEF Listed, f
<1>10. a.text = w \o (<<Opening>> \o (under \o text))
  BY <1>1, <1>2, <1>6, Zenon DEF Opened
<1>11. a.size = size + 1 + most
  BY <1>1, <1>2, <1>7
<1>12. a.deep = Larger(deep, far + 1)
  BY <1>1, <1>2, <1>8
<1> QED BY <1>5, <1>9, <1>10, <1>11, <1>12, Zenon DEF Reads

\* A list is a field and a list, or nothing.
LEMMA ReadsTaken ==
  ASSUME NEW toks \in Seq(Tokens), NEW L, Loops(toks, L)
  PROVE  \A d \in 0..Levels : \A sels \in DOMAIN Reading[d] :
           Takes(toks, L, Reading[d][sels].text, Reading[d][sels].size, Reading[d][sels].deep, sels)
<1> DEFINE Taken(d, sels) ==
             Takes(toks, L, Reading[d][sels].text, Reading[d][sels].size, Reading[d][sels].deep, sels)
           G == [d \in 0..Levels |-> {sels \in DOMAIN Reading[d] : Taken(d, sels)}]
<1>1. ASSUME NEW d, NEW sels, NEW text, NEW size, NEW deep,
             Reads(d, sels, text, size, deep), Takes(toks, L, text, size, deep, sels)
      PROVE  sels \in DOMAIN Reading[d] /\ Taken(d, sels)
  BY <1>1, Zenon DEF Reads
<1> HIDE DEF Taken
<1>2. ASSUME NEW d \in 1..Levels, DOMAIN Reading[d - 1] \subseteq G[d - 1]
      PROVE  /\ <<>> \in G[d]
             /\ \A f \in FieldsAt(d), rest \in DOMAIN Reading[d] : rest \in G[d] => <<f>> \o rest \in G[d]
  <2>1. d \in 0..Levels /\ d - 1 \in 0..Levels
    BY LimitsAre
  <2>2. <<>> \in G[d]
    <3>1. Takes(toks, L, <<Closing>>, 0, 1, <<>>)
      BY TakesNone
    <3>2. <<>> \in DOMAIN Reading[d] /\ Taken(d, <<>>)
      BY <1>1, <3>1, ReadsNone
    <3> QED BY <2>1, <3>2
  <2>3. ASSUME NEW f \in FieldsAt(d), NEW rest \in DOMAIN Reading[d], rest \in G[d]
        PROVE  <<f>> \o rest \in G[d]
    <3> DEFINE w == f.words
               sub == f.sub
               text == Reading[d][rest].text
               size == Reading[d][rest].size
               deep == Reading[d][rest].deep
               list == Listed(w, sub, rest)
    <3>1. Takes(toks, L, text, size, deep, rest)
      BY <2>1, <2>3 DEF Taken
    <3>2. Reads(d, rest, text, size, deep)
      BY <2>1, ReadsSome
    <3>3. f = [words |-> w, sub |-> sub] /\ w \in Fields /\ (sub # Leaf => sub \in DOMAIN Reading[d - 1])
      BY DEF FieldsAt
    <3>4. list = <<f>> \o rest
      BY <3>3, Zenon DEF Listed
    <3> HIDE DEF text, size, deep
    <3>5. text \in Seq(Tokens) /\ text # <<>> /\ text[1] \in Names \cup {Closing}
          /\ size \in Nat /\ deep \in Nat \ {0}
      BY <2>1, <3>2, ReadsTyped
    <3> HIDE DEF w, sub, list
    <3>6. CASE sub = Leaf
      <4>1. Takes(toks, L, w \o text, size + 1, deep, <<[words |-> w, sub |-> Leaf]>> \o rest)
        BY <3>1, <3>3, <3>5, TakesLeaf
      <4>2. Takes(toks, L, w \o text, size + 1, deep, list)
        BY <3>6, <4>1, Zenon DEF Listed, list
      <4>3. Reads(d, list, w \o text, size + 1, deep)
        BY <3>2, <3>3, <3>6, ReadsLeaf DEF list
      <4>4. list \in DOMAIN Reading[d] /\ Taken(d, list)
        BY <1>1, <4>2, <4>3
      <4> QED BY <2>1, <3>4, <4>4
    <3>7. CASE sub # Leaf
      <4> DEFINE under == Reading[d - 1][sub].text
                 most == Reading[d - 1][sub].size
                 far == Reading[d - 1][sub].deep
      <4>1. Takes(toks, L, under, most, far, sub)
        BY <1>2, <2>1, <3>3, <3>7 DEF Taken
      <4>2. Reads(d - 1, sub, under, most, far)
        BY <2>1, <3>3, <3>7, ReadsSome
      <4> HIDE DEF under, most, far
      <4>3. under \in Seq(Tokens) /\ under # <<>> /\ most \in Nat /\ far \in Nat \ {0}
        BY <2>1, <4>2, ReadsTyped
      <4> DEFINE all == w \o (<<Opening>> \o (under \o text))
                 total == size + 1 + most
                 depth == Larger(deep, far + 1)
      <4>4. Takes(toks, L, all, total, depth, <<[words |-> w, sub |-> sub]>> \o rest)
        BY <3>1, <3>3, <3>5, <4>1, <4>3, TakesSet
      <4>5. Reads(d, list, all, total, depth)
        BY <3>2, <3>3, <4>2, ReadsSet DEF list
      <4> HIDE DEF all, total, depth
      <4>6. Takes(toks, L, all, total, depth, list)
        BY <4>4, Zenon DEF Listed, list
      <4>7. list \in DOMAIN Reading[d] /\ Taken(d, list)
        BY <1>1, <4>5, <4>6
      <4> QED BY <2>1, <3>4, <4>7
    <3> QED BY <3>6, <3>7
  <2> QED BY <2>2, <2>3
<1> HIDE DEF G
<1>3. \A d \in 0..Levels : DOMAIN Reading[d] \subseteq G[d]
  BY <1>2, LevelInduction
<1>4. \A d \in 0..Levels : \A sels \in DOMAIN Reading[d] : Taken(d, sels)
  BY <1>3 DEF G
<1> QED BY <1>4 DEF Taken

-----------------------------------------------------------------------------
(* What is taken is written.                                                  *)

LEMMA LoopGoes ==
  ASSUME NEW toks \in Seq(Tokens), NEW L, Loops(toks, L), NEW x \in Spots(toks), Live(toks, x),
         L[x] # Fail, peek(toks, x.at) # Closing,
         NEW e, e = FieldEnd(toks, x.at), NEW w, w = SubSeq(toks, x.at, e - 1)
  PROVE  /\ x.at \in 1..Len(toks) /\ e \in (x.at + 1)..(Len(toks) + 1)
         /\ w \in Fields /\ Stands(toks, x.at, w) /\ e = x.at + Len(w)
         /\ x.seen < MaxSelections /\ Nested(toks, L, x) # Fail /\ After(toks, L, x) # Fail
         /\ L[x] = [at |-> After(toks, L, x).at, seen |-> After(toks, L, x).seen,
                    sels |-> Listed(w, Nested(toks, L, x).sels, After(toks, L, x).sels)]
<1> DEFINE p == x.at
           n == Len(toks)
           c == x.seen
<1>1. L[x] = Loop(toks, L, x)
  BY DEF Loops
<1>2. n \in Nat /\ p \in 1..(n + 1) /\ p \in Nat \ {0} /\ c \in Nat /\ MaxSelections \in Nat
  BY SpotTyped, LimitsAre
<1>3. peek(toks, p) # "}"
  BY Zenon DEF Closing
<1>4. ~ Refuses(toks, L, x)
  BY <1>1, <1>3, LoopIs
<1>5. /\ peek(toks, p) \in Names /\ ~ (c >= MaxSelections) /\ e # 0
      /\ Nested(toks, L, x) # Fail /\ After(toks, L, x) # Fail
  BY <1>4 DEF Refuses
<1>6. Loop(toks, L, x) = [at |-> After(toks, L, x).at, seen |-> After(toks, L, x).seen,
                          sels |-> <<Here(toks, L, x)>> \o After(toks, L, x).sels]
  BY <1>3, <1>4, LoopIs
<1>7. Here(toks, L, x) = [words |-> w, sub |-> Nested(toks, L, x).sels]
  BY DEF Here
<1>8. p \in 1..n /\ toks[p] \in Names
  <2>1. peek(toks, p) \in Tokens
    BY <1>5, Zenon DEF Names, Tokens
  <2>2. p \in Int
    BY <1>2
  <2> HIDE DEF p
  <2> QED BY <1>5, <2>1, <2>2, PeekIn
<1> HIDE DEF c
<1>9. c < MaxSelections
  BY <1>2, <1>5
<1>10. e \in (p + 1)..(n + 1) /\ w \in Fields /\ Len(w) = e - p
  <2>1. FieldEnd(toks, p) # 0
    BY <1>5
  <2> QED BY <1>8, <2>1, FieldRead
<1>11. Stands(toks, p, w)
  <2> HIDE DEF p, n
  <2>1. p \in 1..(n + 1) /\ e \in p..(n + 1)
    BY <1>2, <1>10
  <2> QED BY <2>1, StandsSub DEF n, p
<1> HIDE DEF p
<1>12. e = p + Len(w)
  <2> HIDE DEF n
  <2>1. e \in (p + 1)..(n + 1)
    BY <1>10
  <2>2. e \in Int
    BY <1>2, <2>1
  <2>3. Len(w) = e - p
    BY <1>10
  <2>4. p \in Int
    BY <1>2
  <2> DEFINE m == Len(w)
  <2>5. m = e - p
    BY <2>3
  <2> HIDE DEF m
  <2>6. e = p + m
    BY <2>2, <2>4, <2>5
  <2> QED BY <2>6 DEF m
<1> QED BY <1>1, <1>5, <1>6, <1>7, <1>8, <1>9, <1>10, <1>11, <1>12 DEF Listed, p, c

\* What the loop gives at x was written there, on the levels and with the fields left.
Came(toks, L, x) ==
  Live(toks, x) /\ L[x] # Fail =>
    \E text, size, deep :
      /\ Reads(MaxDepth - x.depth + 1, L[x].sels, text, size, deep)
      /\ Stands(toks, x.at, text) /\ L[x].at = x.at + Len(text) /\ L[x].seen = x.seen + size
      /\ deep <= MaxDepth - x.depth + 1 /\ L[x].seen <= MaxSelections

LEMMA CameStep ==
  ASSUME NEW toks \in Seq(Tokens), NEW L, Loops(toks, L), NEW x \in Spots(toks),
         \A y \in Spots(toks) : y.at > x.at => Came(toks, L, y)
  PROVE  Came(toks, L, x)
<1> SUFFICES ASSUME Live(toks, x), L[x] # Fail
             PROVE  \E text, size, deep :
                      /\ Reads(MaxDepth - x.depth + 1, L[x].sels, text, size, deep)
                      /\ Stands(toks, x.at, text) /\ L[x].at = x.at + Len(text) /\ L[x].seen = x.seen + size
                      /\ deep <= MaxDepth - x.depth + 1 /\ L[x].seen <= MaxSelections
  BY DEF Came
<1> DEFINE p == x.at
           n == Len(toks)
           h == x.depth
           c == x.seen
           d == MaxDepth - h + 1
<1>1. /\ n \in Nat /\ p \in 1..(n + 1) /\ p \in Nat \ {0} /\ h \in Nat /\ c \in Nat
      /\ h \in 1..MaxDepth /\ c <= MaxSelections /\ MaxSelections \in Nat /\ MaxDepth \in Nat
      /\ MaxDepth <= Levels /\ Levels \in Nat
  BY SpotTyped, LimitsAre DEF Live
<1> HIDE DEF p, n, h, c
<1>2. d \in 1..Levels /\ d \in Nat \ {0}
  BY <1>1
<1>3. CASE peek(toks, p) = Closing
  <2>1. L[x] = [at |-> p + 1, seen |-> c, sels |-> <<>>]
    BY <1>3, LoopIs, Zenon DEF Loops, Closing, p, c
  <2>2. L[x].at = p + 1 /\ L[x].seen = c /\ L[x].sels = <<>>
    BY <2>1
  <2>3. Closing \in Tokens
    BY Zenon DEF Closing, Tokens
  <2>4. Len(<<Closing>>) = 1
    BY <2>3, OneToken
  <2>5. Stands(toks, p, <<Closing>>)
    BY <1>1, <1>3, <2>3, StandsOne
  <2>6. Reads(d, <<>>, <<Closing>>, 0, 1)
    BY <1>2, ReadsNone
  <2>7. c = c + 0 /\ 1 <= d
    BY <1>1, <1>2
  <2> HIDE DEF d
  <2>8. L[x].at = p + Len(<<Closing>>) /\ L[x].seen = c + 0 /\ L[x].seen <= MaxSelections
    BY <1>1, <2>2, <2>4, <2>7
  <2>9. Reads(d, L[x].sels, <<Closing>>, 0, 1)
    BY <2>2, <2>6
  <2> QED BY <2>5, <2>7, <2>8, <2>9, Zenon DEF p, c, d, h
<1>4. CASE peek(toks, p) # Closing
  <2> DEFINE e == FieldEnd(toks, x.at)
             w == SubSeq(toks, x.at, e - 1)
             b == Nested(toks, L, x).at
             s == Nested(toks, L, x).seen
             t == Nested(toks, L, x).sels
             y == [at |-> b, depth |-> h, seen |-> s]
  <2>1. /\ p \in 1..n /\ e \in (p + 1)..(n + 1)
        /\ w \in Fields /\ Stands(toks, p, w) /\ e = p + Len(w)
        /\ c < MaxSelections /\ Nested(toks, L, x) # Fail /\ After(toks, L, x) # Fail
        /\ L[x] = [at |-> After(toks, L, x).at, seen |-> After(toks, L, x).seen,
                   sels |-> Listed(w, t, After(toks, L, x).sels)]
    BY <1>4, LoopGoes DEF p, n, c
  <2>2. After(toks, L, x) = L[y]
    BY DEF After, h
  <2>3. y.at = b /\ y.depth = h /\ y.seen = s
    OBVIOUS
  <2>4. L[x].at = L[y].at /\ L[x].seen = L[y].seen /\ L[x].sels = Listed(w, t, L[y].sels) /\ L[y] # Fail
    BY <2>1, <2>2
  <2> HIDE DEF e, w, b, s, t, y
  <2>5. w \in Seq(Tokens) /\ Len(w) \in Nat \ {0} /\ e \in Nat \ {0} /\ e > p
    <3>1. w \in Seq(Tokens) /\ Len(w) \in Nat \ {0}
      BY <2>1, WordsAre
    <3> QED BY <1>1, <2>1, <3>1
  \* The fields after it.
  <2>6. ASSUME b \in 1..(n + 1), b > p, s \in Nat, s <= MaxSelections
        PROVE  \E text, size, deep :
                 /\ Reads(d, L[y].sels, text, size, deep)
                 /\ Stands(toks, b, text) /\ L[x].at = b + Len(text) /\ L[x].seen = s + size
                 /\ deep <= d /\ L[x].seen <= MaxSelections
    <3>1. y \in Spots(toks)
      BY <1>1, <2>6, SpotIs DEF y, n
    <3>2. Live(toks, y)
      BY <1>1, <2>3, <2>6, <3>1 DEF Live
    <3>3. Came(toks, L, y)
      BY <2>3, <2>6, <3>1 DEF p
    <3>4. \E text, size, deep :
            /\ Reads(MaxDepth - y.depth + 1, L[y].sels, text, size, deep)
            /\ Stands(toks, y.at, text) /\ L[y].at = y.at + Len(text) /\ L[y].seen = y.seen + size
            /\ deep <= MaxDepth - y.depth + 1 /\ L[y].seen <= MaxSelections
      BY <2>4, <3>2, <3>3 DEF Came
    <3> QED BY <2>3, <2>4, <3>4
  <2> HIDE DEF d
  <2>7. CASE peek(toks, e) # Opening
    <3>1. Nested(toks, L, x) = [at |-> e, seen |-> c + 1, sels |-> Leaf]
      BY <2>7, NestedIs, Zenon DEF e, c, Opening
    <3>2. b = e /\ s = c + 1 /\ t = Leaf
      BY <3>1 DEF b, s, t
    <3>3. b \in 1..(n + 1) /\ b > p /\ s \in Nat /\ s <= MaxSelections
      BY <1>1, <2>1, <2>5, <3>2
    <3>4. PICK text, size, deep :
            /\ Reads(d, L[y].sels, text, size, deep)
            /\ Stands(toks, b, text) /\ L[x].at = b + Len(text) /\ L[x].seen = s + size
            /\ deep <= d /\ L[x].seen <= MaxSelections
      BY <2>6, <3>3
    <3>5. text \in Seq(Tokens) /\ size \in Nat /\ Len(text) \in Nat
      <4>1. d \in 0..Levels
        BY <1>1, <1>2
      <4>2. text \in Seq(Tokens) /\ size \in Nat
        BY <3>4, <4>1, ReadsTyped
      <4> QED BY <4>2
    <3> DEFINE all == w \o text
    <3>6. Reads(d, L[x].sels, all, size + 1, deep)
      <4>1. Reads(d, Listed(w, Leaf, L[y].sels), all, size + 1, deep)
        BY <1>2, <2>1, <3>4, ReadsLeaf
      <4> HIDE DEF all
      <4> QED BY <2>4, <3>2, <4>1
    <3>7. Stands(toks, p, all)
      <4>1. Stands(toks, p + Len(w), text)
        BY <2>1, <3>2, <3>4
      <4> QED BY <1>1, <2>1, <2>5, <3>5, <4>1, StandsSplit
    <3>8. Len(all) = Len(w) + Len(text)
      BY <2>5, <3>5, Joined
    <3> HIDE DEF all
    <3>9. L[x].at = p + Len(all) /\ L[x].seen = c + (size + 1)
      BY <1>1, <2>1, <2>5, <3>2, <3>4, <3>5, <3>8
    <3>10. deep <= d /\ L[x].seen <= MaxSelections
      BY <3>4
    <3> QED BY <3>6, <3>7, <3>9, <3>10, Zenon DEF p, c, d, h
  <2>8. CASE peek(toks, e) = Opening
    <3> DEFINE z == Next1(toks, x)
    <3>1. Nested(toks, L, x) = IF h + 1 > MaxDepth THEN Fail ELSE L[z]
      BY <2>8, NestedIs, Zenon DEF e, h, Opening
    <3>2. z = [at |-> e + 1, depth |-> h + 1, seen |-> c + 1]
      BY DEF Next1, e, h, c
    <3> HIDE DEF z
    <3>3. z.at = e + 1 /\ z.depth = h + 1 /\ z.seen = c + 1
      BY <3>2
    <3>4. Nested(toks, L, x) = L[z] /\ L[z] # Fail /\ ~ (h + 1 > MaxDepth)
      BY <2>1, <3>1
    <3>5. h + 1 \in Nat /\ h + 1 \in 1..MaxDepth /\ c + 1 \in Nat /\ c + 1 <= MaxSelections
          /\ MaxDepth - (h + 1) + 1 = d - 1
      BY <1>1, <2>1, <3>4 DEF d
    <3>6. Opening \in Tokens
      BY Zenon DEF Opening, Tokens
    <3>7. e \in 1..n
      <4>1. e \in Int
        BY <2>5
      <4> QED BY <2>8, <3>6, <4>1, PeekIn DEF n
    <3>8. z \in Spots(toks) /\ Live(toks, z) /\ z.at > p
      <4>1. e + 1 \in 1..(n + 1) /\ e + 1 > p
        BY <1>1, <2>5, <3>7
      <4>2. z \in Spots(toks)
        BY <3>2, <3>5, <4>1, SpotIs DEF n
      <4> QED BY <3>3, <3>5, <4>1, <4>2 DEF Live
    <3>9. Came(toks, L, z)
      BY <3>8 DEF p
    <3>10. \E under, most, far :
            /\ Reads(MaxDepth - z.depth + 1, L[z].sels, under, most, far)
            /\ Stands(toks, z.at, under) /\ L[z].at = z.at + Len(under) /\ L[z].seen = z.seen + most
            /\ far <= MaxDepth - z.depth + 1 /\ L[z].seen <= MaxSelections
      BY <3>4, <3>8, <3>9 DEF Came
    <3>11. PICK under, most, far :
             /\ Reads(d - 1, t, under, most, far)
             /\ Stands(toks, e + 1, under) /\ b = (e + 1) + Len(under) /\ s = (c + 1) + most
             /\ far <= d - 1 /\ s <= MaxSelections
      BY <3>3, <3>4, <3>5, <3>10 DEF b, s, t
    <3>12. under \in Seq(Tokens) /\ under # <<>> /\ most \in Nat /\ far \in Nat /\ Len(under) \in Nat
      <4>1. d - 1 \in 0..Levels
        BY <1>1, <1>2
      <4>2. under \in Seq(Tokens) /\ under # <<>> /\ most \in Nat /\ far \in Nat
        BY <3>11, <4>1, ReadsTyped
      <4> QED BY <4>2
    <3>13. b \in 1..(n + 1) /\ b > p /\ s \in Nat /\ s <= MaxSelections /\ b \in Nat \ {0}
      <4>1. (e + 1) + Len(under) <= n + 1
        BY <3>11 DEF Stands, n
      <4> QED BY <1>1, <2>5, <3>11, <3>12, <4>1
    <3>14. PICK text, size, deep :
            /\ Reads(d, L[y].sels, text, size, deep)
            /\ Stands(toks, b, text) /\ L[x].at = b + Len(text) /\ L[x].seen = s + size
            /\ deep <= d /\ L[x].seen <= MaxSelections
      BY <2>6, <3>13
    <3>15. text \in Seq(Tokens) /\ size \in Nat /\ deep \in Nat /\ Len(text) \in Nat
      <4>1. d \in 0..Levels
        BY <1>1, <1>2
      <4>2. text \in Seq(Tokens) /\ size \in Nat /\ deep \in Nat
        BY <3>14, <4>1, ReadsTyped
      <4> QED BY <4>2
    <3> DEFINE inner == under \o text
               opened == <<Opening>> \o inner
               all == w \o opened
               total == size + 1 + most
               depth == Larger(deep, far + 1)
    <3>16. Reads(d, L[x].sels, all, total, depth)
      <4>1. Reads(d, Listed(w, t, L[y].sels), all, total, depth)
        BY <1>2, <2>1, <3>11, <3>14, ReadsSet
      <4> HIDE DEF all, total, depth
      <4> QED BY <2>4, <4>1
    <3>17. inner \in Seq(Tokens) /\ Len(inner) = Len(under) + Len(text)
      BY <3>12, <3>15, Joined
    <3>18. Stands(toks, e + 1, inner)
      <4>1. e + 1 \in Nat \ {0} /\ Stands(toks, (e + 1) + Len(under), text)
        BY <2>5, <3>11, <3>14
      <4> QED BY <3>11, <3>12, <3>15, <4>1, StandsSplit
    <3> HIDE DEF inner
    <3>19. <<Opening>> \in Seq(Tokens) /\ Len(<<Opening>>) = 1
      BY <3>6, OneToken
    <3>20. opened \in Seq(Tokens) /\ Len(opened) = 1 + Len(inner)
      BY <3>17, <3>19, Joined
    <3>21. Stands(toks, e, opened)
      <4>1. Stands(toks, e, <<Opening>>)
        BY <2>5, <2>8, <3>6, StandsOne
      <4> QED BY <2>5, <3>17, <3>18, <3>19, <4>1, StandsSplit
    <3> HIDE DEF opened
    <3>22. Stands(toks, p, all)
      <4>1. Stands(toks, p + Len(w), opened)
        BY <2>1, <3>21
      <4> QED BY <1>1, <2>1, <2>5, <3>20, <4>1, StandsSplit
    <3>23. Len(all) = Len(w) + Len(opened)
      BY <2>5, <3>20, Joined
    <3> HIDE DEF all
    <3>24. L[x].at = p + Len(all)
      BY <1>1, <2>1, <2>5, <3>11, <3>12, <3>14, <3>15, <3>17, <3>20, <3>23
    <3>25. L[x].seen = c + total
      BY <1>1, <3>11, <3>12, <3>14, <3>15
    <3>26. depth <= d /\ L[x].seen <= MaxSelections
      BY <1>2, <3>11, <3>12, <3>14, <3>15 DEF Larger
    <3> HIDE DEF total, depth
    <3> QED BY <3>16, <3>22, <3>24, <3>25, <3>26, Zenon DEF p, c, d, h
  <2> QED BY <2>7, <2>8
<1> QED BY <1>3, <1>4
LEMMA CameAll ==
  ASSUME NEW toks \in Seq(Tokens), NEW L, Loops(toks, L)
  PROVE  \A x \in Spots(toks) : Came(toks, L, x)
<1> DEFINE n == Len(toks)
           Not == {k \in Nat : \E x \in Spots(toks) : x.at + k = n + 1 /\ ~ Came(toks, L, x)}
<1>1. Not = {}
  <2> SUFFICES ASSUME Not # {} PROVE FALSE
    OBVIOUS
  <2>1. PICK k \in Not : \A j \in Not : k <= j
    <3>1. Not \in SUBSET Nat
      OBVIOUS
    <3> HIDE DEF Not
    <3> QED BY <3>1, LeastNat
  <2>2. PICK x \in Spots(toks) : x.at + k = n + 1 /\ ~ Came(toks, L, x)
    BY <2>1
  <2>3. ASSUME NEW y \in Spots(toks), y.at > x.at PROVE Came(toks, L, y)
    <3> SUFFICES ASSUME ~ Came(toks, L, y) PROVE FALSE
      OBVIOUS
    <3> DEFINE p == x.at
               q == y.at
               j == n + 1 - q
    <3>1. n \in Nat /\ p \in 1..(n + 1) /\ q \in 1..(n + 1) /\ q > p /\ p + k = n + 1 /\ k \in Nat
      BY <2>1, <2>2, <2>3, SpotTyped
    <3> HIDE DEF p, q, n
    <3>2. j \in Nat /\ q + j = n + 1 /\ ~ (k <= j)
      BY <3>1
    <3> HIDE DEF j
    <3>3. j \in Not
      BY <3>2 DEF q
    <3> QED BY <2>1, <3>2, <3>3
  <2> QED BY <2>2, <2>3, CameStep
<1>2. ASSUME NEW x \in Spots(toks), ~ Came(toks, L, x) PROVE FALSE
  <2> DEFINE p == x.at
             k == n + 1 - p
  <2>1. n \in Nat /\ p \in 1..(n + 1)
    BY SpotTyped
  <2> HIDE DEF p, n
  <2>2. k \in Nat /\ p + k = n + 1
    BY <2>1
  <2> HIDE DEF k
  <2>3. k \in Not
    BY <1>2, <2>2 DEF p
  <2> QED BY <1>1, <2>3
<1> QED BY <1>2

-----------------------------------------------------------------------------
(* The whole query.                                                           *)

Keyword == "query"
Begins(toks) == IF peek(toks, 1) # Keyword THEN 1 ELSE IF peek(toks, 2) \in Names THEN 3 ELSE 2
Root(toks) == [at |-> Begins(toks) + 1, depth |-> 1, seen |-> 0]

LEMMA ParseRoot ==
  ASSUME NEW toks \in Seq(Tokens), NEW L
  PROVE  ParseWith(toks, L) =
           IF \/ peek(toks, Begins(toks)) # Opening \/ L[Root(toks)] = Fail
              \/ L[Root(toks)].at # Len(toks) + 1 \/ Len(L[Root(toks)].sels) > MaxRoots
           THEN Fail ELSE L[Root(toks)]
<1> DEFINE first == IF peek(toks, 1) # "query" THEN 1 ELSE IF peek(toks, 2) \in Names THEN 3 ELSE 2
           x == [at |-> first, depth |-> 1, seen |-> 0]
           set == parseSelectionSet(toks, L, x)
<1>1. ParseWith(toks, L) = IF set = Fail \/ set.at # Len(toks) + 1 \/ Len(set.sels) > MaxRoots THEN Fail ELSE set
  BY Zenon DEF ParseWith
<1>2. first = Begins(toks)
  BY Zenon DEF Begins, Keyword
<1> HIDE DEF first
<1>3. x.at = Begins(toks) /\ x.depth = 1 /\ [x EXCEPT !.at = @ + 1] = Root(toks)
  BY <1>2 DEF Root
<1>4. ~ (x.depth > MaxDepth)
  BY <1>3, LimitsAre
<1> HIDE DEF x
<1>5. set = IF x.depth > MaxDepth \/ peek(toks, x.at) # "{" THEN Fail ELSE L[[x EXCEPT !.at = @ + 1]]
  BY Zenon DEF parseSelectionSet
<1>6. set = IF peek(toks, Begins(toks)) # Opening THEN Fail ELSE L[Root(toks)]
  BY <1>3, <1>4, <1>5, Zenon DEF Opening
<1> HIDE DEF set
<1> QED BY <1>1, <1>6

LEMMA KeywordIs == Keyword \in Tokens /\ Opening \in Tokens /\ Opening # Keyword /\ Opening \notin Names /\ Names \subseteq Tokens
<1>1. Keyword \in Tokens /\ Opening \in Tokens
  BY Zenon DEF Tokens, Keyword, Opening
<1>2. Opening # Keyword
  BY Zenon DEF Keyword, Opening
<1>3. Opening \notin Names
  BY Zenon DEF Names, Opening
<1>4. Names \subseteq Tokens
  BY Zenon DEF Names, Tokens
<1> QED BY <1>1, <1>2, <1>3, <1>4, Zenon

LEMMA StandsTwo ==
  ASSUME NEW toks \in Seq(Tokens), NEW k \in Tokens, NEW m \in Tokens
  PROVE  Stands(toks, 1, <<k>> \o <<m>>) <=> peek(toks, 1) = k /\ peek(toks, 2) = m
<1> DEFINE u == <<k>>
           v == <<m>>
<1>1. u \in Seq(Tokens) /\ v \in Seq(Tokens) /\ 1 + Len(u) = 2
  OBVIOUS
<1>2. Stands(toks, 1, u) <=> peek(toks, 1) = k
  BY StandsOne
<1>3. Stands(toks, 2, v) <=> peek(toks, 2) = m
  BY StandsOne
<1> HIDE DEF u, v
<1>4. Stands(toks, 1, u \o v) <=> Stands(toks, 1, u) /\ Stands(toks, 1 + Len(u), v)
  BY <1>1, StandsSplit
<1> QED BY <1>1, <1>2, <1>3, <1>4 DEF u, v

LEMMA HeadsAre ==
  ASSUME NEW head
  PROVE  head \in Heads <=> \/ head = <<>> \/ head = <<Keyword>>
                            \/ \E m \in Names : head = <<Keyword>> \o <<m>>
<1>1. \A m \in Names : <<Keyword>> \o <<m>> = <<Keyword, m>>
  <2>1. ASSUME NEW k \in Tokens, NEW m \in Tokens PROVE <<k>> \o <<m>> = <<k, m>>
    <3>1. <<k>> \o <<m>> \in Seq(Tokens) /\ <<k, m>> \in Seq(Tokens)
      OBVIOUS
    <3>2. Len(<<k>> \o <<m>>) = 2 /\ (<<k>> \o <<m>>)[1] = k /\ (<<k>> \o <<m>>)[2] = m
      OBVIOUS
    <3>3. Len(<<k, m>>) = 2 /\ <<k, m>>[1] = k /\ <<k, m>>[2] = m
      OBVIOUS
    <3> DEFINE u == <<k>> \o <<m>>
               v == <<k, m>>
    <3> HIDE DEF u, v
    <3>4. \A i \in 1..2 : u[i] = v[i]
      BY <3>2, <3>3 DEF u, v
    <3>5. u \in Seq(Tokens) /\ v \in Seq(Tokens) /\ Len(u) = 2 /\ Len(v) = 2
      BY <3>1, <3>2, <3>3 DEF u, v
    <3>6. u = v
      BY <3>4, <3>5
    <3> QED BY <3>6 DEF u, v
  <2> QED BY <2>1, KeywordIs
<1>2. head \in Heads <=> head \in {<<>>, <<Keyword>>} \cup {<<Keyword, m>> : m \in Names}
  BY Zenon DEF Heads, Keyword
<1> QED BY <1>1, <1>2

\* Where the set begins, by the head before it.
LEMMA HeadStands ==
  ASSUME NEW toks \in Seq(Tokens), NEW head \in Heads, Stands(toks, 1, head), peek(toks, Len(head) + 1) = Opening
  PROVE  head \in Seq(Tokens) /\ Len(head) \in Nat /\ Begins(toks) = Len(head) + 1
<1>1. CASE head = <<>>
  BY <1>1, KeywordIs DEF Begins
<1>2. CASE head = <<Keyword>>
  <2>1. head \in Seq(Tokens) /\ Len(head) = 1
    BY <1>2, KeywordIs
  <2>2. peek(toks, 1) = Keyword
    BY <1>2, KeywordIs, StandsOne
  <2>3. peek(toks, 2) = Opening
    BY <2>1
  <2> QED BY <2>1, <2>2, <2>3, KeywordIs DEF Begins
<1>3. CASE \E m \in Names : head = <<Keyword>> \o <<m>>
  <2>1. PICK m \in Names : head = <<Keyword>> \o <<m>>
    BY <1>3
  <2>2. m \in Tokens /\ Keyword \in Tokens
    BY KeywordIs
  <2>3. head \in Seq(Tokens) /\ Len(head) = 2
    BY <2>1, <2>2
  <2>4. peek(toks, 1) = Keyword /\ peek(toks, 2) = m
    BY <2>1, <2>2, StandsTwo
  <2> QED BY <2>3, <2>4 DEF Begins
<1> QED BY <1>1, <1>2, <1>3, HeadsAre

LEMMA HeadFound ==
  ASSUME NEW toks \in Seq(Tokens), peek(toks, Begins(toks)) = Opening
  PROVE  \E head \in Heads : Stands(toks, 1, head) /\ peek(toks, Len(head) + 1) = Opening
<1>1. CASE peek(toks, 1) # Keyword
  <2>1. Begins(toks) = 1 /\ Len(<<>>) = 0 /\ <<>> \in Seq(Tokens)
    BY <1>1 DEF Begins
  <2>2. Stands(toks, 1, <<>>)
    BY DEF Stands
  <2>3. <<>> \in Heads
    BY HeadsAre
  <2> QED BY <2>1, <2>2, <2>3
<1>2. CASE peek(toks, 1) = Keyword /\ peek(toks, 2) \notin Names
  <2>1. Begins(toks) = 2 /\ Len(<<Keyword>>) + 1 = 2
    BY <1>2 DEF Begins
  <2>2. Stands(toks, 1, <<Keyword>>)
    BY <1>2, KeywordIs, StandsOne
  <2>3. <<Keyword>> \in Heads
    BY HeadsAre
  <2> QED BY <2>1, <2>2, <2>3
<1>3. CASE peek(toks, 1) = Keyword /\ peek(toks, 2) \in Names
  <2> DEFINE m == peek(toks, 2)
             head == <<Keyword>> \o <<m>>
  <2>1. m \in Tokens /\ Keyword \in Tokens
    BY <1>3, KeywordIs
  <2>2. Len(head) + 1 = 3 /\ Begins(toks) = 3
    BY <1>3 DEF Begins
  <2> HIDE DEF m
  <2>4. Stands(toks, 1, head)
    BY <1>3, <2>1, StandsTwo DEF m
  <2>5. head \in Heads
    BY <1>3, HeadsAre DEF m
  <2> QED BY <2>2, <2>4, <2>5
<1> QED BY <1>1, <1>2, <1>3
\* A string of a head, the brace and the rest.
LEMMA WholeStands ==
  ASSUME NEW toks \in Seq(Tokens), NEW head \in Seq(Tokens), NEW text \in Seq(Tokens)
  PROVE  toks = head \o (<<Opening>> \o text)
         <=> /\ Stands(toks, 1, head) /\ peek(toks, Len(head) + 1) = Opening
             /\ Stands(toks, Len(head) + 2, text) /\ Len(head) + 2 + Len(text) = Len(toks) + 1
<1> DEFINE brace == <<Opening>>
           rest == brace \o text
           all == head \o rest
           m == Len(head)
           k == Len(text)
<1>1. Opening \in Tokens
  BY KeywordIs
<1>2. brace \in Seq(Tokens) /\ Len(brace) = 1
  BY <1>1
<1>3. \A q \in Nat \ {0} : Stands(toks, q, brace) <=> peek(toks, q) = Opening
  BY <1>1, StandsOne
<1> HIDE DEF brace
<1>4. rest \in Seq(Tokens) /\ Len(rest) = 1 + k /\ k \in Nat
  BY <1>2, Joined
<1>5. \A q \in Nat \ {0} : Stands(toks, q, rest) <=> Stands(toks, q, brace) /\ Stands(toks, q + 1, text)
  BY <1>2, StandsSplit
<1> HIDE DEF rest
<1>6. all \in Seq(Tokens) /\ Len(all) = m + (1 + k) /\ m \in Nat
  BY <1>4, Joined
<1>7. Stands(toks, 1, all) <=> Stands(toks, 1, head) /\ Stands(toks, 1 + m, rest)
  BY <1>4, StandsSplit
<1> HIDE DEF m, k, all
<1>8. m + 1 \in Nat \ {0} /\ 1 + m = m + 1 /\ (m + 1) + 1 = m + 2
  BY <1>6
<1>9. Stands(toks, 1, all) <=> Stands(toks, 1, head) /\ peek(toks, m + 1) = Opening /\ Stands(toks, m + 2, text)
  BY <1>3, <1>5, <1>7, <1>8
<1>10. toks = all <=> Stands(toks, 1, all) /\ Len(all) = Len(toks)
  BY <1>6, StandsAll, StandsSame
<1>11. Len(all) = Len(toks) <=> m + 2 + k = Len(toks) + 1
  <2> DEFINE l == Len(all)
             n == Len(toks)
  <2>1. l = m + (1 + k) /\ m \in Nat /\ k \in Nat /\ n \in Nat
    BY <1>4, <1>6
  <2> HIDE DEF l, n
  <2>2. l = n <=> m + 2 + k = n + 1
    BY <2>1
  <2> QED BY <2>2 DEF l, n
<1> QED BY <1>9, <1>10, <1>11, Zenon DEF all, rest, brace, m, k

LEMMA RootLive ==
  ASSUME NEW toks \in Seq(Tokens), Begins(toks) \in 1..Len(toks)
  PROVE  Live(toks, Root(toks))
<1> DEFINE p == Begins(toks)
<1>1. Len(toks) \in Nat /\ MaxDepth \in Nat \ {0} /\ MaxSelections \in Nat
  BY LimitsAre
<1>2. Root(toks) = [at |-> p + 1, depth |-> 1, seen |-> 0]
  BY DEF Root
<1> HIDE DEF p
<1>3. p + 1 \in 1..(Len(toks) + 1) /\ 1 \in 1..MaxDepth /\ 0 <= MaxSelections
  BY <1>1 DEF p
<1>4. Root(toks) \in Spots(toks)
  BY <1>2, <1>3, SpotIs
<1>5. Root(toks).depth = 1 /\ Root(toks).seen = 0
  BY <1>2
<1> QED BY <1>3, <1>4, <1>5 DEF Live

LEMMA RootIs == ASSUME NEW toks PROVE Root(toks).at = Begins(toks) + 1 /\ Root(toks).depth = 1 /\ Root(toks).seen = 0
BY DEF Root

LEMMA HeadsTyped == Heads \subseteq Seq(Tokens)
<1>1. ASSUME NEW head \in Heads PROVE head \in Seq(Tokens)
  <2>1. CASE head = <<>>
    BY <2>1
  <2>3. CASE head = <<Keyword>>
    <3>1. <<Keyword>> \in Seq(Tokens)
      BY KeywordIs, OneToken
    <3> QED BY <2>3, <3>1
  <2>2. CASE \E m \in Names : head = <<Keyword>> \o <<m>>
    BY <2>2, KeywordIs
  <2> QED BY <2>1, <2>2, <2>3, HeadsAre
<1> QED BY <1>1

LEMMA ListsHave ==
  ASSUME NEW d \in 1..Levels, NEW sels \in DOMAIN Reading[d]
  PROVE  Len(sels) \in Nat
<1>1. DOMAIN Reading[d] = Seq(FieldsAt(d))
  BY LevelIs
<1> QED BY <1>1

\* What is written as a query is taken as it, within the limits.
LEMMA WrittenTaken ==
  ASSUME NEW q \in DOMAIN Reading[Levels], NEW head \in Heads
  PROVE  LET set == parse(Written(head, Levels, q))
         IN  (set # Fail <=> Within(Levels, q)) /\ (Within(Levels, q) => set.sels = q)
<1> DEFINE text == Reading[Levels][q].text
           size == Reading[Levels][q].size
           deep == Reading[Levels][q].deep
           toks == Written(head, Levels, q)
           x == Root(toks)
           m == Len(head)
           k == Len(text)
<1>1. Levels \in 0..Levels /\ Levels \in 1..Levels
  BY LimitsAre
<1>2. Reads(Levels, q, text, size, deep)
  BY <1>1, ReadsSome
<1>3. text \in Seq(Tokens) /\ text # <<>> /\ size \in Nat /\ deep \in Nat \ {0}
  BY <1>1, <1>2, ReadsTyped
<1>4. head \in Seq(Tokens)
  BY HeadsTyped
<1>5. toks = head \o (<<Opening>> \o text)
  BY Zenon DEF Written, Opening
<1>6. Within(Levels, q) <=> deep <= MaxDepth /\ size <= MaxSelections /\ Len(q) <= MaxRoots
  BY DEF Within
<1>7. Len(q) \in Nat /\ MaxRoots \in Nat
  BY <1>1, ListsHave, LimitsAre
<1>8. toks \in Seq(Tokens)
  BY <1>3, <1>4, <1>5, KeywordIs
<1>9. PICK L : Loops(toks, L) /\ parse(toks) = ParseWith(toks, L)
  <2> HIDE DEF toks
  <2> QED BY <1>8, ParseIs DEF Loops
<1>10. Takes(toks, L, text, size, deep, q)
  <2> HIDE DEF toks
  <2> QED BY <1>1, <1>8, <1>9, ReadsTaken
<1> HIDE DEF text, size, deep, toks
<1>11. /\ Stands(toks, 1, head) /\ peek(toks, m + 1) = Opening
       /\ Stands(toks, m + 2, text) /\ m + 2 + k = Len(toks) + 1
  BY <1>3, <1>4, <1>5, <1>8, WholeStands
<1>12. m \in Nat /\ Begins(toks) = m + 1
  BY <1>8, <1>11, HeadStands
<1>13. k \in Nat /\ Len(toks) \in Nat
  BY <1>3, <1>8
<1> HIDE DEF m, k
<1>14. x.at = m + 2 /\ x.depth = 1 /\ x.seen = 0
  <2>1. (m + 1) + 1 = m + 2
    BY <1>12
  <2> QED BY <1>12, <2>1, RootIs
<1>15. Begins(toks) \in 1..Len(toks)
  BY <1>11, <1>12, <1>13
<1>16. Live(toks, x) /\ x \in Spots(toks)
  BY <1>8, <1>15, RootLive DEF Live
<1>17. L[x] = Answer(x, text, size, deep, q)
  BY <1>10, <1>11, <1>14, <1>16 DEF Takes
<1>18. Spared(x, size, deep) <=> deep <= MaxDepth /\ size <= MaxSelections
  <2>1. 1 + deep - 1 = deep /\ 0 + size = size
    BY <1>3
  <2> QED BY <1>14, <2>1 DEF Spared
<1>19. parse(toks) = IF \/ L[x] = Fail \/ L[x].at # Len(toks) + 1 \/ Len(L[x].sels) > MaxRoots
                     THEN Fail ELSE L[x]
  BY <1>8, <1>9, <1>11, <1>12, ParseRoot DEF m
<1> HIDE DEF x
<1>20. CASE ~ Spared(x, size, deep)
  <2>1. parse(toks) = Fail
    BY <1>17, <1>19, <1>20 DEF Answer
  <2> QED BY <1>6, <1>18, <1>20, <2>1 DEF toks
<1>21. CASE Spared(x, size, deep)
  <2>1. L[x] = [at |-> x.at + k, seen |-> x.seen + size, sels |-> q]
    BY <1>17, <1>21 DEF Answer, k
  <2>2. x.at + k = Len(toks) + 1 /\ x.at + k \in Nat \ {0}
    BY <1>11, <1>12, <1>13, <1>14
  <2>3. L[x] # Fail
    BY <2>1, <2>2, FailApart
  <2>4. L[x].at = Len(toks) + 1 /\ L[x].sels = q
    BY <2>1, <2>2
  <2>5. parse(toks) = IF Len(q) > MaxRoots THEN Fail ELSE L[x]
    BY <1>19, <2>3, <2>4
  <2>6. Within(Levels, q) <=> ~ (Len(q) > MaxRoots)
    BY <1>6, <1>18, <1>21, <1>7
  <2> QED BY <2>3, <2>4, <2>5, <2>6 DEF toks
<1> QED BY <1>20, <1>21
\* What is taken is a query within the limits, as it is written.
LEMMA TakenWritten ==
  ASSUME NEW toks \in Seq(Tokens), parse(toks) # Fail
  PROVE  LET q == parse(toks).sels
         IN  /\ q \in DOMAIN Reading[MaxDepth] /\ Within(MaxDepth, q)
             /\ \E head \in Heads : toks = Written(head, MaxDepth, q)
<1> DEFINE q == parse(toks).sels
           text == Reading[MaxDepth][q].text
           x == Root(toks)
           n == Len(toks)
<1>1. PICK L : Loops(toks, L) /\ parse(toks) = ParseWith(toks, L)
  BY ParseIs DEF Loops
<1>2. /\ peek(toks, Begins(toks)) = Opening /\ L[x] # Fail /\ L[x].at = n + 1
      /\ ~ (Len(L[x].sels) > MaxRoots) /\ parse(toks) = L[x]
  BY <1>1, ParseRoot
<1>3. PICK head \in Heads : Stands(toks, 1, head) /\ peek(toks, Len(head) + 1) = Opening
  BY <1>2, HeadFound
<1> DEFINE m == Len(head)
<1>4. head \in Seq(Tokens) /\ m \in Nat /\ Begins(toks) = m + 1
  BY <1>3, HeadStands
<1>5. n \in Nat /\ MaxDepth \in 1..Levels /\ MaxDepth \in 0..Levels /\ MaxDepth \in Nat /\ MaxRoots \in Nat
  BY LimitsAre
<1>6. Begins(toks) \in 1..n
  <2>1. Opening \in Tokens /\ Begins(toks) \in Int
    BY KeywordIs DEF Begins
  <2> QED BY <1>2, <2>1, PeekIn
<1>7. Live(toks, x) /\ x \in Spots(toks)
  BY <1>6, RootLive DEF Live
<1>8. x.at = Begins(toks) + 1 /\ x.depth = 1 /\ x.seen = 0
  BY RootIs
<1> HIDE DEF x
<1>9. Came(toks, L, x)
  BY <1>1, <1>7, CameAll
<1>10. MaxDepth - 1 + 1 = MaxDepth
  BY <1>5
<1>11. \E v, size, deep :
         /\ Reads(MaxDepth - x.depth + 1, L[x].sels, v, size, deep)
         /\ Stands(toks, x.at, v) /\ L[x].at = x.at + Len(v) /\ L[x].seen = x.seen + size
         /\ deep <= MaxDepth - x.depth + 1 /\ L[x].seen <= MaxSelections
  BY <1>2, <1>7, <1>9 DEF Came
<1>12. PICK v, size, deep :
         /\ Reads(MaxDepth, q, v, size, deep)
         /\ Stands(toks, x.at, v) /\ n + 1 = x.at + Len(v) /\ L[x].seen = 0 + size
         /\ deep <= MaxDepth /\ L[x].seen <= MaxSelections
  BY <1>2, <1>8, <1>10, <1>11
<1>13. v \in Seq(Tokens) /\ size \in Nat /\ deep \in Nat
  BY <1>5, <1>12, ReadsTyped
<1>14. q \in DOMAIN Reading[MaxDepth] /\ text = v /\ Reading[MaxDepth][q].size = size /\ Reading[MaxDepth][q].deep = deep
  BY <1>12, Zenon DEF Reads
<1>15. Len(q) \in Nat
  BY <1>5, <1>14, ListsHave
<1>16. ~ (Len(q) > MaxRoots)
  BY <1>2
<1> HIDE DEF text, q
<1>17. Within(MaxDepth, q)
  <2>1. size <= MaxSelections
    BY <1>12, <1>13
  <2> QED BY <1>5, <1>12, <1>14, <1>15, <1>16, <2>1 DEF Within
<1>18. Stands(toks, m + 2, v) /\ m + 2 + Len(v) = n + 1
  <2>1. x.at = m + 2
    BY <1>4, <1>8
  <2> QED BY <1>12, <2>1
<1>19. toks = head \o (<<Opening>> \o v)
  BY <1>3, <1>4, <1>13, <1>18, WholeStands
<1>20. toks = Written(head, MaxDepth, q)
  BY <1>14, <1>19, Zenon DEF Written, Opening, text
<1> QED BY <1>14, <1>17, <1>20 DEF q

\* The parser takes every query within the limits as the tree it was written from and
\* no other string, for any queries, any strings of tokens and any limits on depth,
\* fields and roots (parse in graphql.js).
THEOREM ParserCorrect == ReadsSpec => []ParsesExactly
<1>1. ASSUME NEW q \in Queries, NEW head \in Heads
      PROVE  LET set == parse(Written(head, Levels, q))
             IN  (set # Fail <=> Within(Levels, q)) /\ (Within(Levels, q) => set.sels = q)
  BY WrittenTaken, ParserAssumption
<1>2. ASSUME NEW s \in Inputs, parse(s) # Fail
      PROVE  LET q == parse(s).sels
             IN  q \in DOMAIN Reading[MaxDepth] /\ Within(MaxDepth, q) /\ \E head \in Heads : s = Written(head, MaxDepth, q)
  <2>1. s \in Seq(Tokens)
    BY ParserAssumption
  <2> QED BY <1>2, <2>1, TakenWritten
<1>3. ParsesExactly
  BY <1>1, <1>2 DEF ParsesExactly
<1> QED BY <1>3, PTL

-----------------------------------------------------------------------------
(* The results.                                                              *)

\* Every table of the store keeps its type, so no counter passes below zero.
THEOREM StoreTypes == Spec => []TypeOK
BY StoreInv, PTL DEF IInv

\* _evict ends with the limits kept, for any limits and sizes.
THEOREM StoreBounded == Spec => []Bounded
BY StoreInv, PTL DEF IInv

\* _evict never reaches the newest block, even when that block alone is over the
\* byte budget, and minHeight never passes a block over.
THEOREM NewestSpared == Spec => []NewestKept
BY StoreInv, PTL DEF IInv

\* The store keeps its types, its limits and its newest block together.
THEOREM StoreCorrect == Spec => []StoreSound
BY StoreTypes, StoreBounded, NewestSpared, PTL DEF StoreSound
=============================================================================
