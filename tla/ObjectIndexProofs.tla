------------------------- MODULE ObjectIndexProofs -------------------------
(* The object index for any blocks, transactions and objects: no put, cascade *)
(* or rebuild leaves an orphan, no object is lost, and a row that was written *)
(* upward is current.                                                         *)
EXTENDS ObjectIndex, WellFoundedInduction, TLAPS

\* ObjectsListed needs NoOrphans: a row falls with its creator only when the
\* creator's block is put again, and the creator speaks of the row's object.
IInv == TypeOK /\ NoOrphans /\ ObjectsListed

-----------------------------------------------------------------------------
(* First and last transactions.                                              *)

LEMMA LeastHeight ==
  ASSUME NEW H \in SUBSET Heights, H # {}
  PROVE  \E h \in H : \A k \in H : h <= k
<1>1. H \in SUBSET Nat
  BY ObjectAssumption DEF Heights
<1>2. PICK h \in H : \A k \in H : ~ (<<k, h>> \in OpToRel(<, Nat))
  BY <1>1, WFMin, NatLessThanWellFounded
<1>3. \A k \in H : ~ (k < h)
  BY <1>1, <1>2 DEF OpToRel
<1> QED BY <1>1, <1>3

LEMMA GreatestHeight ==
  ASSUME NEW H \in SUBSET Heights, H # {}
  PROVE  \E h \in H : \A k \in H : k <= h
<1> DEFINE D == {MaxHeight - h : h \in H}
<1>1. D \in SUBSET Heights /\ D # {}
  <2>1. \A h \in H : MaxHeight - h \in Heights
    BY ObjectAssumption DEF Heights
  <2> QED BY <2>1
<1>2. PICK d \in D : \A k \in D : d <= k
  <2> HIDE DEF D
  <2> QED BY <1>1, LeastHeight
<1>3. PICK h \in H : d = MaxHeight - h
  BY <1>2
<1>4. \A k \in H : MaxHeight - h <= MaxHeight - k
  BY <1>2, <1>3
<1> QED BY <1>4, ObjectAssumption DEF Heights

LEMMA EndsExist ==
  ASSUME TypeOK, NEW S \in SUBSET Archived, S # {}
  PROVE  /\ FirstOf(S) \in S /\ \A x \in S : transactions[FirstOf(S)] <= transactions[x]
         /\ LastOf(S) \in S /\ \A x \in S : transactions[x] <= transactions[LastOf(S)]
<1> DEFINE H == {transactions[t] : t \in S}
<1>1. H \in SUBSET Heights /\ H # {}
  BY DEF Archived, TypeOK
<1>2. PICK h \in H : \A k \in H : h <= k
  <2> HIDE DEF H
  <2> QED BY <1>1, LeastHeight
<1>3. PICK g \in H : \A k \in H : k <= g
  <2> HIDE DEF H
  <2> QED BY <1>1, GreatestHeight
<1>4. \E t \in S : \A x \in S : transactions[t] <= transactions[x]
  BY <1>2
<1>5. \E t \in S : \A x \in S : transactions[x] <= transactions[t]
  BY <1>3
<1> QED BY <1>4, <1>5 DEF FirstOf, LastOf

LEMMA TheFirst ==
  ASSUME NEW f, NEW S, \A x \in S : f[x] \in Int,
         NEW t \in S, \A x \in S \ {t} : f[t] < f[x]
  PROVE  t = CHOOSE y \in S : \A x \in S : f[y] <= f[x]
<1>1. \A x \in S : f[t] <= f[x]
  OBVIOUS
<1>2. ASSUME NEW y \in S, \A x \in S : f[y] <= f[x] PROVE y = t
  <2>1. f[y] <= f[t] /\ f[y] \in Int /\ f[t] \in Int
    BY <1>2
  <2> QED BY <2>1
<1> QED BY <1>1, <1>2

LEMMA TheLast ==
  ASSUME NEW f, NEW S, \A x \in S : f[x] \in Int,
         NEW t \in S, \A x \in S \ {t} : f[x] < f[t]
  PROVE  t = CHOOSE y \in S : \A x \in S : f[x] <= f[y]
<1>1. \A x \in S : f[x] <= f[t]
  OBVIOUS
<1>2. ASSUME NEW y \in S, \A x \in S : f[x] <= f[y] PROVE y = t
  <2>1. f[t] <= f[y] /\ f[y] \in Int /\ f[t] \in Int
    BY <1>2
  <2> QED BY <2>1
<1> QED BY <1>1, <1>2

\* A block carries one transaction: archived transactions are at heights of their own.
LEMMA HeightsApart ==
  ASSUME TypeOK, NoOrphans, NEW x \in Archived, NEW y \in Archived,
         transactions[x] = transactions[y]
  PROVE  x = y
BY DEF NoOrphans

LEMMA EndsStrict ==
  ASSUME TypeOK, NoOrphans, NEW S \in SUBSET Archived, S # {}
  PROVE  /\ \A x \in S : transactions[x] \in Int
         /\ FirstOf(S) \in S /\ \A x \in S \ {FirstOf(S)} : transactions[FirstOf(S)] < transactions[x]
         /\ LastOf(S) \in S /\ \A x \in S \ {LastOf(S)} : transactions[x] < transactions[LastOf(S)]
<1>1. \A x \in S : transactions[x] \in Int
  BY ObjectAssumption DEF TypeOK, Archived, Heights
<1>2. /\ FirstOf(S) \in S /\ \A x \in S : transactions[FirstOf(S)] <= transactions[x]
      /\ LastOf(S) \in S /\ \A x \in S : transactions[x] <= transactions[LastOf(S)]
  BY EndsExist
<1>3. \A x, y \in S : transactions[x] = transactions[y] => x = y
  BY HeightsApart
<1>4. ASSUME NEW x \in S \ {FirstOf(S)} PROVE transactions[FirstOf(S)] < transactions[x]
  <2>1. transactions[FirstOf(S)] <= transactions[x] /\ transactions[FirstOf(S)] # transactions[x]
    BY <1>2, <1>3
  <2>2. transactions[FirstOf(S)] \in Int /\ transactions[x] \in Int
    BY <1>1, <1>2
  <2> QED BY <2>1, <2>2
<1>5. ASSUME NEW x \in S \ {LastOf(S)} PROVE transactions[x] < transactions[LastOf(S)]
  <2>1. transactions[x] <= transactions[LastOf(S)] /\ transactions[LastOf(S)] # transactions[x]
    BY <1>2, <1>3
  <2>2. transactions[LastOf(S)] \in Int /\ transactions[x] \in Int
    BY <1>1, <1>2
  <2> QED BY <2>1, <2>2
<1> QED BY <1>1, <1>2, <1>4, <1>5

-----------------------------------------------------------------------------
(* The steps.                                                                *)

LEMMA PutStep ==
  ASSUME IInv, NEW b \in Blocks, PutBlock(b)
  PROVE  IInv'
<1> USE ObjectAssumption DEF IInv
<1> DEFINE h == HeightOf[b]
           t == TxOf[b]
           S == Surviving(b)
<1>1. h \in Heights /\ t \in Txs \cup {None} /\ None \notin Txs /\ None \notin Heights
  OBVIOUS
<1>2. /\ \A k \in Heights : blocks'[k] = IF k = h THEN b ELSE blocks[k]
      /\ \A x \in Txs : transactions'[x] = IF x = t THEN h
                                           ELSE IF x \in S THEN transactions[x] ELSE None
      /\ activity' = (activity \cap S) \cup ({t} \ {None})
      /\ replaced' = (replaced \/ blocks[h] \notin {None, b})
  BY DEF PutBlock, TypeOK
<1>3. \A o \in Objects : objects'[o] = IF t # None /\ o = ObjectOf[t]
                                       THEN Upsert(Cascaded(S)[o], t, h) ELSE Cascaded(S)[o]
  BY DEF PutBlock
<1>4. S = {x \in Archived : transactions[x] # h} \ {t} /\ S \subseteq Txs
  BY DEF Surviving, Archived
<1>5. \A o \in Objects : Cascaded(S)[o] = IF objects[o] # None /\ objects[o].creator \in S
                                          THEN objects[o] ELSE None
  BY DEF Cascaded
<1> HIDE DEF h, t, S
<1>6. Archived' = S \cup ({t} \ {None})
  BY <1>1, <1>2, <1>4 DEF Archived
<1>7. TypeOK'
  <2>1. objects' \in [Objects -> Rows \cup {None}]
    <3>1. \A o \in Objects : Cascaded(S)[o] \in Rows \cup {None}
      BY <1>5 DEF TypeOK
    <3>2. \A row \in Rows \cup {None}, x \in Txs : Upsert(row, x, h) \in Rows
      BY <1>1 DEF Upsert, NewRow, Rows
    <3>3. \A o \in Objects : objects'[o] \in Rows \cup {None}
      BY <1>1, <1>3, <3>1, <3>2
    <3> QED BY <3>3 DEF PutBlock
  <2>2. blocks' \in [Heights -> Blocks \cup {None}]
    BY <1>1, <1>2 DEF PutBlock, TypeOK
  <2>3. transactions' \in [Txs -> Heights \cup {None}]
    <3>1. \A x \in Txs : transactions'[x] \in Heights \cup {None}
      BY <1>1, <1>2 DEF TypeOK
    <3> QED BY <3>1 DEF PutBlock
  <2>4. activity' \subseteq Txs
    BY <1>1, <1>2, <1>4
  <2>5. versioned' \in BOOLEAN /\ ordered' \in BOOLEAN /\ replaced' \in BOOLEAN
      /\ moved' \in BOOLEAN
    BY <1>2 DEF PutBlock, TypeOK
  <2> QED BY <2>1, <2>2, <2>3, <2>4, <2>5 DEF TypeOK
<1>8. NoOrphans'
  <2>1. ASSUME NEW x \in Archived'
        PROVE  blocks'[transactions'[x]] # None /\ TxOf[blocks'[transactions'[x]]] = x
    <3>1. CASE x = t
      <4>1. transactions'[x] = h /\ blocks'[h] = b
        BY <1>1, <1>2, <1>6, <3>1, <1>4
      <4> QED BY <3>1, <4>1 DEF t
    <3>2. CASE x \in S /\ x # t
      <4>1. x \in Archived /\ transactions[x] # h /\ transactions[x] \in Heights
        BY <1>4, <3>2 DEF Archived, TypeOK
      <4>2. transactions'[x] = transactions[x] /\ blocks'[transactions[x]] = blocks[transactions[x]]
        BY <1>2, <1>4, <3>2, <4>1
      <4> QED BY <4>1, <4>2 DEF NoOrphans
    <3> QED BY <1>6, <3>1, <3>2
  <2>2. activity' = Archived'
    BY <1>2, <1>4, <1>6 DEF NoOrphans
  <2>3. ASSUME NEW o \in Objects, objects'[o] # None
        PROVE  /\ objects'[o].creator \in Archived'
               /\ ObjectOf[objects'[o].creator] = o
               /\ transactions'[objects'[o].creator] = objects'[o].created
    <3>1. CASE Cascaded(S)[o] # None
      <4>1. /\ Cascaded(S)[o] = objects[o] /\ objects[o] \in Rows
            /\ objects[o].creator \in S
        BY <1>5, <3>1 DEF TypeOK
      <4>2. /\ objects'[o].creator = objects[o].creator
            /\ objects'[o].created = objects[o].created
        <5>1. /\ Upsert(objects[o], t, h).creator = objects[o].creator
              /\ Upsert(objects[o], t, h).created = objects[o].created
          <6>1. Upsert(objects[o], t, h)
                  = [objects[o] EXCEPT !.updated = h, !.status = StatusOf[t]]
            BY <3>1, <4>1 DEF Upsert
          <6> QED BY <4>1, <6>1 DEF Rows
        <5>2. objects'[o] \in {objects[o], Upsert(objects[o], t, h)}
          BY <1>3, <4>1
        <5> QED BY <5>1, <5>2
      <4>3. /\ ObjectOf[objects[o].creator] = o
            /\ transactions[objects[o].creator] = objects[o].created
        BY <4>1 DEF NoOrphans, About, TypeOK
      <4>4. transactions'[objects[o].creator] = transactions[objects[o].creator]
        BY <1>2, <1>4, <4>1
      <4> QED BY <1>6, <4>1, <4>2, <4>3, <4>4
    <3>2. CASE Cascaded(S)[o] = None
      <4>1. t # None /\ o = ObjectOf[t] /\ objects'[o] = NewRow(t, h)
        BY <1>3, <2>3, <3>2 DEF Upsert
      <4> QED BY <1>1, <1>2, <1>6, <4>1 DEF NewRow
    <3> QED BY <3>1, <3>2
  <2> QED BY <2>1, <2>2, <2>3 DEF NoOrphans, About
<1>9. ObjectsListed'
  <2> SUFFICES ASSUME ~ replaced', NEW x \in Archived'
               PROVE  objects'[ObjectOf[x]] # None
    BY DEF ObjectsListed
  <2>0. ObjectOf[x] \in Objects
    BY <1>1, <1>4, <1>6
  <2>1. ~ replaced /\ blocks[h] \in {None, b}
    BY <1>2
  <2>2. CASE t # None /\ ObjectOf[x] = ObjectOf[t]
    <3>1. Upsert(Cascaded(S)[ObjectOf[x]], t, h) \in Rows
      <4>1. Cascaded(S)[ObjectOf[x]] \in Rows \cup {None}
        BY <1>5, <2>0 DEF TypeOK
      <4> QED BY <1>1, <2>2, <4>1 DEF Upsert, NewRow, Rows
    <3> QED BY <1>3, <2>0, <2>2, <3>1
  <2>3. CASE ~ (t # None /\ ObjectOf[x] = ObjectOf[t])
    <3>1. x \in S
      BY <1>6, <2>3
    <3>2. objects[ObjectOf[x]] # None
      BY <1>4, <2>1, <3>1 DEF ObjectsListed
    <3> DEFINE c == objects[ObjectOf[x]].creator
    <3>3. /\ c \in Archived /\ ObjectOf[c] = ObjectOf[x]
          /\ blocks[transactions[c]] # None /\ TxOf[blocks[transactions[c]]] = c
      BY <2>0, <3>2 DEF NoOrphans, About
    <3>4. c # t
      <4>1. c # None
        BY <3>3 DEF Archived
      <4> QED BY <2>3, <3>3, <4>1
    <3>5. transactions[c] # h
      BY <2>1, <3>3, <3>4 DEF t
    <3>6. Cascaded(S)[ObjectOf[x]] = objects[ObjectOf[x]]
      BY <1>4, <1>5, <2>0, <3>2, <3>3, <3>4, <3>5
    <3> QED BY <1>3, <2>0, <2>3, <3>2, <3>6
  <2> QED BY <2>2, <2>3
<1> QED BY <1>7, <1>8, <1>9

LEMMA RebuildStep ==
  ASSUME IInv, Rebuild
  PROVE  IInv'
<1> USE ObjectAssumption DEF IInv
<1>0. Archived' = Archived /\ \A o \in Objects : About(o)' = About(o)
  BY DEF Rebuild, Archived, About
<1>1. \A o \in Objects : About(o) # {} =>
        FirstOf(About(o)) \in About(o) /\ LastOf(About(o)) \in About(o)
  BY EndsExist DEF About
<1>2. \A o \in Objects : About(o) # {} => RebuiltRow(o) \in Rows
  BY <1>1 DEF RebuiltRow, Rows, About, Archived, TypeOK
<1>3. \A o \in Objects : objects'[o] = IF About(o) = {} THEN None ELSE RebuiltRow(o)
  BY DEF Rebuild
<1>4. TypeOK'
  BY <1>2 DEF Rebuild, TypeOK, Archived
<1>5. NoOrphans'
  <2>1. ASSUME NEW o \in Objects, objects'[o] # None
        PROVE  objects'[o].creator \in About(o) /\ transactions[objects'[o].creator] = objects'[o].created
    <3>1. About(o) # {} /\ objects'[o] = RebuiltRow(o)
      BY <1>3, <2>1
    <3>2. /\ RebuiltRow(o).creator = FirstOf(About(o))
          /\ RebuiltRow(o).created = transactions[FirstOf(About(o))]
      BY DEF RebuiltRow
    <3> QED BY <1>1, <3>1, <3>2
  <2> QED BY <1>0, <2>1 DEF Rebuild, NoOrphans
<1>6. ObjectsListed'
  <2> SUFFICES ASSUME NEW x \in Archived PROVE objects'[ObjectOf[x]] # None
    BY <1>0 DEF ObjectsListed
  <2>1. x \in About(ObjectOf[x]) /\ ObjectOf[x] \in Objects
    BY DEF About, Archived
  <2>2. objects'[ObjectOf[x]] = RebuiltRow(ObjectOf[x])
    BY <1>3, <2>1
  <2> QED BY <1>2, <2>1, <2>2
<1> QED BY <1>4, <1>5, <1>6

\* A block put above all others brings the last transaction about its object, and
\* the first if there was none; other objects keep theirs.
LEMMA PutCurrent ==
  ASSUME IInv, CurrentWhenOrdered, NEW b \in Blocks, PutBlock(b)
  PROVE  CurrentWhenOrdered'
<1> USE ObjectAssumption
<1> DEFINE h == HeightOf[b]
           t == TxOf[b]
           S == Surviving(b)
<1>0. TypeOK /\ NoOrphans /\ TypeOK' /\ NoOrphans'
  BY PutStep DEF IInv
<1>1. h \in Heights /\ t \in Txs \cup {None} /\ None \notin Txs /\ None \notin Heights /\ h \in Int
  BY DEF Heights
<1>2. /\ \A x \in Txs : transactions'[x] = IF x = t THEN h
                                           ELSE IF x \in S THEN transactions[x] ELSE None
      /\ \A o \in Objects : objects'[o] = IF t # None /\ o = ObjectOf[t]
                                          THEN Upsert(Cascaded(S)[o], t, h) ELSE Cascaded(S)[o]
      /\ moved' = (moved \/ t \in Archived)
      /\ ordered' = (ordered /\ \A k \in Heights : blocks[k] # None => k < h)
  BY DEF PutBlock
<1>3. \A o \in Objects : Cascaded(S)[o] = IF objects[o] # None /\ objects[o].creator \in S
                                          THEN objects[o] ELSE None
  BY DEF Cascaded
<1>4. S = {x \in Archived : transactions[x] # h} \ {t} /\ Archived \subseteq Txs
  BY DEF Surviving, Archived
<1> SUFFICES ASSUME ordered', NEW o \in Objects, About(o)' # {}
             PROVE  /\ objects'[o] # None
                    /\ objects'[o].updated = transactions'[LastOf(About(o))']
                    /\ objects'[o].status = StatusOf[LastOf(About(o))']
                    /\ moved' \/ objects'[o].creator = FirstOf(About(o))'
  BY DEF CurrentWhenOrdered
<1> HIDE DEF h, t, S
<1>5. \A x \in Archived : transactions[x] \in Int /\ transactions[x] < h
  <2> TAKE x \in Archived
  <2>1. transactions[x] \in Heights /\ blocks[transactions[x]] # None
    BY <1>0 DEF NoOrphans, TypeOK, Archived
  <2>2. transactions[x] < h
    <3>1. \A k \in Heights : blocks[k] # None => k < h
      BY <1>2
    <3> QED BY <2>1, <3>1
  <2> QED BY <2>1, <2>2 DEF Heights
<1>6. S = Archived \ {t}
  BY <1>1, <1>4, <1>5
<1>7. Archived' = S \cup ({t} \ {None}) /\ \A x \in S : transactions'[x] = transactions[x]
  <2>1. \A x \in S : transactions'[x] = transactions[x] /\ transactions[x] # None
    BY <1>2, <1>4 DEF Archived
  <2> QED BY <1>1, <1>2, <1>4, <2>1 DEF Archived
<1>8. About(o)' = {x \in Archived' : ObjectOf[x] = o} /\ About(o) = {x \in Archived : ObjectOf[x] = o}
  BY DEF About
<1>9. /\ FirstOf(About(o))' = CHOOSE y \in About(o)' : \A x \in About(o)' : transactions'[y] <= transactions'[x]
      /\ LastOf(About(o))' = CHOOSE y \in About(o)' : \A x \in About(o)' : transactions'[x] <= transactions'[y]
  BY DEF FirstOf, LastOf
<1>10. objects[o] # None => objects[o].creator \in About(o) /\ objects[o] \in Rows
  BY <1>0 DEF NoOrphans, TypeOK
<1>11. CASE t # None /\ o = ObjectOf[t]
  <2> DEFINE row == Cascaded(S)[o]
  <2>1. t \in About(o)' /\ \A x \in About(o)' \ {t} : x \in S /\ x \in About(o)
    BY <1>4, <1>7, <1>8, <1>11
  <2>2. transactions'[t] = h /\ \A x \in About(o)' \ {t} : transactions'[x] = transactions[x]
    BY <1>1, <1>2, <1>7, <1>11, <2>1
  <2>3. /\ \A x \in About(o)' : transactions'[x] \in Int
        /\ \A x \in About(o)' \ {t} : transactions'[x] < transactions'[t]
    BY <1>1, <1>5, <1>8, <2>1, <2>2
  <2>4. LastOf(About(o))' = t
    BY <1>9, <2>1, <2>3, TheLast
  <2>5. row \in Rows \cup {None} /\ objects'[o] = Upsert(row, t, h)
    BY <1>2, <1>3, <1>10, <1>11
  <2> HIDE DEF row
  <2>6. /\ Upsert(row, t, h).updated = h /\ Upsert(row, t, h).status = StatusOf[t]
        /\ Upsert(row, t, h).creator = (IF row = None THEN t ELSE row.creator)
        /\ Upsert(row, t, h) # None
    <3>1. CASE row = None
      <4>1. Upsert(row, t, h) = NewRow(t, h) /\ NewRow(t, h) \in Rows
        BY <3>1, <1>1, <1>11 DEF Upsert, NewRow, Rows
      <4> QED BY <3>1, <4>1 DEF NewRow
    <3>2. CASE row # None
      <4>1. row \in Rows /\ Upsert(row, t, h) = [row EXCEPT !.updated = h, !.status = StatusOf[t]]
        BY <3>2, <2>5 DEF Upsert
      <4>2. Upsert(row, t, h) \in Rows
        BY <4>1, <1>1, <1>11 DEF Rows
      <4> QED BY <3>2, <4>1, <4>2 DEF Rows
    <3> QED BY <3>1, <3>2
  <2>7. ASSUME ~ moved' PROVE objects'[o].creator = FirstOf(About(o))'
    <3>1. ~ moved /\ t \notin Archived /\ S = Archived /\ ordered
      BY <1>2, <1>6, <2>7
    <3>2. CASE About(o) = {}
      <4>1. row = None
        BY <1>3, <1>10, <3>2 DEF row
      <4>2. \A x \in About(o)' \ {t} : transactions'[t] < transactions'[x]
        BY <2>1, <3>2
      <4>3. FirstOf(About(o))' = t
        BY <1>9, <2>1, <2>3, <4>2, TheFirst
      <4> QED BY <2>5, <2>6, <4>1, <4>3
    <3>3. CASE About(o) # {}
      <4> DEFINE c == FirstOf(About(o))
      <4>1. objects[o] # None /\ objects[o].creator = c
        BY <3>1, <3>3 DEF CurrentWhenOrdered
      <4>2. /\ About(o) \subseteq Archived /\ c \in About(o)
            /\ \A x \in About(o) \ {c} : transactions[c] < transactions[x]
        <5>1. About(o) \in SUBSET Archived
          BY <1>8
        <5> QED BY <1>0, <3>3, <5>1, EndsStrict
      <4> HIDE DEF c
      <4>3. row # None /\ row.creator = c
        BY <1>3, <3>1, <4>1, <4>2 DEF row
      <4>4. c # t /\ c \in About(o)'
        BY <1>7, <1>8, <3>1, <4>2
      <4>5. \A x \in About(o)' \ {c} : transactions'[c] < transactions'[x]
        <5> TAKE x \in About(o)' \ {c}
        <5>1. CASE x = t
          BY <5>1, <2>3, <4>4
        <5>2. CASE x # t
          <6>1. x \in About(o) /\ transactions'[x] = transactions[x] /\ transactions'[c] = transactions[c]
            BY <5>2, <2>1, <2>2, <4>4
          <6> QED BY <4>2, <6>1
        <5> QED BY <5>1, <5>2
      <4>6. FirstOf(About(o))' = c
        BY <1>9, <2>3, <4>4, <4>5, TheFirst
      <4> QED BY <2>5, <2>6, <4>3, <4>6
    <3> QED BY <3>2, <3>3
  <2> QED BY <2>2, <2>4, <2>5, <2>6, <2>7
<1>12. CASE ~ (t # None /\ o = ObjectOf[t])
  <2>1. About(o)' = About(o) /\ About(o) \subseteq S
    <3>1. t \notin About(o)
      BY <1>1, <1>4, <1>8, <1>12
    <3>2. \A x \in About(o)' : x \in S
      BY <1>7, <1>8, <1>12
    <3> QED BY <1>6, <1>7, <1>8, <3>1, <3>2
  <2>2. \A x \in About(o) : transactions'[x] = transactions[x]
    BY <1>7, <2>1
  <2>3. ordered /\ (moved => moved') /\ About(o) # {}
    BY <1>2, <2>1
  <2>4. objects'[o] = objects[o]
    <3>1. objects[o] # None
      BY <2>3 DEF CurrentWhenOrdered
    <3> QED BY <1>2, <1>3, <1>10, <1>12, <2>1, <3>1
  <2> DEFINE f == FirstOf(About(o))
             l == LastOf(About(o))
  <2>5. /\ \A x \in About(o) : transactions[x] \in Int
        /\ f \in About(o) /\ \A x \in About(o) \ {f} : transactions[f] < transactions[x]
        /\ l \in About(o) /\ \A x \in About(o) \ {l} : transactions[x] < transactions[l]
    <3>1. About(o) \in SUBSET Archived
      BY <1>8
    <3> QED BY <1>0, <2>3, <3>1, EndsStrict
  <2>6. /\ objects[o] # None /\ objects[o].updated = transactions[l]
        /\ objects[o].status = StatusOf[l] /\ (moved \/ objects[o].creator = f)
    BY <2>3 DEF CurrentWhenOrdered
  <2> HIDE DEF f, l
  <2>7. FirstOf(About(o))' = f
    <3>1. /\ \A x \in About(o)' : transactions'[x] \in Int
          /\ f \in About(o)' /\ \A x \in About(o)' \ {f} : transactions'[f] < transactions'[x]
      BY <2>1, <2>2, <2>5
    <3> QED BY <1>9, <3>1, TheFirst
  <2>8. LastOf(About(o))' = l
    <3>1. /\ \A x \in About(o)' : transactions'[x] \in Int
          /\ l \in About(o)' /\ \A x \in About(o)' \ {l} : transactions'[x] < transactions'[l]
      BY <2>1, <2>2, <2>5
    <3> QED BY <1>9, <3>1, TheLast
  <2>9. transactions'[l] = transactions[l]
    BY <2>2, <2>5
  <2> QED BY <2>3, <2>4, <2>6, <2>7, <2>8, <2>9
<1> QED BY <1>11, <1>12

LEMMA RebuildCurrent ==
  ASSUME IInv, Rebuild
  PROVE  CurrentWhenOrdered'
<1>1. /\ transactions' = transactions
      /\ \A o \in Objects : objects'[o] = IF About(o) = {} THEN None ELSE RebuiltRow(o)
  BY DEF Rebuild
<1>2. \A o \in Objects : /\ About(o)' = About(o)
                         /\ FirstOf(About(o))' = FirstOf(About(o))
                         /\ LastOf(About(o))' = LastOf(About(o))
  BY <1>1 DEF About, Archived, FirstOf, LastOf
<1>3. ASSUME NEW o \in Objects, About(o) # {}
      PROVE  /\ objects'[o] = RebuiltRow(o) /\ objects'[o] # None
  <2>1. FirstOf(About(o)) \in About(o) /\ LastOf(About(o)) \in About(o)
    BY <1>3, EndsExist DEF About, IInv
  <2>2. RebuiltRow(o) \in Rows
    BY <2>1, ObjectAssumption DEF RebuiltRow, Rows, About, Archived, TypeOK, IInv
  <2> QED BY <1>1, <1>3, <2>2, ObjectAssumption
<1>4. \A o \in Objects : /\ RebuiltRow(o).updated = transactions[LastOf(About(o))]
                         /\ RebuiltRow(o).status = StatusOf[LastOf(About(o))]
                         /\ RebuiltRow(o).creator = FirstOf(About(o))
  BY DEF RebuiltRow
<1> QED BY <1>1, <1>2, <1>3, <1>4 DEF CurrentWhenOrdered

LEMMA EmptyStep ==
  ASSUME blocks' = [h \in Heights |-> None], transactions' = [t \in Txs |-> None],
         objects' = [o \in Objects |-> None], activity' = {},
         versioned' \in BOOLEAN, ordered' \in BOOLEAN, replaced' \in BOOLEAN, moved' \in BOOLEAN
  PROVE  IInv' /\ CurrentWhenOrdered'
<1>1. IInv'
  BY DEF IInv, TypeOK, NoOrphans, ObjectsListed, Archived, About
<1>2. \A o \in Objects : About(o)' = {}
  BY DEF About, Archived
<1> QED BY <1>1, <1>2 DEF CurrentWhenOrdered

LEMMA IndexInvariant == Spec => [](IInv /\ CurrentWhenOrdered)
<1>1. Init => IInv /\ CurrentWhenOrdered
  <2> SUFFICES ASSUME Init PROVE IInv /\ CurrentWhenOrdered
    OBVIOUS
  <2>1. IInv
    BY DEF Init, Empty, IInv, TypeOK, NoOrphans, ObjectsListed, Archived, About
  <2>2. \A o \in Objects : About(o) = {}
    BY DEF Init, Empty, About, Archived
  <2> QED BY <2>1, <2>2 DEF CurrentWhenOrdered
<1>2. IInv /\ CurrentWhenOrdered /\ [Next]_vars => (IInv /\ CurrentWhenOrdered)'
  <2> SUFFICES ASSUME IInv, CurrentWhenOrdered, [Next]_vars PROVE IInv' /\ CurrentWhenOrdered'
    OBVIOUS
  <2>1. ASSUME NEW b \in Blocks, PutBlock(b) PROVE IInv' /\ CurrentWhenOrdered'
    BY <2>1, PutStep, PutCurrent
  <2>2. CASE Clear
    BY <2>2, EmptyStep DEF Clear
  <2>3. CASE Rebuild
    BY <2>3, RebuildStep, RebuildCurrent
  <2>4. CASE UNCHANGED vars
    <3>1. IInv'
      BY <2>4 DEF vars, IInv, TypeOK, NoOrphans, ObjectsListed, Archived, About
    <3>2. CurrentWhenOrdered'
      BY <2>4 DEF vars, CurrentWhenOrdered, FirstOf, LastOf, Archived, About
    <3> QED BY <3>1, <3>2
  <2> QED BY <2>1, <2>2, <2>3, <2>4 DEF Next
<1> QED BY <1>1, <1>2, PTL DEF Spec

-----------------------------------------------------------------------------

\* Every table of the archive keeps its type.
THEOREM IndexTypes == Spec => []TypeOK
<1>1. IInv => TypeOK
  BY DEF IInv
<1> QED BY <1>1, IndexInvariant, PTL

\* The cascades of _insertBlock and the rebuild leave no row whose creator is not
\* archived, and no activity of a transaction that is gone.
THEOREM OrphanFree == Spec => []NoOrphans
<1>1. IInv => NoOrphans
  BY DEF IInv
<1> QED BY <1>1, IndexInvariant, PTL

\* Blocks put in any order, and put again, keep a row for every object.
THEOREM NoObjectLost == Spec => []ObjectsListed
<1>1. IInv => ObjectsListed
  BY DEF IInv
<1> QED BY <1>1, IndexInvariant, PTL

\* The catalog's tables keep together, whatever is put, replaced, wiped or rebuilt.
THEOREM CatalogCorrect == Spec => []CatalogSound
BY IndexTypes, OrphanFree, NoObjectLost, PTL DEF CatalogSound

\* Blocks archived upward leave every object as its last transaction left it, and
\* created by its first, unless a transaction was archived again from another branch.
THEOREM CurrentCorrect == Spec => []CurrentWhenOrdered
BY IndexInvariant, PTL
=============================================================================
