---------------------------- MODULE ObjectIndex ----------------------------
(* The object index of the archive (src/src/archive.js): one row per token,  *)
(* NFT, contract or HTLC with its current status, kept while blocks arrive   *)
(* in any order: upward from the indexer, downward from the backfill, and    *)
(* again or from a dead branch from a REST request.  A block carries at most *)
(* one transaction about an object (abstraction); its other transactions do  *)
(* not meet this index.                                                      *)
EXTENDS Integers, FiniteSets

CONSTANTS Blocks, Txs, Objects, Statuses,
          None,       \* no row, no transaction
          MaxHeight,  \* highest block (bound)
          HeightOf,   \* block -> height
          TxOf,       \* block -> its transaction about an object, or None
          ObjectOf,   \* transaction -> the (kind, id) its action names
          StatusOf    \* transaction -> the status its action type gives

Heights == 0..MaxHeight
Rows == [creator : Txs, created : Heights, updated : Heights, status : Statuses]

ASSUME ObjectAssumption ==
  /\ MaxHeight \in Nat
  /\ None \notin Blocks \cup Txs \cup Heights \cup Rows
  /\ HeightOf \in [Blocks -> Heights]
  /\ TxOf \in [Blocks -> Txs \cup {None}]
  /\ ObjectOf \in [Txs -> Objects]
  /\ StatusOf \in [Txs -> Statuses]

VARIABLES
  blocks,        \* height: the archived block, or None
  transactions,  \* transaction: its block_height, or None
  objects,       \* chain_objects: a row, or None
  activity,      \* object_activity: the transactions with a row
  versioned,     \* object_index_version is 2
  ordered,       \* history: every put since the last rebuild went above the others
  replaced,      \* history: since then a put replaced another block
  moved          \* history: since then a put carried a transaction archived already

tables == <<blocks, transactions, objects, activity>>
vars == <<blocks, transactions, objects, activity, versioned, ordered, replaced, moved>>

Empty ==
  /\ blocks = [h \in Heights |-> None]
  /\ transactions = [t \in Txs |-> None]
  /\ objects = [o \in Objects |-> None]
  /\ activity = {}

Init == Empty /\ versioned = TRUE /\ ordered = TRUE /\ replaced = FALSE /\ moved = FALSE

Archived == {t \in Txs : transactions[t] # None}
About(o) == {t \in Archived : ObjectOf[t] = o}

-----------------------------------------------------------------------------
(* Putting a block.                                                          *)

\* Transactions that survive DELETE FROM blocks at the height of b and INSERT OR
\* REPLACE of its own transaction; rows that refer to the others cascade.
NoCascade(b) == Archived \ {TxOf[b]}  \* mutant: foreign keys off
Surviving(b) == {t \in Archived : transactions[t] # HeightOf[b]} \ {TxOf[b]}

RowBeforeTx(t, h) ==  \* mutant: the row is written before the transaction
  [creator |-> t, created |-> transactions[t], updated |-> h, status |-> StatusOf[t]]
NewRow(t, h) == [creator |-> t, created |-> h, updated |-> h, status |-> StatusOf[t]]

\* upsertObjectStmt: the creator stays, status and updated_height follow.
FirstWins(row, t, h) ==  \* mutant: ON CONFLICT DO NOTHING
  IF row = None THEN NewRow(t, h) ELSE row
Upsert(row, t, h) ==
  IF row = None THEN NewRow(t, h)
  ELSE [row EXCEPT !.updated = h, !.status = StatusOf[t]]

\* A row is lost with the transaction that created it.
Cascaded(S) == [o \in Objects |-> IF objects[o] # None /\ objects[o].creator \in S
                                  THEN objects[o] ELSE None]

PutBlock(b) ==
  LET h == HeightOf[b]  t == TxOf[b]  S == Surviving(b) IN
  /\ blocks' = [blocks EXCEPT ![h] = b]
  /\ transactions' = [x \in Txs |-> IF x = t THEN h
                                    ELSE IF x \in S THEN transactions[x] ELSE None]
  /\ objects' = [o \in Objects |-> IF t # None /\ o = ObjectOf[t]
                                   THEN Upsert(Cascaded(S)[o], t, h) ELSE Cascaded(S)[o]]
  /\ activity' = (activity \cap S) \cup ({t} \ {None})
  /\ ordered' = (ordered /\ \A k \in Heights : blocks[k] # None => k < h)
  /\ replaced' = (replaced \/ blocks[h] \notin {None, b})
  /\ moved' = (moved \/ t \in Archived)
  /\ UNCHANGED versioned

\* clearChainData: blocks and what hangs on them, and meta with its versions.
Clear ==
  /\ blocks' = [h \in Heights |-> None]
  /\ transactions' = [t \in Txs |-> None]
  /\ objects' = [o \in Objects |-> None]
  /\ activity' = {}
  /\ versioned' = FALSE /\ ordered' = TRUE /\ replaced' = FALSE /\ moved' = FALSE

\* _rebuildObjectIndexesIfNeeded, when the archive is opened again: every archived
\* transaction in the order of the chain.
FirstOf(S) == CHOOSE t \in S : \A x \in S : transactions[t] <= transactions[x]
LastOf(S) == CHOOSE t \in S : \A x \in S : transactions[x] <= transactions[t]
RebuiltRow(o) ==
  [creator |-> FirstOf(About(o)), created |-> transactions[FirstOf(About(o))],
   updated |-> transactions[LastOf(About(o))], status |-> StatusOf[LastOf(About(o))]]

RebuildCutShort ==  \* mutant: no BEGIN, and a crash before the rows are written
  /\ ~ versioned
  /\ objects' = [o \in Objects |-> None]
  /\ activity' = Archived
  /\ versioned' = TRUE /\ ordered' = TRUE /\ replaced' = FALSE /\ moved' = FALSE
  /\ UNCHANGED <<blocks, transactions>>
Rebuild ==
  /\ ~ versioned
  /\ objects' = [o \in Objects |-> IF About(o) = {} THEN None ELSE RebuiltRow(o)]
  /\ activity' = Archived
  /\ versioned' = TRUE /\ ordered' = TRUE /\ replaced' = FALSE /\ moved' = FALSE
  /\ UNCHANGED <<blocks, transactions>>

Next == (\E b \in Blocks : PutBlock(b)) \/ Clear \/ Rebuild

Spec == Init /\ [][Next]_vars

-----------------------------------------------------------------------------
(* Properties.                                                               *)

\* Every table has its type.
TypeOK ==
  /\ blocks \in [Heights -> Blocks \cup {None}]
  /\ transactions \in [Txs -> Heights \cup {None}]
  /\ objects \in [Objects -> Rows \cup {None}]
  /\ activity \subseteq Txs
  /\ versioned \in BOOLEAN /\ ordered \in BOOLEAN /\ replaced \in BOOLEAN
  /\ moved \in BOOLEAN

\* Cascades and upserts leave no orphan: a transaction is in the block at its
\* height, the activity is that of the archived transactions, and the creator of
\* a row is archived at the height the row names and speaks of that object.
NoOrphans ==
  /\ \A t \in Archived : /\ blocks[transactions[t]] # None
                         /\ TxOf[blocks[transactions[t]]] = t
  /\ activity = Archived
  /\ \A o \in Objects : objects[o] # None =>
       LET c == objects[o].creator IN
       c \in About(o) /\ transactions[c] = objects[o].created

\* No object is lost: as long as no put replaces another block, every object an
\* archived transaction speaks of has a row, though the row falls with its creator
\* and the creator's block may be put again.
ObjectsListed == ~ replaced => \A t \in Archived : objects[ObjectOf[t]] # None

\* Together: the foreign keys hold in every order of puts, wipes and rebuilds, and
\* no object is lost by them.
CatalogSound == TypeOK /\ NoOrphans /\ ObjectsListed

\* As long as blocks are put upward, a row is exact: current as of the last
\* transaction about its object, and created by the first unless a put archived a
\* transaction again that an archived block of a dead branch had carried.
CurrentWhenOrdered ==
  ordered => \A o \in Objects : About(o) # {} =>
    /\ objects[o] # None
    /\ objects[o].updated = transactions[LastOf(About(o))]
    /\ objects[o].status = StatusOf[LastOf(About(o))]
    /\ moved \/ objects[o].creator = FirstOf(About(o))
=============================================================================
