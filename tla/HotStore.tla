------------------------------ MODULE HotStore ------------------------------
(* The bounded in-memory index (src/src/store.js): blocks by height, and what *)
(* is derived from them: hashes, transactions, transactions per account,      *)
(* blocks per proposer, byte and signature counters.  Eviction takes all of   *)
(* it back, lowest block first, one block per step; nothing runs in between.  *)
(* A block carries at most one transaction (abstraction).                     *)
EXTENDS Integers, Sequences, FiniteSets

CONSTANTS Blocks, Txs, Accounts, Proposers, None,
          MaxHeight,   \* highest block (bound)
          MaxBlocks, MaxBytes,
          HeightOf,    \* block -> height
          SizeOf,      \* block -> sizeBytes
          ProposerOf,  \* block -> proposer
          TxOf,        \* block -> its transaction, or None
          AccountsOf   \* transaction -> signer and counterparty

Heights == 0..MaxHeight
Infinity == MaxHeight + 1

ASSUME StoreAssumption ==
  /\ MaxHeight \in Nat /\ MaxBlocks \in Nat \ {0} /\ MaxBytes \in Nat \ {0}
  /\ None \notin Blocks \cup Txs
  /\ HeightOf \in [Blocks -> Heights] /\ SizeOf \in [Blocks -> Nat]
  /\ ProposerOf \in [Blocks -> Proposers]
  /\ TxOf \in [Blocks -> Txs \cup {None}]
  /\ AccountsOf \in [Txs -> SUBSET Accounts]

VARIABLES
  blocks,     \* blocksByHeight, None where absent
  hashed,     \* heightByHash: the blocks whose hash is known
  txs,        \* txById
  ids,        \* txIdsByAccount from start on, empty where absent
  proposers,  \* [blocks, lastHeight], blocks = 0 where absent
  bytes,      \* totalBlockBytesIndexed
  signed,     \* crypto: transactions counted
  latest,     \* latestTxId
  tip,        \* tipHeight
  low,        \* minHeight
  evicting    \* _evict is running

storeVars == <<blocks, hashed, txs, ids, proposers, bytes, signed, latest, tip, low, evicting>>

Held == {h \in Heights : blocks[h] # None}
Retained == {blocks[h] : h \in Held}

EmptyStore ==
  /\ blocks = [h \in Heights |-> None]
  /\ hashed = {} /\ txs = {}
  /\ ids = [a \in Accounts |-> <<>>]
  /\ proposers = [p \in Proposers |-> [blocks |-> 0, lastHeight |-> -1]]
  /\ bytes = 0 /\ signed = 0 /\ latest = None
  /\ tip = -1 /\ low = Infinity
  /\ evicting = FALSE

-----------------------------------------------------------------------------
(* Operations.                                                               *)

\* addBlock of a block whose height is held: only the block itself is replaced.
Replace(b) ==
  /\ blocks[HeightOf[b]] # None
  /\ blocks' = [blocks EXCEPT ![HeightOf[b]] = b]
  /\ hashed' = hashed \cup {b}
  /\ UNCHANGED <<txs, ids, proposers, bytes, signed, latest, tip, low, evicting>>

\* addBlock of a new height.
LoweredPast(h) == IF h < low THEN h - 1 ELSE low  \* mutant: off by one
Lowered(h) == IF h < low THEN h ELSE low

Insert(b) ==
  LET h == HeightOf[b]  t == TxOf[b]  p == ProposerOf[b] IN
  /\ blocks[h] = None
  /\ blocks' = [blocks EXCEPT ![h] = b]
  /\ hashed' = hashed \cup {b}
  /\ tip' = IF h > tip THEN h ELSE tip
  /\ low' = Lowered(h)
  /\ bytes' = bytes + SizeOf[b]
  /\ proposers' = [proposers EXCEPT ![p] =
                     [blocks |-> @.blocks + 1,
                      lastHeight |-> IF h > @.lastHeight THEN h ELSE @.lastHeight]]
  /\ txs' = txs \cup ({t} \ {None})
  /\ signed' = IF t = None THEN signed ELSE signed + 1
  /\ latest' = IF t = None THEN latest ELSE t
  /\ ids' = [a \in Accounts |-> IF t # None /\ a \in AccountsOf[t]
                                THEN Append(ids[a], t) ELSE ids[a]]
  /\ evicting' = TRUE

AddBlock(b) == Replace(b) \/ Insert(b)

OverCount == Cardinality(Held) > MaxBlocks  \* mutant: the byte budget is not read
OverToTheLast ==  \* mutant: the last block is not spared
  Cardinality(Held) > MaxBlocks \/ bytes > MaxBytes
Over == \/ Cardinality(Held) > MaxBlocks
        \/ bytes > MaxBytes /\ Cardinality(Held) > 1

\* _cleanAccountIndex: the dead ids in front are passed over.
NeverClean(s, live) == s  \* mutant: ids are never passed over
CleanFront(s, live) ==
  LET at == {i \in 1..Len(s) : s[i] \in live} IN
  IF at = {} THEN <<>> ELSE SubSeq(s, CHOOSE i \in at : \A j \in at : i <= j, Len(s))

BytesKept(b) == bytes  \* mutant: the size is not taken back
BytesLess(b) == IF bytes < SizeOf[b] THEN 0 ELSE bytes - SizeOf[b]

LatestForgotten(t) ==  \* mutant: any evicted transaction unsets it
  IF t = None THEN latest ELSE None
LatestAfter(t) == IF latest = t THEN None ELSE latest

\* One round of _evict.
EvictOne ==
  LET b == blocks[low]
      t == IF b = None THEN None ELSE TxOf[b]
      left == txs \ {t}
  IN
  /\ evicting /\ Over
  /\ low' = low + 1
  /\ blocks' = [blocks EXCEPT ![low] = None]
  /\ IF b = None THEN UNCHANGED <<hashed, proposers, bytes>>
     ELSE /\ hashed' = hashed \ {b}
          /\ proposers' = [proposers EXCEPT ![ProposerOf[b]] =
               IF @.blocks > 1
               THEN [blocks |-> @.blocks - 1, lastHeight |-> @.lastHeight]
               ELSE [blocks |-> 0, lastHeight |-> -1]]
          /\ bytes' = BytesLess(b)
  /\ txs' = left
  /\ signed' = IF t = None \/ signed = 0 THEN signed ELSE signed - 1
  /\ latest' = LatestAfter(t)
  /\ ids' = [a \in Accounts |-> IF t # None /\ a \in AccountsOf[t]
                                THEN CleanFront(ids[a], left) ELSE ids[a]]
  /\ UNCHANGED <<tip, evicting>>

EvictDone ==
  /\ evicting /\ ~ Over
  /\ evicting' = FALSE
  /\ UNCHANGED <<blocks, hashed, txs, ids, proposers, bytes, signed, latest, tip, low>>

Evict == EvictOne \/ EvictDone

Reset ==
  /\ blocks' = [h \in Heights |-> None]
  /\ hashed' = {} /\ txs' = {}
  /\ ids' = [a \in Accounts |-> <<>>]
  /\ proposers' = [p \in Proposers |-> [blocks |-> 0, lastHeight |-> -1]]
  /\ bytes' = 0 /\ signed' = 0 /\ latest' = None
  /\ tip' = -1 /\ low' = Infinity
  /\ UNCHANGED evicting

\* The indexer adds blocks above its tip (or the restored archive, upward); a held
\* block may be added again.  No other code runs while blocks are evicted.
Commit(b) ==
  /\ ~ evicting
  /\ HeightOf[b] > tip \/ blocks[HeightOf[b]] = b
  /\ AddBlock(b)

Init == EmptyStore
Next == (\E b \in Blocks : Commit(b)) \/ Evict \/ (~ evicting /\ Reset)
Spec == Init /\ [][Next]_storeVars

-----------------------------------------------------------------------------
(* Properties.                                                               *)

\* Every variable has its type.
TypeOK ==
  /\ blocks \in [Heights -> Blocks \cup {None}]
  /\ hashed \subseteq Blocks /\ txs \subseteq Txs
  /\ ids \in [Accounts -> Seq(Txs)]
  /\ proposers \in [Proposers -> [blocks : Nat, lastHeight : Heights \cup {-1}]]
  /\ bytes \in Nat /\ signed \in Nat
  /\ latest \in Txs \cup {None}
  /\ tip \in Heights \cup {-1} /\ low \in Heights \cup {Infinity}
  /\ evicting \in BOOLEAN

\* Eviction takes back all that addBlock put in: hashes, transactions, and the
\* counters of bytes, signatures and blocks per proposer are those of the blocks
\* still held.
RetainedTxs == {TxOf[b] : b \in Retained} \ {None}
Bytes(S) == UNION {{b} \X (1..SizeOf[b]) : b \in S}
Total(S) == Cardinality(Bytes(S))
BlocksExact ==
  /\ hashed = Retained
  /\ bytes = Total(Retained)
  /\ \A p \in Proposers :
       LET won == {h \in Held : ProposerOf[blocks[h]] = p} IN
       /\ proposers[p].blocks = Cardinality(won)
       /\ proposers[p].lastHeight \in won \cup {-1}
       /\ \A h \in won : h <= proposers[p].lastHeight
TxsExact == txs = RetainedTxs /\ signed = Cardinality(RetainedTxs)
TablesExact == BlocksExact /\ TxsExact

\* The memory bound: between two additions the store holds at most MaxBlocks
\* blocks, and more than MaxBytes only in a single block.
Bounded ==
  ~ evicting => /\ Cardinality(Held) <= MaxBlocks
                /\ bytes <= MaxBytes \/ Cardinality(Held) <= 1

\* Eviction spares the newest block, and never passes a block over.
NewestKept == /\ tip # -1 => tip \in Held
              /\ \A h \in Held : low <= h /\ h <= tip

\* Together: eviction ends within both limits and takes blocks from the bottom only.
StoreSound == TypeOK /\ Bounded /\ NewestKept

\* An account's ids are its retained transactions, oldest first: no more, no
\* fewer, none twice.
AccountsExact ==
  \A a \in Accounts :
    /\ {ids[a][i] : i \in DOMAIN ids[a]} = {t \in RetainedTxs : a \in AccountsOf[t]}
    /\ \A i, j \in DOMAIN ids[a], h, k \in Held :
         i < j /\ TxOf[blocks[h]] = ids[a][i] /\ TxOf[blocks[k]] = ids[a][j] => h < k

\* latestTransaction is the newest one retained.
LatestIsNewest ==
  /\ latest = None <=> RetainedTxs = {}
  /\ \A h, k \in Held : TxOf[blocks[h]] = latest /\ TxOf[blocks[k]] # None => k <= h
=============================================================================
