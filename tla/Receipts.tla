------------------------------ MODULE Receipts ------------------------------
(* Execution statuses and finality flags (src/src/indexer.js, the table      *)
(* transactions of src/src/archive.js).  A block is indexed whether or not   *)
(* the relays answered its receipts; later passes ask for the missing ones,  *)
(* Limit at a time, while requests archive blocks without any                *)
(* (src/src/rest.js).  One transaction per block stands for all of them, and *)
(* heights stand for blocks: IndexerSync models forks and wipes.             *)
EXTENDS Integers, FiniteSets

CONSTANTS MaxHeight,  \* highest height of the chain (bound)
          Backfill,   \* INDEX_BACKFILL_BLOCKS
          MaxBlocks,  \* MAX_STORE_BLOCKS
          Depth,      \* finalityDepth
          Window,     \* finalityWindow
          Limit       \* missingExecutionStatus(16)

Heights == 0..MaxHeight

ASSUME ReceiptsAssumption ==
  /\ MaxHeight \in Nat
  /\ {Backfill, MaxBlocks, Depth, Window, Limit} \subseteq Nat \ {0}

VARIABLES
  node,    \* height of the chain
  served,  \* heights whose receipts the relays answer now
  pc,      \* where the tick stands
  head,    \* head of this tick
  tip,     \* tipHeight
  minHeight, \* lowest height of the hot store
  final,   \* heights of the hot store flagged final
  table,   \* height -> no block archived, its transaction without a status, or with one
  floor,   \* the block backfillArchive fetches
  record,  \* status of the block in flight: the indexer's
  asked,   \* transactions whose receipts this tick has still to hear of
  wanted   \* the height a request fetches, -1 when none

vars == <<node, served, pc, head, tip, minHeight, final, table, floor, record, asked, wanted>>

Absent == "absent"
Statuses == {Absent, "none", "known"}
Archived == {h \in Heights : table[h] # Absent}

\* The hot store's heights.
Hot == minHeight..tip

Init ==
  /\ node \in Heights /\ served = Heights
  /\ pc = "idle" /\ head = -1 /\ tip = -1 /\ minHeight = 0 /\ final = {}
  /\ table = [h \in Heights |-> Absent]
  /\ floor = -1 /\ record = Absent /\ asked = {} /\ wanted = -1

-----------------------------------------------------------------------------
Shallow(top, h) == top - h  \* mutant: the block itself does not count
confirmationCount(top, h) == IF top < h THEN 0 ELSE top - h + 1
finalAtDepth(top, h) == h = 0 \/ confirmationCount(top, h) >= Depth

\* attachReceipts: the batch of the block, then one call for each transaction
\* still without a receipt; what fails leaves the status open.
attachReceipts(h) == IF h \in served THEN "known" ELSE "none"

BeginTick ==
  /\ pc = "idle"
  /\ head' = node
  /\ pc' = "fetch"
  /\ UNCHANGED <<node, served, tip, minHeight, final, table, floor, record, asked, wanted>>

\* indexRange, a block at a time.
NextHeight == IF tip >= 0 THEN tip + 1 ELSE IF head < Backfill THEN 0 ELSE head - Backfill + 1
FetchBlock ==
  /\ pc = "fetch" /\ NextHeight <= head
  /\ record' = attachReceipts(NextHeight)
  /\ pc' = "commit"
  /\ UNCHANGED <<node, served, head, tip, minHeight, final, table, floor, asked, wanted>>
CommitBlock ==
  /\ pc = "commit"
  /\ LET h == NextHeight IN
       /\ table' = [table EXCEPT ![h] = record]
       /\ tip' = h
       /\ minHeight' = IF tip < 0 THEN h
                       ELSE IF h - minHeight = MaxBlocks THEN minHeight + 1 ELSE minHeight
       /\ final' = (IF finalAtDepth(head, h) THEN final \cup {h} ELSE final) \cap minHeight'..h
  /\ pc' = "fetch" /\ record' = Absent
  /\ UNCHANGED <<node, served, head, floor, asked, wanted>>

\* refreshFinality, then the height below the archive's upper run.
BelowRun(f) == /\ f + 1 \in Archived /\ f \notin Archived
               /\ \E t \in Archived : f + 1 .. t \subseteq Archived /\ \A h \in Archived : h <= t
refreshFinality ==
  /\ pc = "fetch" /\ NextHeight > head
  /\ final' = final \cup {h \in Hot : h > tip - Window /\ finalAtDepth(tip, h)}
  /\ \E f \in Heights \cup {-1} :
       BelowRun(f) /\ floor' = f
  /\ pc' = "backfill"
  /\ UNCHANGED <<node, served, head, tip, minHeight, table, record, asked, wanted>>

\* backfillArchive: fetch the block below the run, then archive it, whatever a
\* request archived there in between.
FetchOlder ==
  /\ pc = "backfill" /\ floor >= 0 /\ record = Absent
  /\ record' = attachReceipts(floor)
  /\ UNCHANGED <<node, served, pc, head, tip, minHeight, final, table, floor, asked, wanted>>

\* missingExecutionStatus: the newest transactions without a status.
MissingRecent(t) ==  \* mutant: only the hot store's are looked at
  LET open == {h \in Hot : t[h] = "none"} IN {h \in open : Cardinality({k \in open : k > h}) < Limit}
missingExecutionStatus(t) ==
  LET open == {h \in Heights : t[h] = "none"} IN {h \in open : Cardinality({k \in open : k > h}) < Limit}

ScratchKept ==  \* mutant: the record in flight survives the write
  /\ pc = "backfill" /\ (floor >= 0 => record # Absent)
  /\ table' = IF floor >= 0 THEN [table EXCEPT ![floor] = record] ELSE table
  /\ asked' = missingExecutionStatus(table')
  /\ pc' = "receipts" /\ floor' = -1
  /\ UNCHANGED <<node, served, head, tip, minHeight, final, record, wanted>>
backfillArchive ==
  /\ pc = "backfill" /\ (floor >= 0 => record # Absent)
  /\ table' = IF floor >= 0 THEN [table EXCEPT ![floor] = record] ELSE table
  /\ asked' = missingExecutionStatus(table')
  /\ pc' = "receipts" /\ record' = Absent /\ floor' = -1
  /\ UNCHANGED <<node, served, head, tip, minHeight, final, wanted>>

\* One answer of backfillExecutionStatuses, in any order.
updateTransactionReceipt(h) == table' = [table EXCEPT ![h] = "known"]
ReceiptAnswer(h) ==
  /\ pc = "receipts" /\ h \in asked
  /\ IF h \in served THEN updateTransactionReceipt(h) ELSE UNCHANGED table
  /\ asked' = asked \ {h}
  /\ UNCHANGED <<node, served, pc, head, tip, minHeight, final, floor, record, wanted>>
EndTick ==
  /\ pc = "receipts" /\ asked = {}
  /\ pc' = "idle"
  /\ UNCHANGED <<node, served, head, tip, minHeight, final, table, floor, record, asked, wanted>>

-----------------------------------------------------------------------------
\* A request for a block that is in neither store, and its arrival: normalizeBlock
\* attaches no receipts, and putBlock replaces what the height holds by now.
Request(h) ==
  /\ wanted = -1 /\ table[h] = Absent /\ h <= node
  /\ wanted' = h
  /\ UNCHANGED <<node, served, pc, head, tip, minHeight, final, table, floor, record, asked>>
putBlock ==
  /\ wanted # -1
  /\ table' = [table EXCEPT ![wanted] = "none"]
  /\ wanted' = -1
  /\ UNCHANGED <<node, served, pc, head, tip, minHeight, final, floor, record, asked>>

\* The chain grows; a relay answers a transaction's receipt, or does not.
Grow ==
  /\ node < MaxHeight /\ node' = node + 1
  /\ UNCHANGED <<served, pc, head, tip, minHeight, final, table, floor, record, asked, wanted>>
ReceiptFlips(h) ==
  /\ served' = IF h \in served THEN served \ {h} ELSE served \cup {h}
  /\ UNCHANGED <<node, pc, head, tip, minHeight, final, table, floor, record, asked, wanted>>

Tick == \/ BeginTick \/ FetchBlock \/ CommitBlock \/ refreshFinality
        \/ FetchOlder \/ backfillArchive \/ EndTick
        \/ \E h \in Heights : ReceiptAnswer(h)
Next == Tick \/ Grow \/ putBlock \/ \E h \in Heights : Request(h) \/ ReceiptFlips(h)

\* Calls end by themselves and the timer fires.
Spec == Init /\ [][Next]_vars /\ WF_vars(Tick)

-----------------------------------------------------------------------------
(* Properties.                                                               *)

\* Every variable has its type, and a tick's scratch state ends with it.
TypeOK ==
  /\ node \in Heights /\ served \subseteq Heights
  /\ pc \in {"idle", "fetch", "commit", "backfill", "receipts"}
  /\ head \in Heights \cup {-1} /\ tip \in Heights \cup {-1} /\ tip <= node /\ minHeight \in Heights
  /\ final \subseteq Hot
  /\ table \in [Heights -> Statuses] /\ record \in Statuses
  /\ floor \in Heights \cup {-1} /\ wanted \in Heights \cup {-1} /\ asked \subseteq Archived
  /\ pc = "idle" => floor = -1 /\ record = Absent /\ asked = {}

\* A block is flagged final only when six blocks (Depth) of the chain, itself
\* included, confirm it (finalAtDepth against the head or the tip); after a pass
\* every block of the finality window that deep is flagged.  Blocks below the
\* window are not promised anything: see refreshFinality.
FinalFlags ==
  /\ \A h \in final : h = 0 \/ Cardinality(h..node) >= Depth
  /\ pc \in {"backfill", "receipts"} =>
       \A h \in Hot : h > tip - Window /\ Cardinality(h..tip) >= Depth => h \in final

\* Together: the flags a pass leaves, and nothing else, outlives it.
FlagsSound == TypeOK /\ FinalFlags

\* Every archived transaction gets its status once the relays answer receipts
\* again, in whatever order blocks came in, also those a request archived over a
\* record that had one.
StatusesFilled == (<>[](served = Heights)) => <>[](\A h \in Heights : table[h] # "none")
=============================================================================
