--------------------------- MODULE ReceiptsProofs ---------------------------
(* The finality flags that a pass leaves, for any chain, window and limits.   *)
EXTENDS Receipts, FiniteSetTheorems, TLAPS

\* What every stage of a tick holds and has done with.
Stage ==
  /\ head <= node
  /\ tip >= 0 => minHeight <= tip
  /\ pc = "commit" => NextHeight \in Heights /\ NextHeight <= head
  /\ pc \in {"idle", "fetch", "commit", "receipts"} => floor = -1
  /\ pc \in {"idle", "fetch", "receipts"} => record = Absent
  /\ pc = "commit" => record # Absent
  /\ pc \in {"idle", "fetch", "commit", "backfill"} => asked = {}

IInv == TypeOK /\ Stage /\ FinalFlags

-----------------------------------------------------------------------------

LEMMA Confirmed ==
  ASSUME NEW h \in Heights, NEW top \in Heights
  PROVE  /\ confirmationCount(top, h) = Cardinality(h..top)
         /\ Cardinality(h..top) \in Nat
         /\ \A n \in Heights : top <= n => Cardinality(h..top) <= Cardinality(h..n)
<1>1. \A n \in Heights : Cardinality(h..n) = IF h > n THEN 0 ELSE n - h + 1
  BY FS_Interval DEF Heights
<1> QED BY <1>1 DEF confirmationCount, Heights

LEMMA StepCases ==
  ASSUME [Next]_vars
  PROVE  \/ BeginTick \/ FetchBlock \/ CommitBlock \/ refreshFinality
         \/ FetchOlder \/ backfillArchive \/ EndTick
         \/ \E h \in Heights : ReceiptAnswer(h)
         \/ Grow \/ putBlock \/ \E h \in Heights : Request(h)
         \/ \E h \in Heights : ReceiptFlips(h)
         \/ UNCHANGED vars
BY DEF Next, Tick

LEMMA InvInit == Init => IInv
<1> SUFFICES ASSUME Init PROVE IInv
  OBVIOUS
<1>1. TypeOK /\ Stage
  BY ReceiptsAssumption DEF Init, TypeOK, Stage, Heights, Hot, Statuses, Archived, NextHeight
<1>2. FinalFlags
  BY DEF Init, FinalFlags
<1> QED BY <1>1, <1>2 DEF IInv

LEMMA TypeStep ==
  ASSUME IInv, [Next]_vars
  PROVE  TypeOK' /\ Stage'
<1> USE ReceiptsAssumption DEF IInv, TypeOK, Stage, Heights, Statuses, Archived, Absent
<1>1. CASE BeginTick
  BY <1>1 DEF BeginTick, Hot, NextHeight
<1>2. CASE FetchBlock
  BY <1>2 DEF FetchBlock, Hot, NextHeight, attachReceipts
<1>3. CASE CommitBlock
  <2> DEFINE h == NextHeight
  <2>1. h \in Heights /\ h <= head /\ (tip >= 0 => h = tip + 1)
    BY <1>3 DEF CommitBlock, NextHeight
  <2>2. /\ table' = [table EXCEPT ![h] = record] /\ tip' = h
        /\ minHeight' = IF tip < 0 THEN h ELSE IF h - minHeight = MaxBlocks THEN minHeight + 1 ELSE minHeight
        /\ final' \subseteq minHeight'..h /\ pc' = "fetch" /\ record' = Absent /\ pc = "commit"
        /\ UNCHANGED <<node, served, head, floor, asked, wanted>>
    BY <1>3 DEF CommitBlock
  <2> HIDE DEF h
  <2>3. minHeight' \in Heights /\ minHeight' <= h
    BY <2>1, <2>2
  <2>4. table' \in [Heights -> Statuses] /\ Archived \subseteq Archived'
    BY <2>1, <2>2
  <2> QED BY <2>1, <2>2, <2>3, <2>4 DEF Hot
<1>4. CASE refreshFinality
  BY <1>4 DEF refreshFinality, Hot, NextHeight
<1>5. CASE FetchOlder
  BY <1>5 DEF FetchOlder, Hot, NextHeight, attachReceipts
<1>6. CASE backfillArchive
  <2>1. table' \in [Heights -> Statuses] /\ Archived \subseteq Archived' /\ asked' \subseteq Archived'
    BY <1>6 DEF backfillArchive, missingExecutionStatus
  <2> QED BY <1>6, <2>1 DEF backfillArchive, Hot, NextHeight
<1>7. CASE EndTick
  BY <1>7 DEF EndTick, Hot, NextHeight
<1>8. CASE \E h \in Heights : ReceiptAnswer(h)
  <2>1. table' \in [Heights -> Statuses] /\ Archived \subseteq Archived' /\ asked' \subseteq asked
    BY <1>8 DEF ReceiptAnswer, updateTransactionReceipt
  <2> QED BY <1>8, <2>1 DEF ReceiptAnswer, Hot, NextHeight
<1>9. CASE putBlock
  <2>1. table' \in [Heights -> Statuses] /\ Archived \subseteq Archived'
    BY <1>9 DEF putBlock
  <2> QED BY <1>9, <2>1 DEF putBlock, Hot, NextHeight
<1>10. CASE Grow
  BY <1>10 DEF Grow, Hot, NextHeight
<1>11. CASE \E h \in Heights : Request(h)
  BY <1>11 DEF Request, Hot, NextHeight
<1>12. CASE \E h \in Heights : ReceiptFlips(h)
  BY <1>12 DEF ReceiptFlips, Hot, NextHeight
<1>13. CASE UNCHANGED vars
  BY <1>13 DEF vars, Hot, NextHeight
<1> QED BY <1>1, <1>2, <1>3, <1>4, <1>5, <1>6, <1>7, <1>8, <1>9, <1>10, <1>11, <1>12, <1>13, StepCases

\* A flag is set for a block deep below the head or the tip, and a chain only grows.
LEMMA FinalStep ==
  ASSUME IInv, [Next]_vars
  PROVE  FinalFlags'
<1> USE ReceiptsAssumption DEF IInv
<1>0. /\ node \in Heights /\ node' \in Heights /\ node <= node' /\ head \in Heights \cup {-1}
      /\ tip \in Heights \cup {-1} /\ tip <= node /\ head <= node
      /\ minHeight \in Heights /\ Depth \in Nat
      /\ final \subseteq Heights
  <2>1. node \in Heights /\ node' \in Heights /\ node <= node'
    BY StepCases DEF TypeOK, BeginTick, FetchBlock, CommitBlock, refreshFinality, FetchOlder,
       backfillArchive, EndTick, ReceiptAnswer, Grow, putBlock, Request, ReceiptFlips, vars, Heights
  <2> QED BY <2>1 DEF TypeOK, Stage, Hot, Heights
<1>1. \A h \in final : h = 0 \/ Cardinality(h..node') >= Depth
  <2> SUFFICES ASSUME NEW h \in final, h # 0 PROVE Cardinality(h..node') >= Depth
    OBVIOUS
  <2>1. Cardinality(h..node) >= Depth
    BY DEF FinalFlags
  <2>2. Cardinality(h..node) <= Cardinality(h..node')
        /\ Cardinality(h..node) \in Nat /\ Cardinality(h..node') \in Nat
    BY <1>0, Confirmed
  <2> QED BY <1>0, <2>1, <2>2
<1>2. ASSUME NEW h \in Heights, NEW top \in Heights, top <= node, finalAtDepth(top, h)
      PROVE  h = 0 \/ Cardinality(h..node) >= Depth
  <2>1. confirmationCount(top, h) = Cardinality(h..top) /\ Cardinality(h..top) \in Nat
        /\ Cardinality(h..top) <= Cardinality(h..node) /\ Cardinality(h..node) \in Nat
    BY <1>0, <1>2, Confirmed
  <2> QED BY <1>0, <1>2, <2>1 DEF finalAtDepth
<1>3. CASE CommitBlock
  <2>1. final' \subseteq final \cup (IF finalAtDepth(head, NextHeight) THEN {NextHeight} ELSE {})
        /\ node' = node /\ pc' = "fetch" /\ NextHeight \in Heights /\ NextHeight <= head
    BY <1>3 DEF CommitBlock, Stage
  <2>2. head \in Heights
    BY <1>0, <2>1 DEF Heights
  <2> QED BY <1>0, <1>1, <1>2, <2>1, <2>2 DEF FinalFlags
<1>4. CASE refreshFinality
  <2>1. final' = final \cup {h \in Hot : h > tip - Window /\ finalAtDepth(tip, h)}
        /\ UNCHANGED <<node, tip, minHeight>>
    BY <1>4 DEF refreshFinality
  <2>2. \A h \in Hot : h \in Heights /\ tip \in Heights
    BY <1>0 DEF Hot, Heights
  <2>3. \A h \in final' : h = 0 \/ Cardinality(h..node') >= Depth
    BY <1>0, <1>1, <1>2, <2>1, <2>2
  <2>4. ASSUME NEW h \in Hot, h > tip - Window, Cardinality(h..tip) >= Depth
        PROVE  h \in final'
    <3>1. confirmationCount(tip, h) = Cardinality(h..tip)
      BY <2>2, Confirmed
    <3> QED BY <2>1, <2>4, <3>1 DEF finalAtDepth
  <2> QED BY <2>1, <2>3, <2>4 DEF FinalFlags, Hot
<1>5. CASE /\ UNCHANGED <<tip, minHeight, final>>
           /\ pc' \in {"backfill", "receipts"} => pc \in {"backfill", "receipts"}
  BY <1>1, <1>5 DEF FinalFlags, Hot
<1>6. \/ CommitBlock \/ refreshFinality
      \/ /\ UNCHANGED <<tip, minHeight, final>>
         /\ pc' \in {"backfill", "receipts"} => pc \in {"backfill", "receipts"}
  BY StepCases DEF BeginTick, FetchBlock, FetchOlder, backfillArchive, EndTick, ReceiptAnswer,
     Grow, putBlock, Request, ReceiptFlips, vars
<1> QED BY <1>3, <1>4, <1>5, <1>6

\* Flags are true and, in the window, complete after every pass (indexer.js:
\* indexRange, refreshFinality), and a tick's scratch state ends with it, for any
\* chain length, depth, window, store and batch size.
THEOREM FlagsCorrect == Spec => []FlagsSound
<1>1. IInv /\ [Next]_vars => IInv'
  BY TypeStep, FinalStep DEF IInv
<1>2. IInv => FlagsSound
  BY DEF IInv, FlagsSound
<1> QED BY InvInit, <1>1, <1>2, PTL DEF Spec

=============================================================================
