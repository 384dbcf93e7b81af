----------------------------- MODULE ChainStats -----------------------------
(* What the store answers (src/src/store.js): lists, search and statistics    *)
(* over a window of recent blocks, each computed by a walk over the retained  *)
(* heights, which may have holes and need not reach back to the window's end. *)
EXTENDS HotStore

CONSTANTS NoMiner,  \* the proposer of a block that has none
          TimeOf,   \* block -> header timestamp, set by its miner
          BitsOf,   \* block -> signal bits set, or None where not recorded
          Bits,     \* bits of the deployments
          Window    \* windowBlocks

ASSUME StatsAssumption ==
  /\ TimeOf \in [Blocks -> Nat] /\ Window \in Nat \ {0} /\ None \notin Nat
  /\ \A b \in Blocks : BitsOf[b] = None \/ BitsOf[b] \subseteq Bits
  /\ (Heights \cup Txs) \cap Blocks = {} /\ (Heights \cup Blocks \cup Txs) \cap Accounts = {}

Larger(a, b) == IF a > b THEN a ELSE b
Smaller(a, b) == IF a < b THEN a ELSE b
Down(from, to) == [i \in 1..Larger(0, from - to + 1) |-> from - i + 1]
Upto(s, limit) == SubSeq(s, 1, Smaller(limit, Len(s)))
Reversed(s) == [i \in DOMAIN s |-> s[Len(s) - i + 1]]
\* The members of S in s, in the order of s: the k-th is where k of them are reached.
Selected(s, S) ==
  LET at == {i \in DOMAIN s : s[i] \in S}
  IN  [k \in 1..Cardinality(at) |-> s[CHOOSE i \in at : Cardinality({j \in at : j <= i}) = k]]

-----------------------------------------------------------------------------
(* Lists.                                                                    *)

\* A page of blocks, as heights, newest first.
BelowOnly(before, limit) ==  \* mutant: the page starts under its cursor
  Upto(Selected(Down(Smaller(before - 1, tip), low), Held), limit)
blocksBefore(before, limit) ==
  Upto(Selected(Down(Smaller(before, tip), low), Held), limit)

recentTxs(limit) ==
  LET all == Selected(Down(tip, low), {h \in Held : TxOf[blocks[h]] # None})
  IN  Upto([i \in DOMAIN all |-> TxOf[blocks[all[i]]]], limit)

OldestFirst(a, limit) ==  \* mutant: the list is read from its front
  Upto(Selected(ids[a], txs), limit)
accountTxs(a, limit) == Upto(Selected(Reversed(ids[a]), txs), limit)

search(q) ==
  CASE q \in Heights -> [kind |-> "block", ref |-> q, known |-> q \in Held]
    [] q \in hashed -> [kind |-> "block", ref |-> HeightOf[q], known |-> TRUE]
    [] q \in txs -> [kind |-> "tx", ref |-> q, known |-> TRUE]
    [] q \in Accounts -> [kind |-> "account", ref |-> q, known |-> ids[q] # <<>>]
    [] OTHER -> [kind |-> "hash", ref |-> q, known |-> FALSE]

-----------------------------------------------------------------------------
(* Statistics of the last w heights.                                         *)

Requested(w) == Larger(0, tip - w + 1)
From(w) == Larger(Requested(w), low)

\* for (let h = from; h <= tip; h++): what the loop has gathered at its end.
Walk(from, start, Step(_, _)) ==
  LET gathered[h \in Heights \cup {-1}] == IF h < from THEN start ELSE Step(gathered[h - 1], h)
  IN  gathered[tip]

Win(s, h) == IF blocks[h] = None \/ ProposerOf[blocks[h]] = NoMiner THEN s
             ELSE [covered |-> s.covered + 1,
                   wins |-> [s.wins EXCEPT ![ProposerOf[blocks[h]]] = @ + 1]]
windowMinerStats(w) ==
  LET walk == Walk(From(w), [covered |-> 0, wins |-> [p \in Proposers |-> 0]], Win)
  IN  [covered |-> walk.covered, wins |-> walk.wins,
       complete |-> tip >= 0 /\ From(w) = Requested(w) /\ walk.covered >= tip - From(w) + 1]

\* Differences of the timestamps of neighbours, w of them for w + 1 heights.
AcrossHoles(s, h) ==  \* mutant: a hole does not break the chain of differences
  IF blocks[h] = None THEN s
  ELSE LET ts == TimeOf[blocks[h]] IN
       [previous |-> ts,
        deltas |-> IF s.previous = None \/ ts < s.previous THEN s.deltas
                   ELSE Append(s.deltas, ts - s.previous),
        backwards |-> s.backwards + (IF s.previous # None /\ ts < s.previous THEN 1 ELSE 0)]
Interval(s, h) ==
  IF blocks[h] = None THEN [s EXCEPT !.previous = None]
  ELSE LET ts == TimeOf[blocks[h]] IN
       [previous |-> ts,
        deltas |-> IF s.previous = None \/ ts < s.previous THEN s.deltas
                   ELSE Append(s.deltas, ts - s.previous),
        backwards |-> s.backwards + (IF s.previous # None /\ ts < s.previous THEN 1 ELSE 0)]

\* The k-th of s in ascending order.
Sorted(s, k) == CHOOSE d \in {s[i] : i \in DOMAIN s} :
                  /\ Cardinality({i \in DOMAIN s : s[i] < d}) < k
                  /\ Cardinality({i \in DOMAIN s : s[i] <= d}) >= k

\* median2 is twice the median.
blockTimeStats(w) ==
  LET from == From(w + 1)
      walk == Walk(from, [previous |-> None, deltas |-> <<>>, backwards |-> 0], Interval)
      n == Len(walk.deltas)
      mid == n \div 2 + 1
      sum[i \in 0..n] == IF i = 0 THEN 0 ELSE sum[i - 1] + walk.deltas[i]
  IN  [intervals |-> n, nonMonotonic |-> walk.backwards,
       median2 |-> IF n = 0 THEN None
                   ELSE IF n % 2 = 1 THEN 2 * Sorted(walk.deltas, mid)
                   ELSE Sorted(walk.deltas, mid - 1) + Sorted(walk.deltas, mid),
       sum |-> sum[n],
       complete |-> n > 0 /\ from = Requested(w + 1) /\ n + walk.backwards = tip - from]

versionBitsSignaling(w) ==
  LET signal == {h \in From(w)..tip : blocks[h] # None /\ BitsOf[blocks[h]] # None}
  IN  [covered |-> Cardinality(signal),
       byBit |-> [bit \in Bits |-> Cardinality({h \in signal : bit \in BitsOf[blocks[h]]})]]

-----------------------------------------------------------------------------
(* Properties.                                                               *)

\* Pages join: asked again below the lowest height of the page before, as the API
\* documents, they list every retained block once, newest first, whatever was
\* added or evicted (store.js, blocksBefore).
PagesJoin ==
  \A limit \in 1..MaxBlocks :
    LET rest[before \in Heights \cup {-1}] ==
          LET page == blocksBefore(before, limit)
          IN  IF page = <<>> THEN <<>> ELSE page \o rest[page[Len(page)] - 1]
    IN  IF tip = -1 THEN Held = {} ELSE rest[tip] = Selected(Down(MaxHeight, 0), Held)

\* The transactions of an account, read from its ids, are those of the recent list,
\* read from the blocks, in the same order, for every limit; and search finds what
\* the lists show, under the block that holds it.
ListsAgree ==
  /\ \A a \in Accounts, limit \in 1..MaxBlocks :
       accountTxs(a, limit) =
         Upto(Selected(recentTxs(Infinity), {t \in Txs : a \in AccountsOf[t]}), limit)
  /\ \A b \in Blocks : search(b).known => blocks[search(b).ref] = b
  /\ \A a \in Accounts : search(a).known <=> accountTxs(a, 1) # <<>>

\* Together: the tables are those of the retained blocks, and every list read from
\* them shows the same blocks and transactions in the same order.
ListsSound == TablesExact /\ AccountsExact /\ LatestIsNewest /\ PagesJoin /\ ListsAgree

\* What a window reports is what the chain shows there: a miner's wins, the covered
\* heights, intervals of neighbouring retained heights only, none of them negative.
\* "complete" of the block times says that no height is missing, not that no interval
\* was dropped because its header went backwards: then the intervals of a complete
\* window come to more than the time it took.
WindowsHonest ==
  LET asked == {h \in Heights : tip - Window < h /\ h <= tip}
      pairs == {h \in asked : h - 1 \in Held /\ h \in Held}
      gap(h) == TimeOf[blocks[h]] - TimeOf[blocks[h - 1]]
      up == {h \in pairs : gap(h) >= 0}
      miners == windowMinerStats(Window)
      time == blockTimeStats(Window)
      elapsed == TimeOf[blocks[tip]] - TimeOf[blocks[Larger(0, tip - Window)]]
      signal == versionBitsSignaling(Window)
      recorded == {h \in asked \cap Held : BitsOf[blocks[h]] # None}
  IN
  /\ \A p \in Proposers \ {NoMiner} :
       miners.wins[p] = Cardinality({h \in asked \cap Held : ProposerOf[blocks[h]] = p})
  /\ miners.complete => asked \subseteq Held
  /\ time.intervals = Cardinality(up) /\ time.nonMonotonic = Cardinality(pairs \ up)
  /\ \A h \in up : Cardinality({k \in up : 2 * gap(k) < time.median2}) * 2 <= Cardinality(up)
  /\ time.complete <=> up # {} /\ asked \ {0} = pairs
  /\ time.complete => IF up = pairs THEN time.sum = elapsed ELSE time.sum > elapsed
  /\ signal.covered = Cardinality(recorded)
  /\ \A bit \in Bits : signal.byBit[bit] = Cardinality({h \in recorded : bit \in BitsOf[blocks[h]]})
=============================================================================
