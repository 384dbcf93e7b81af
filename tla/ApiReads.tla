------------------------------ MODULE ApiReads ------------------------------
(* The caches between the API and the store: the memoized statistics          *)
(* (store.js, stats) and the pages of historical blocks (rest.js, blocks),    *)
(* whose rows come from the store or, one after the other, from the node,     *)
(* while the indexer adds, evicts and wipes and the node changes its branch.  *)
(* Without an archive; one page under way, one height per batch (bounds).     *)
EXTENDS ChainStats

CONSTANTS Chains,    \* the node's branches: sets of blocks, one per height and transaction
          PageLimit, \* rows of a page
          Depth,     \* confirmations that make a block final
          CacheMax   \* HISTORY_CACHE_MAX

ASSUME ReadsAssumption ==
  /\ Chains \subseteq SUBSET Blocks /\ {PageLimit, Depth, CacheMax} \subseteq Nat \ {0}
  /\ \A C \in Chains : \A b, c \in C :
       HeightOf[b] = HeightOf[c] \/ (TxOf[b] = TxOf[c] /\ TxOf[b] # None) => b = c

VARIABLES
  node,        \* the branch the node serves
  statsCache,  \* _statsCache, None if unset
  load,        \* the page under way: its key, tip, heights left, rows, whether the node is asked
  history      \* historyCache: key -> page
readVars == <<node, statsCache, load, history>>

-----------------------------------------------------------------------------
(* Statistics.                                                               *)

StatsNow == [tipHeight |-> tip, indexedFrom |-> low, count |-> Cardinality(Held), txs |-> txs,
             proposers |-> {p \in Proposers : proposers[p].blocks > 0},
             miners |-> windowMinerStats(Window), blockTime |-> blockTimeStats(Window),
             signaling |-> versionBitsSignaling(Window)]

NeverTouched == UNCHANGED statsCache  \* mutant: the memo is left to its time
touchStats == statsCache' = None

\* A memo is used for a second; the step where it is replaced stands for both.
Stats ==
  /\ ~ evicting
  /\ statsCache' = StatsNow
  /\ UNCHANGED <<storeVars, node, load, history>>

-----------------------------------------------------------------------------
(* Pages.                                                                    *)

KeyWithoutTip(before) == <<0, before>>  \* mutant: derived finality outlives its tip
Key(before) == <<tip, before>>

Start(before) == Larger(0, Smaller(before, tip))
finalAtDepth(t, h) == h = 0 \/ t - h + 1 >= Depth
Row(b, t) == [block |-> b, final |-> finalAtDepth(t, HeightOf[b])]
settled == Retained \subseteq node

\* clean (history): neither the node's branch nor the store's has changed since.
PageRequest ==
  /\ ~ evicting /\ load = None
  /\ \E before \in Heights :
       LET start == Start(before) IN
       /\ Key(start) \notin DOMAIN history
       /\ load' = [key |-> Key(start), tip |-> tip, start |-> start, rows |-> <<>>,
                   left |-> Down(start, Larger(0, start - PageLimit + 1)),
                   asked |-> FALSE, clean |-> settled]
  /\ UNCHANGED <<storeVars, node, statsCache, history>>

Took(rows) == load' = [load EXCEPT !.rows = IF load.clean THEN @ \o rows ELSE @,
                                   !.left = Tail(@), !.asked = FALSE]

ReadRow ==
  /\ ~ evicting /\ load # None /\ load.left # <<>> /\ ~ load.asked
  /\ LET h == Head(load.left) IN
       IF h \in Held THEN Took(<<Row(blocks[h], load.tip)>>)
       ELSE load' = [load EXCEPT !.asked = TRUE]
  /\ UNCHANGED <<storeVars, node, statsCache, history>>

\* A digest the node does not give is left out of the page.
NodeRow ==
  /\ ~ evicting /\ load # None /\ load.asked
  /\ \/ \E b \in node : HeightOf[b] = Head(load.left) /\ Took(<<Row(b, load.tip)>>)
     \/ Took(<<>>)
  /\ UNCHANGED <<storeVars, node, statsCache, history>>

cachedHistory ==
  /\ ~ evicting /\ load # None /\ load.left = <<>>
  /\ LET all == [k \in DOMAIN history \cup {load.key} |->
                     IF k = load.key THEN load ELSE history[k]] IN
       IF Cardinality(DOMAIN all) <= CacheMax THEN history' = all
       ELSE \E k \in DOMAIN history : history' = [l \in DOMAIN all \ {k} |-> all[l]]
  /\ load' = None
  /\ UNCHANGED <<storeVars, node, statsCache>>

\* An entry expires.  (A full cache drops its first entry; here, any older one.)
Forget ==
  /\ \E k \in DOMAIN history : history' = [l \in DOMAIN history \ {k} |-> history[l]]
  /\ UNCHANGED <<storeVars, node, statsCache, load>>

\* Of the rows of such a page nothing is claimed: they are forgotten (abstraction).
Soiled(page) == [page EXCEPT !.clean = FALSE, !.rows = <<>>]
Soil == /\ load' = IF load = None THEN None ELSE Soiled(load)
        /\ history' = [k \in DOMAIN history |-> Soiled(history[k])]

-----------------------------------------------------------------------------
(* The indexer follows the node and wipes when its blocks are not the node's. *)

IndexBlock ==
  /\ settled /\ \E b \in node : Commit(b)
  /\ touchStats /\ UNCHANGED <<node, load, history>>

Wipe == ~ evicting /\ ~ settled /\ Reset /\ touchStats /\ Soil /\ UNCHANGED node

Reorganise ==
  /\ \E C \in Chains \ {node} : node' = C
  /\ Soil /\ UNCHANGED <<storeVars, statsCache>>

ReadsInit == Init /\ node \in Chains /\ statsCache = None /\ load = None /\ history = <<>>
ReadsNext == \/ IndexBlock \/ Wipe \/ Reorganise \/ (Evict /\ UNCHANGED readVars)
             \/ Stats \/ PageRequest \/ ReadRow \/ NodeRow \/ cachedHistory \/ Forget
ReadsSpec == ReadsInit /\ [][ReadsNext]_<<storeVars, readVars>>

-----------------------------------------------------------------------------
(* Properties.                                                               *)

\* The memoized statistics are those of the store as it is: every change of the
\* chain data unsets them first (store.test.js, "cached until chain state changes").
StatsFresh == ~ evicting /\ statsCache # None => statsCache = StatsNow

\* The page a request would get from the cache now is the page of the node's chain:
\* the rows asked for, newest first, the ones the node did not give left out, none
\* of another branch, each flagged final for the tip the reader sees; unless the
\* node's branch or the index changed since it was asked for.
PageRight ==
  ~ evicting => \A before \in Heights :
    LET start == Start(before)  page == history[Key(start)]
        Wanted == {b \in node : start - PageLimit < HeightOf[b] /\ HeightOf[b] <= start}
    IN  Key(start) \in DOMAIN history /\ page.clean =>
          /\ \A i \in DOMAIN page.rows :
               /\ page.rows[i].block \in Wanted
               /\ page.rows[i].final = finalAtDepth(tip, HeightOf[page.rows[i].block])
               /\ \A j \in 1..(i - 1) : HeightOf[page.rows[j].block] > HeightOf[page.rows[i].block]
          /\ Wanted \cap Retained \subseteq {page.rows[i].block : i \in DOMAIN page.rows}
=============================================================================
