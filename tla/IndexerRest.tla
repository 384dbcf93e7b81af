---------------------------- MODULE IndexerRest ----------------------------
(* The index of one network while requests write its archive too: a block or *)
(* a transaction that is neither in the hot store nor in the archive is      *)
(* fetched from a relay and archived on the way out (src/src/rest.js).       *)
EXTENDS IndexerSync

CONSTANTS CacheMax, \* HISTORY_CACHE_MAX
          Sought    \* the heights and blocks that requests ask for (bound)

ASSUME CacheAssumption == CacheMax \in Nat \ {0}

VARIABLES
  ask,    \* what a request waits for, NoRequest when none does
  got,    \* the block a relay answered it and the height of it, or Nothing
  memo,   \* historyCache: per reference the block it answers, or Nothing
  byRest, \* history: heights whose archived block a request put there
  seam,   \* history: the indexer wrote beside its own archived blocks uncompared
  mixed   \* history: the hot store was restored over a request's blocks

restVars == <<ask, got, memo, byRest, seam, mixed>>
allVars == <<vars, restVars>>

\* /api/block/<height>, /api/block/<hash>, and /api/tx/<id> of a transaction of a
\* block, which becomes a request of the height on its receipt.
NoRequest == [by |-> "none", ref |-> NULL]
Requests == [by : {"height", "receipt"}, ref : Heights] \cup [by : {"hash", "tx"}, ref : Blocks]

Refs == Heights \cup Blocks
Nothing == [height |-> -1, block |-> NULL]
Records == [height : Heights, block : Blocks]

RestInit == /\ ask = NoRequest /\ got = Nothing /\ memo = [ref \in Refs |-> Nothing]
            /\ byRest = {} /\ seam = FALSE /\ mixed = FALSE

\* store.archive.putBlock, which replaces what the height holds; or it throws (502).
PutOnDemand(h, b) ==
  /\ \/ /\ archive' = IF HasArchive THEN [archive EXCEPT ![h] = b] ELSE archive
        /\ byRest' = IF HasArchive THEN byRest \cup {h} ELSE byRest
        /\ UNCHANGED faults
     \/ ArchiveError /\ UNCHANGED <<archive, byRest>>
  /\ UNCHANGED <<chain, up, poolVars, tickVars, storeVars, archiveId, feedVars, spliced, restarts,
                 seam, mixed>>

\* The store and the archive are asked first, each by the reference itself: a block
\* of another branch is unknown there although its height is held.
Known(q) ==
  IF q.by = "height" THEN hot[q.ref] # NULL \/ archive[q.ref] # NULL
  ELSE \E h \in Heights : hot[h] = q.ref \/ archive[h] = q.ref

\* Then, for a block, the cache; what is found there is archived again.
Ask(q) ==
  /\ ask = NoRequest /\ ~Known(q)
  /\ \/ /\ q.by = "tx" \/ memo[q.ref] = Nothing
        /\ ask' = q /\ UNCHANGED <<vars, got, memo, byRest, seam, mixed>>
     \/ /\ q.by # "tx" /\ memo[q.ref] # Nothing
        /\ PutOnDemand(memo[q.ref].height, memo[q.ref].block) /\ UNCHANGED <<ask, got, memo>>
Request == \E q \in Requests : q.by # "receipt" /\ q.ref \in Sought /\ Ask(q)

\* Some active relay serves block b at height h.
Serves(h, b) == b \in Answers(h)

\* The receipt of a transaction tells the height it is at.
ReceiptArrives ==
  /\ ask.by = "tx"
  /\ \E h \in Heights : Serves(h, ask.ref) /\ ask' = [by |-> "receipt", ref |-> h]
  /\ UNCHANGED <<vars, got, memo, byRest, seam, mixed>>

\* blockPair of the height, after blockByHash for a hash, which the pair must have.
Answer ==
  /\ ask # NoRequest /\ ask.by # "tx" /\ got = Nothing
  /\ \E h \in Heights, b \in Blocks :
       /\ Serves(h, b)
       /\ ask.ref = IF ask.by = "hash" THEN b ELSE h
       /\ got' = [height |-> h, block |-> b]
  /\ UNCHANGED <<vars, ask, memo, byRest, seam, mixed>>

\* A call fails, or no relay holds the block: 404.  That a block is missing is
\* cached as well, but changes nothing here.
NotFound ==
  /\ ask # NoRequest /\ got = Nothing
  /\ ask' = NoRequest
  /\ UNCHANGED <<vars, got, memo, byRest, seam, mixed>>

\* cachedHistory keeps CacheMax entries; which one is the oldest is left open.
Remember(ref, v) ==
  LET others == {r \in Refs \ {ref} : memo[r] # Nothing} IN
    IF Cardinality(others) < CacheMax THEN memo' = [memo EXCEPT ![ref] = v]
    ELSE \E oldest \in others : memo' = [memo EXCEPT ![ref] = v, ![oldest] = Nothing]

GotKept ==  \* mutant: the answer outlives its request
  /\ got # Nothing /\ ask.by = "receipt" /\ PutOnDemand(got.height, got.block)
  /\ ask' = NoRequest /\ UNCHANGED <<got, memo>>
\* /api/block caches and archives what arrived, whatever the height holds by now;
\* /api/tx archives it only, also when the transaction is not in it.
BlockArrives ==
  /\ got # Nothing /\ ask.by # "receipt"
  /\ PutOnDemand(got.height, got.block)
  /\ Remember(ask.ref, got)
  /\ ask' = NoRequest /\ got' = Nothing
TxArrives ==
  /\ got # Nothing /\ ask.by = "receipt"
  /\ PutOnDemand(got.height, got.block)
  /\ ask' = NoRequest /\ got' = Nothing /\ UNCHANGED memo

\* HISTORY_CACHE_TTL_MS.
Forget(ref) ==
  /\ memo[ref] # Nothing
  /\ memo' = [memo EXCEPT ![ref] = Nothing]
  /\ UNCHANGED <<vars, ask, got, byRest, seam, mixed>>

Own == Held(archive) \ byRest

\* The indexer compares a block with the neighbour it knows: the one below in a
\* pass, the one above in a backfill.  Its own blocks on the other side stay
\* uncompared when a first sync runs over what it had archived, and when a block
\* that a request archived above the tip makes the backfill start up there.
Uncompared ==
  \/ pc = "fetch" /\ tip < 0 /\ hot' # hot /\ Own # {}
  \/ pc = "backfill" /\ archive' # archive /\ (tip <= hi \/ \E h \in Own : h <= hi)

\* init() restores the hot store from the archive, a request's blocks among it.
Restored == pc \in {"bootGenesis", "resetGenesis"} /\ byRest \cap Held(hot') # {}

\* The indexer goes on; a height it writes anew is not a request's any more.
Ours ==
  /\ byRest' = {h \in byRest : archive'[h] = archive[h]}
  /\ seam' = (archive' # NoBlocks /\ (seam \/ Uncompared))
  /\ mixed' = (hot' # NoBlocks /\ (mixed \/ Restored))
IndexerStep == (Tick \/ \E r \in Relays, c \in Chains : RelayMoves(r, c) \/ RelayFlips(r))
               /\ Ours /\ UNCHANGED <<ask, got, memo>>
Reboot == /\ Restart /\ ask' = NoRequest /\ got' = Nothing /\ memo' = [ref \in Refs |-> Nothing]
          /\ mixed' = FALSE /\ UNCHANGED <<byRest, seam>>

RestNext == IndexerStep \/ Reboot
            \/ Request \/ ReceiptArrives \/ Answer \/ NotFound \/ BlockArrives \/ TxArrives
            \/ \E ref \in Refs : Forget(ref)
\* The loop goes on as in IndexerSync, and no cached answer outlives its time.
RestFairness == /\ WF_allVars(Tick /\ Ours /\ UNCHANGED <<ask, got, memo>>)
                /\ \A ref \in Refs : WF_allVars(Forget(ref))
RestSpec == Init /\ RestInit /\ [][RestNext]_allVars /\ RestFairness

-----------------------------------------------------------------------------
(* Properties.                                                               *)

\* Every variable has its type.
RestTypeOK ==
  /\ TypeOK
  /\ ask \in Requests \cup {NoRequest} /\ got \in Records \cup {Nothing}
  /\ got # Nothing => ask \in Requests /\ ask.by # "tx"
  /\ memo \in [Refs -> Records \cup {Nothing}]
  /\ byRest \subseteq Held(archive) /\ seam \in BOOLEAN /\ mixed \in BOOLEAN

\* Requests may leave holes and strangers, but never make the indexer write two
\* blocks next to each other that do not join, as long as it could compare them.
LinkedElsewhere ==
  ~seam => \A h \in Heights \ {0} :
    {h, h - 1} \cap byRest = {} /\ archive[h] # NULL /\ archive[h-1] # NULL
      => Prev[archive[h]] = archive[h-1]

\* Together: what two writers make of the archive.
SharedArchiveSound == RestTypeOK /\ LinkedElsewhere

\* Once the relays settle, the archive still fills down to genesis over the holes
\* that requests left, unless it holds a block that is off their branch.
FillsAnyway == (<>[]OneBranch) => <>[](ArchiveComplete \/ ~Canonical(archive))

\* And the index keeps coming back to ready at their head, with only their blocks
\* unless it was restored over blocks of requests: then dead ones may stay below.
SettlesAnyway ==
  (<>[]OneBranch) => []<>(/\ Ready /\ IsBest(up, tip) /\ Serves(tip, hot[tip])
                          /\ Canonical(hot) \/ mixed)
=============================================================================
