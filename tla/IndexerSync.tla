---------------------------- MODULE IndexerSync ----------------------------
(* The ingest loop of one network (src/src/indexer.js): every tick asks the  *)
(* relay pool (src/src/rpc.js) for the head, decides whether the indexed     *)
(* chain is dead, indexes the missing blocks into the hot store              *)
(* (src/src/store.js), and pushes the durable archive (src/src/archive.js)   *)
(* one batch further towards genesis.  A step of the model is a maximal run  *)
(* of the code between two awaits, so relays, faults and restarts interleave *)
(* wherever the event loop may switch.                                       *)
(*                                                                           *)
(* A block stands for its whole record: the model keeps its identity (hash)  *)
(* and, through Prev, its prev_hash.  An index maps every height to the      *)
(* block held there, or NULL.                                                *)
EXTENDS Integers, FiniteSets

CONSTANTS Relays,        \* the configured relays of the network
          Blocks,        \* block identities (hashes)
          NULL,          \* no block, no hash
          MaxHeight,     \* highest height any relay serves (bound)
          Prev,          \* block -> prev_hash of its header
          Chains,        \* the chains relays may serve: [Heights -> Blocks \cup {NULL}]
          ConfigGenesis, \* pinned genesis of the network, NULL for a custom network
          HasArchive,    \* ARCHIVE_DIR is set
          MaxBlocks,     \* MAX_STORE_BLOCKS
          Backfill,      \* INDEX_BACKFILL_BLOCKS
          BatchSize,     \* INDEX_BATCH_SIZE
          ArchiveBatch,  \* ARCHIVE_BACKFILL_BATCH
          LiveCatchup,   \* liveCatchupThreshold
          MaxFaults,     \* relay moves, outages and archive write errors (bound)
          MaxRestarts    \* process restarts (bound)

Heights == 0..MaxHeight
NoBlocks == [h \in Heights |-> NULL]
Held(index) == {h \in Heights : index[h] # NULL}

\* A chain holds a prefix of the heights, each block extending the one below.
IsChain(c) == /\ c \in [Heights -> Blocks \cup {NULL}]
              /\ c[0] # NULL
              /\ \A h \in Heights \ {0} :
                    c[h] # NULL => c[h-1] # NULL /\ Prev[c[h]] = c[h-1]

ASSUME BoundsAssumption ==
  /\ MaxHeight \in Nat
  /\ MaxBlocks \in Nat \ {0}
  /\ Backfill \in Nat \ {0}
  /\ BatchSize \in Nat \ {0}
  /\ ArchiveBatch \in Nat \ {0}
  /\ LiveCatchup \in Nat
  /\ MaxFaults \in Nat
  /\ MaxRestarts \in Nat
  /\ HasArchive \in BOOLEAN

ASSUME ChainsAssumption ==
  /\ NULL \notin Blocks
  /\ Prev \in [Blocks -> Blocks \cup {NULL}]
  /\ \A c \in Chains : IsChain(c)
  /\ ConfigGenesis \in Blocks \cup {NULL}

VARIABLES
  \* the relays, outside the process
  chain,     \* relay -> the chain it serves
  up,        \* relays that answer a call made now
  faults,    \* faults so far
  \* the relay pool
  trust,     \* relay -> "pending", "verified" or "quarantined"
  pinned,    \* expectedGenesisHash
  \* the tick in progress
  pc,        \* the await the tick stands at
  head,      \* head read by this tick, published as nodeHeight
  lo, hi,    \* the range still to fetch
  batch,     \* blocks fetched of the batch in flight
  emit,      \* announce the blocks this pass commits
  \* the in-memory store
  known,     \* chainId is set
  genesis,   \* genesisHash
  hot,       \* blocksByHeight
  tip,       \* tipHeight
  phase,     \* syncPhase ("live" stands for live and degraded: ready)
  \* the durable archive
  archive,   \* table blocks
  archiveId, \* meta genesis_hash
  \* a browser connected since the process started
  feed,      \* height -> last block announced there since the last reset
  \* history
  owed,      \* the index was wiped and no reset broadcast since
  spliced,   \* a first sync wrote over an archive it had not restored
  restarts

relayVars == <<chain, up, faults>>
poolVars  == <<trust, pinned>>
tickVars  == <<pc, head, lo, hi, batch, emit>>
storeVars == <<known, genesis, hot, tip, phase>>
diskVars  == <<archive, archiveId>>
feedVars  == <<feed, owed>>
vars == <<relayVars, poolVars, tickVars, storeVars, diskVars, feedVars, spliced, restarts>>

PCs == {"idle", "bootGenesis", "head", "checkGenesis", "checkTip",
        "resetVerify", "resetGenesis", "fetch", "backfill"}
Phases == {"connecting", "bootstrap", "catching-up", "live", "halted", "offline", "rebuilding"}

IsIndex(f) == f \in [Heights -> Blocks \cup {NULL}]

-----------------------------------------------------------------------------
(* The relay pool, as the indexer meets it.                                  *)

\* Relays a call can reach: verified, not quarantined, answering.
Active == {r \in up : trust[r] = "verified"}

\* Answers a digest or block call at h may return after failover.  The empty
\* set is a null or a thrown error.
Answers(h) == {chain[r][h] : r \in {s \in Active : chain[s][h] # NULL}}

\* _verifyRelay on relay r against the expected genesis g.
Verified(r, g) ==
  IF trust[r] = "quarantined" THEN "quarantined"
  ELSE IF r \notin up THEN "pending"
  ELSE IF g # NULL /\ chain[r][0] # g THEN "quarantined"
  ELSE "verified"

\* verifyRelays pins the expected genesis, or the first valid relay's.
GenesisChoices ==
  IF pinned # NULL THEN {pinned}
  ELSE {chain[r][0] : r \in {s \in up : trust[s] # "quarantined"}}

\* A probe admits relays that were down at boot once they pass the same check.
ProbeTrust ==
  [r \in Relays |-> IF trust[r] = "pending" THEN Verified(r, pinned) ELSE trust[r]]

\* Best height and agreement at the common height among the relays R.
IsBest(R, n) == /\ \E r \in R : chain[r][n] # NULL
                /\ \A r \in R, h \in Heights : chain[r][h] # NULL => h <= n
IsCommon(R, n) == /\ \A r \in R : chain[r][n] # NULL
                  /\ \A h \in Heights : (\A r \in R : chain[r][h] # NULL) => h <= n
Consistent(R) ==
  \A n \in Heights : IsCommon(R, n) => \A r, s \in R : chain[r][n] = chain[s][n]

-----------------------------------------------------------------------------
(* Indexes of blocks: the hot store and the archive.                         *)

Unclamped(n) == n  \* mutant: no Math.max
Max0(n) == IF n < 0 THEN 0 ELSE n
Least(m, n) == IF m <= n THEN m ELSE n

\* addBlock / putBlock of the blocks g holds at the heights S.
Put(f, g, S) == [h \in Heights |-> IF h \in S THEN g[h] ELSE f[h]]

\* _evict: the lowest heights go until MaxBlocks are left.
EvictNewest(f) ==  \* mutant: eviction starts at the tip
  [h \in Heights |->
     IF Cardinality({k \in Held(f) : k <= h}) <= MaxBlocks THEN f[h] ELSE NULL]
Retain(f) ==
  [h \in Heights |->
     IF Cardinality({k \in Held(f) : k >= h}) <= MaxBlocks THEN f[h] ELSE NULL]

\* The tip is the highest height, -1 when the index is empty.
IsTip(f, t) == \/ t = -1 /\ Held(f) = {}
               \/ t \in Held(f) /\ \A h \in Held(f) : h <= t

\* Block b may stand on block p; a hole below is not checked.
AnyParent(b, p) == TRUE  \* mutant: no parent check
Extends(b, p) == p = NULL \/ Prev[b] = p

LowestHeld(f, m) == m \in Held(f) /\ \A h \in Held(f) : m <= h  \* mutant: blind to holes
\* contiguousFromHeight: the lowest height of the run that ends at the top.
IsFloor(f, m) ==
  /\ m \in Held(f)
  /\ m = 0 \/ f[m-1] = NULL
  /\ \E t \in Held(f) : /\ \A h \in Held(f) : h <= t
                        /\ \A h \in m..t : f[h] # NULL

-----------------------------------------------------------------------------
Init ==
  /\ chain \in [Relays -> Chains]
  /\ up = Relays
  /\ faults = 0
  /\ trust = [r \in Relays |-> "pending"]
  /\ pinned = ConfigGenesis
  /\ pc = "idle" /\ head = -1 /\ lo = 0 /\ hi = -1 /\ batch = NoBlocks /\ emit = FALSE
  /\ known = FALSE /\ genesis = NULL /\ hot = NoBlocks /\ tip = -1
  /\ phase = "connecting"
  /\ archive = NoBlocks /\ archiveId = NULL
  /\ feed = NoBlocks /\ owed = FALSE
  /\ spliced = FALSE /\ restarts = 0

\* The tick is over; start() schedules the next one.
EndTick ==
  pc' = "idle" /\ lo' = 0 /\ hi' = -1 /\ batch' = NoBlocks /\ emit' = FALSE

\* tick()'s catch: the store is marked not ready.
TickFails(why) == EndTick /\ phase' = why

\* An archive statement fails (a full disk, an I/O error).
ArchiveError == HasArchive /\ faults < MaxFaults /\ faults' = faults + 1

-----------------------------------------------------------------------------
(* A pass: from the decision what to index to the end of the tick.           *)

\* First height to index above tip t, and whether the pass is silent.
First(t, hd) == IF t < 0 THEN Max0(hd - Backfill + 1) ELSE t + 1
Suppressed(t, hd) == t < 0 \/ hd - t > LiveCatchup

\* backfillArchive up to its first await: the range below the contiguous run.
BackfillIncludesFloor(arch) ==  \* mutant: the range ends at the floor
  \/ \E m \in Heights \ {0} :
        /\ HasArchive /\ IsFloor(arch, m)
        /\ pc' = "backfill" /\ lo' = Max0(m - ArchiveBatch) /\ hi' = m
  \/ /\ ~(HasArchive /\ \E m \in Heights \ {0} : IsFloor(arch, m))
     /\ pc' = "idle" /\ lo' = 0 /\ hi' = -1
BackfillSparesGenesis(arch) ==  \* mutant: stops one block early
  \/ \E m \in Heights \ {0, 1} :
        /\ HasArchive /\ IsFloor(arch, m)
        /\ pc' = "backfill" /\ lo' = Max0(m - ArchiveBatch) /\ hi' = m - 1
  \/ /\ ~(HasArchive /\ \E m \in Heights \ {0, 1} : IsFloor(arch, m))
     /\ pc' = "idle" /\ lo' = 0 /\ hi' = -1
StartBackfill(arch) ==
  \/ \E m \in Heights \ {0} :
        /\ HasArchive /\ IsFloor(arch, m)
        /\ pc' = "backfill" /\ lo' = Max0(m - ArchiveBatch) /\ hi' = m - 1
  \/ /\ ~(HasArchive /\ \E m \in Heights \ {0} : IsFloor(arch, m))
     /\ pc' = "idle" /\ lo' = 0 /\ hi' = -1

\* The blocks up to head are in: ready.
FinishPass(arch) ==
  /\ phase' = "live" /\ batch' = NoBlocks /\ emit' = FALSE
  /\ StartBackfill(arch)

BeginPass(t, arch, hd) ==
  IF First(t, hd) <= hd
  THEN /\ pc' = "fetch" /\ lo' = First(t, hd) /\ hi' = hd
       /\ batch' = NoBlocks
       /\ emit' = ~Suppressed(t, hd)
       /\ phase' = IF t < 0 THEN "bootstrap" ELSE "catching-up"
  ELSE FinishPass(arch)

-----------------------------------------------------------------------------
(* init(): learn the identity, reconcile the archive with it, restore the    *)
(* hot store from it.  Called by the first tick and again after a wipe, each *)
(* time over an empty hot store.                                             *)

InitVerify ==
  /\ pc = "resetVerify" \/ (pc = "idle" /\ ~known)
  /\ \/ \E g \in GenesisChoices :
          /\ trust' = [r \in Relays |-> Verified(r, g)]
          /\ IF \E r \in Relays : trust'[r] = "verified"
             THEN /\ pinned' = g
                  /\ known' = TRUE
                  /\ pc' = IF pc = "idle" THEN "bootGenesis" ELSE "resetGenesis"
                  /\ UNCHANGED <<lo, hi, batch, emit, phase>>
             ELSE /\ TickFails("offline")
                  /\ UNCHANGED <<pinned, known>>
     \/ /\ GenesisChoices = {}
        /\ TickFails("offline")
        /\ UNCHANGED <<poolVars, known>>
  /\ UNCHANGED <<relayVars, head, genesis, hot, tip, diskVars, feedVars, spliced, restarts>>

\* ensureIdentity: an archive of another chain is cleared.
ForeignArchive(g) == archiveId # NULL /\ archiveId # g

\* onReset(): browsers that hear it reload.
ForgetReset == feed' = feed /\ owed' = FALSE  \* mutant: no broadcast
AnnounceReset == feed' = NoBlocks /\ owed' = FALSE

\* init() after its await of the genesis digest, up to the next await.
InitGenesis ==
  /\ pc \in {"bootGenesis", "resetGenesis"}
  /\ \E g \in Answers(0), t \in Heights \cup {-1} :
       /\ genesis' = g
       /\ archive' = IF ForeignArchive(g) THEN NoBlocks ELSE archive
       /\ archiveId' = IF HasArchive THEN g ELSE NULL
       /\ hot' = Retain(archive')
       /\ IsTip(hot', t)
       /\ tip' = t
       /\ IF pc = "bootGenesis"
          THEN /\ pc' = "head" /\ phase' = "bootstrap"
               /\ UNCHANGED <<lo, hi, batch, emit, feedVars>>
          ELSE /\ AnnounceReset
               /\ BeginPass(t, archive', head)
  /\ UNCHANGED <<relayVars, head, poolVars, known, spliced, restarts>>

\* The digest call fails, or the archive throws: chainId stays set, and only a
\* wipe calls init() again.
InitFails ==
  /\ pc \in {"bootGenesis", "resetGenesis"}
  /\ \/ Answers(0) = {} /\ UNCHANGED <<genesis, faults>>
     \/ \E g \in Answers(0) : genesis' = g /\ ArchiveError
  /\ TickFails("offline")
  /\ UNCHANGED <<chain, up, head, poolVars, known, hot, tip, diskVars, feedVars,
                 spliced, restarts>>

-----------------------------------------------------------------------------
(* syncOnce(): the head, and whether the indexed chain is dead.              *)

\* store.reset(): the archive first, then the hot store.
Wipe ==
  /\ hot' = NoBlocks /\ tip' = -1 /\ phase' = "rebuilding"
  /\ archive' = NoBlocks /\ archiveId' = NULL
  /\ owed' = TRUE /\ spliced' = FALSE
  /\ pc' = "resetVerify"
  /\ UNCHANGED <<faults, lo, hi, batch, emit, feed>>

WipeFails ==
  /\ ArchiveError
  /\ TickFails("offline")
  /\ UNCHANGED <<hot, tip, diskVars, feedVars, spliced>>

NotDead == UNCHANGED <<hot, tip, diskVars, feedVars, spliced, faults>>

HeadIgnored(hd) == FALSE  \* mutant: no rollback check
HeadBelowTip(hd) == hd < tip

\* chainWasReset once the genesis is known to match, or could not be compared.
AfterGenesis(hd) ==
  IF HeadBelowTip(hd) THEN Wipe \/ WipeFails
  ELSE pc' = "checkTip" /\ UNCHANGED <<lo, hi, batch, emit, phase>> /\ NotDead

\* rpc.height(): a probe of the verified relays that answer.
ReadHead ==
  /\ pc = "head" \/ (pc = "idle" /\ known)
  /\ trust' = ProbeTrust
  /\ LET R == {r \in up : trust'[r] = "verified"} IN
       \/ R = {} /\ TickFails("offline") /\ NotDead /\ UNCHANGED head
       \/ /\ R # {} /\ ~Consistent(R)
          /\ TickFails("halted") /\ NotDead /\ UNCHANGED head
       \/ /\ R # {} /\ Consistent(R)
          /\ \E n \in Heights :
               /\ IsBest(R, n)
               /\ head' = n
               /\ IF tip < 0 THEN BeginPass(tip, archive, n) /\ NotDead
                  ELSE IF genesis = NULL THEN AfterGenesis(n)
                  ELSE /\ pc' = "checkGenesis"
                       /\ UNCHANGED <<lo, hi, batch, emit, phase>> /\ NotDead
  /\ UNCHANGED <<chain, up, pinned, known, genesis, restarts>>

CheckGenesis ==
  /\ pc = "checkGenesis"
  /\ \/ \E g \in Answers(0) : g # genesis /\ (Wipe \/ WipeFails)
     \/ (genesis \in Answers(0) \/ Answers(0) = {}) /\ AfterGenesis(head)
  /\ UNCHANGED <<chain, up, head, poolVars, known, genesis, restarts>>

\* Same height, different hash: a reorg replaced the tip.
TipTrusted(b) == FALSE  \* mutant: no tip check
Replaced(b) == b # hot[tip]

CheckTip ==
  /\ pc = "checkTip"
  /\ \/ \E b \in Answers(tip) : Replaced(b) /\ (Wipe \/ WipeFails)
     \/ /\ (\E b \in Answers(tip) : ~Replaced(b)) \/ Answers(tip) = {}
        /\ BeginPass(tip, archive, head)
        /\ NotDead
  /\ UNCHANGED <<chain, up, head, poolVars, known, genesis, restarts>>

-----------------------------------------------------------------------------
(* indexRange() and backfillArchive(): fetch a batch, check it, store it.    *)

BatchEnd == IF pc = "fetch" THEN Least(hi, lo + BatchSize - 1) ELSE hi
Fetched == \A h \in lo..BatchEnd : batch[h] # NULL

\* Promise.all of BatchSize blocks; the archive batch awaits one after another.
Awaited(h) ==
  /\ h \in lo..BatchEnd
  /\ batch[h] = NULL
  /\ \A g \in lo..BatchEnd :
        (g - lo) \div BatchSize < (h - lo) \div BatchSize => batch[g] # NULL

FetchBlock(h) ==
  /\ pc \in {"fetch", "backfill"}
  /\ Awaited(h)
  /\ \E b \in Answers(h) : batch' = [batch EXCEPT ![h] = b]
  /\ UNCHANGED <<relayVars, poolVars, pc, head, lo, hi, emit, storeVars, diskVars,
                 feedVars, spliced, restarts>>

\* A missing or failed block ends the pass; backfillArchive's errors are kept
\* apart from the tick's.
FetchFails ==
  /\ pc \in {"fetch", "backfill"}
  /\ \E h \in lo..hi : Awaited(h) /\ Answers(h) = {}
  /\ IF pc = "fetch" THEN TickFails("offline") ELSE EndTick /\ UNCHANGED phase
  /\ UNCHANGED <<relayVars, head, poolVars, known, genesis, hot, tip, diskVars,
                 feedVars, spliced, restarts>>

\* The block height h of the batch must extend.
Below(h) == IF h > lo THEN batch[h-1] ELSE IF h > 0 THEN hot[h-1] ELSE NULL
RangeLinked == \A h \in lo..BatchEnd : Extends(batch[h], Below(h))

\* commitRecord of the heights lo..last, in order.
Commit(last) ==
  LET S == lo..last
      H == {h \in S : hot[h] = NULL}
  IN /\ hot' = Retain(Put(hot, batch, S))
     /\ tip' = IF lo <= last /\ tip < last THEN last ELSE tip
     /\ archive' = IF HasArchive THEN Put(archive, batch, S) ELSE archive
     /\ feed' = IF emit THEN Put(feed, batch, H) ELSE feed
     /\ spliced' = (spliced \/ (tip < 0 /\ lo <= last /\ archive # NoBlocks))
     /\ UNCHANGED <<archiveId, owed>>

CommitBatch ==
  /\ pc = "fetch" /\ Fetched /\ RangeLinked
  /\ Commit(BatchEnd)
  /\ IF BatchEnd < hi
     THEN /\ lo' = BatchEnd + 1 /\ batch' = NoBlocks
          /\ UNCHANGED <<pc, hi, emit, phase>>
     ELSE FinishPass(archive')
  /\ UNCHANGED <<relayVars, head, poolVars, known, genesis, restarts>>

\* The archive throws at the block above last: the blocks below stay committed.
CommitFails ==
  /\ pc = "fetch" /\ Fetched /\ RangeLinked
  /\ ArchiveError
  /\ \E last \in lo-1 .. BatchEnd-1 : Commit(last)
  /\ TickFails("offline")
  /\ UNCHANGED <<chain, up, head, poolVars, known, genesis, restarts>>

RejectBatch ==
  /\ pc = "fetch" /\ Fetched /\ ~RangeLinked
  /\ TickFails("offline")
  /\ UNCHANGED <<relayVars, head, poolVars, known, genesis, hot, tip, diskVars,
                 feedVars, spliced, restarts>>

AnyRange == TRUE  \* mutant: no parent check
ArchiveRangeLinked ==
  /\ \A h \in lo+1 .. hi : Prev[batch[h]] = batch[h-1]
  /\ archive[hi+1] # NULL => Prev[archive[hi+1]] = batch[hi]

\* putBlocks is one transaction.
BackfillCommit ==
  /\ pc = "backfill" /\ Fetched
  /\ IF ArchiveRangeLinked
     THEN \/ archive' = Put(archive, batch, lo..hi) /\ UNCHANGED faults
          \/ ArchiveError /\ UNCHANGED archive
     ELSE UNCHANGED <<archive, faults>>
  /\ EndTick
  /\ UNCHANGED <<chain, up, head, poolVars, storeVars, archiveId, feedVars, spliced, restarts>>

-----------------------------------------------------------------------------
(* The relays and the process manager.                                       *)

\* A relay follows another branch, is rolled back, catches up or lags behind.
RelayMoves(r, c) ==
  /\ faults < MaxFaults /\ faults' = faults + 1
  /\ c # chain[r] /\ chain' = [chain EXCEPT ![r] = c]
  /\ UNCHANGED <<up, poolVars, tickVars, storeVars, diskVars, feedVars, spliced, restarts>>

RelayFlips(r) ==
  /\ faults < MaxFaults /\ faults' = faults + 1
  /\ up' = IF r \in up THEN up \ {r} ELSE up \cup {r}
  /\ UNCHANGED <<chain, poolVars, tickVars, storeVars, diskVars, feedVars, spliced, restarts>>

\* The process dies at any await and systemd starts it again: memory is lost,
\* committed archive transactions are not, browsers reconnect and reload.
Restart ==
  /\ restarts < MaxRestarts /\ restarts' = restarts + 1
  /\ trust' = [r \in Relays |-> "pending"] /\ pinned' = ConfigGenesis
  /\ EndTick /\ head' = -1
  /\ known' = FALSE /\ genesis' = NULL /\ hot' = NoBlocks /\ tip' = -1
  /\ phase' = "connecting"
  /\ feed' = NoBlocks /\ owed' = FALSE
  /\ UNCHANGED <<relayVars, diskVars, spliced>>

Fetch == \E h \in Heights : FetchBlock(h)

Tick == \/ InitVerify \/ InitGenesis \/ InitFails
        \/ ReadHead \/ CheckGenesis \/ CheckTip
        \/ Fetch \/ FetchFails
        \/ CommitBatch \/ CommitFails \/ RejectBatch \/ BackfillCommit

Environment == \/ \E r \in Relays, c \in Chains : RelayMoves(r, c)
               \/ \E r \in Relays : RelayFlips(r)
               \/ Restart

Next == Tick \/ Environment

Spec == Init /\ [][Next]_vars

\* Every await settles (calls time out) and the timer fires: the loop goes on.
FairSpec == Spec /\ WF_vars(Tick)

-----------------------------------------------------------------------------
(* Properties.                                                               *)

Ready == phase = "live"

Linked(f) ==
  \A h \in Heights \ {0} : f[h] # NULL /\ f[h-1] # NULL => Prev[f[h]] = f[h-1]

\* No hole between two held heights.
Unbroken(f) ==
  \A g, k \in Held(f) : \A h \in Heights : g <= h /\ h <= k => f[h] # NULL

\* Every variable has its type: the shape of the store, the archive and the
\* state of a tick.
TypeOK ==
  /\ chain \in [Relays -> Chains] /\ up \subseteq Relays /\ faults \in 0..MaxFaults
  /\ trust \in [Relays -> {"pending", "verified", "quarantined"}]
  /\ pinned \in Blocks \cup {NULL}
  /\ pc \in PCs /\ head \in Heights \cup {-1}
  /\ lo \in Heights /\ hi \in Heights \cup {-1} /\ IsIndex(batch) /\ emit \in BOOLEAN
  /\ known \in BOOLEAN /\ genesis \in Blocks \cup {NULL}
  /\ IsIndex(hot) /\ tip \in Heights \cup {-1} /\ phase \in Phases
  /\ IsIndex(archive) /\ archiveId \in Blocks \cup {NULL}
  /\ IsIndex(feed) /\ owed \in BOOLEAN /\ spliced \in BOOLEAN
  /\ restarts \in 0..MaxRestarts

\* The tip of the hot store is its highest block, at most MaxBlocks blocks are
\* kept, and eviction never takes the tip: the parent check of the next batch
\* (indexRange) and the tip check of the next tick (chainWasReset) always have a
\* block to compare with.
TipHeld == IsTip(hot, tip) /\ Cardinality(Held(hot)) <= MaxBlocks

\* Whatever relays answer and wherever faults and restarts fall, the archive is
\* one unbroken chain that ends at the indexed tip and the hot store is its
\* upper part, as long as no first sync ran over an archive that init() had not
\* restored (spliced).
OneChain ==
  ~spliced =>
    /\ Linked(archive) /\ Unbroken(archive)
    /\ Linked(hot) /\ Unbroken(hot)
    /\ HasArchive => \A h \in Heights : hot[h] # NULL => archive[h] = hot[h]
    /\ HasArchive /\ tip >= 0 => \A h \in Held(archive) : h <= tip

\* Archived history is not rewritten: a block once archived keeps its height
\* until the whole archive is wiped, as long as the archive is not spliced.
NoSilentRewrite ==
  [][~spliced' =>
       \/ archive' = NoBlocks
       \/ \A h \in Held(archive) : archive'[h] = archive[h]]_vars

\* A browser that listens to the feed and reloads on a reset never holds a block
\* the index has replaced, once every wipe it is owed has been announced.
FeedMatchesIndex ==
  ~owed => \A h \in Heights : feed[h] # NULL /\ hot[h] # NULL => feed[h] = hot[h]

\* A wipe never leaves announced blocks standing behind the browser's back for
\* a height the index still serves differently: while none is owed, what the
\* feed announced is one chain up to the tip.
FeedLinked ==
  ~owed => Linked(feed) /\ \A h \in Held(feed) : h <= tip

\* Together: what the process and its disk hold is an index of one chain.
IndexSound == TypeOK /\ TipHeld /\ OneChain

\* Together: what browsers hold is of the chain the index holds.
FeedSound == FeedMatchesIndex /\ FeedLinked

\* "ready" outlives a tick only when everything up to the head it read is in.
ReadyMeansCaughtUp ==
  Ready /\ pc \in {"idle", "backfill"} => tip = head /\ hot[tip] # NULL

\* The relays that answer serve one branch, which the pool accepts.
OneBranch ==
  /\ up # {}
  /\ \A r, s \in up, h \in Heights :
        chain[r][h] # NULL /\ chain[s][h] # NULL => chain[r][h] = chain[s][h]

\* Everything the indexer holds is on the branch the relays serve.
Canonical(f) == \A h \in Held(f) : f[h] \in {chain[r][h] : r \in up}
Synced ==
  /\ Ready /\ IsBest(up, tip) /\ Canonical(hot)

\* Once the relays settle on one branch, the indexer keeps coming back to ready,
\* at their head, with only their blocks.
Settles == (<>[]OneBranch) => []<>Synced

\* And the archive grows down to genesis, and stays complete.
ArchiveComplete ==
  tip >= 0 /\ (\A h \in 0..tip : archive[h] # NULL) /\ Canonical(archive)
ArchiveFills == (<>[]OneBranch) => ([]<>spliced \/ <>[]ArchiveComplete)

-----------------------------------------------------------------------------
(* What the repository says of the program and the code does not keep.       *)

\* A head below the tip wipes the index because "our tip can't exist on the live
\* chain" (chainWasReset): no relay of the pool, reachable or not, still serves
\* the tip when the index is wiped.
WipedOnlyWhenDead ==
  [][tip >= 0 /\ pc' = "resetVerify" => \A r \in Relays : chain[r][tip] # hot[tip]]_vars
=============================================================================
