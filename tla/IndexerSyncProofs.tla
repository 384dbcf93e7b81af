------------------------- MODULE IndexerSyncProofs -------------------------
(* Invariants of IndexerSync for every set of relays, every chain they may   *)
(* serve and every bound: the type invariant, the tip of the hot store, one  *)
(* linked chain in the store and the archive, the feed, readiness, and that  *)
(* archived blocks are not rewritten; and what is left of the archive's      *)
(* chain when requests write to it too.                                      *)
EXTENDS IndexerRest, FiniteSetTheorems, WellFoundedInduction, TLAPS

-----------------------------------------------------------------------------
(* Heights, and what eviction keeps.                                         *)

LEMMA HeightsFinite == \A S \in SUBSET Heights :
                          IsFiniteSet(S) /\ Cardinality(S) \in Nat
<1> TAKE S \in SUBSET Heights
<1>1. IsFiniteSet(Heights)
  BY BoundsAssumption, FS_Interval DEF Heights
<1> QED BY <1>1, FS_Subset, FS_CardinalityType

\* A set of heights has a highest one: the sets {k \in S : k > h} are finite,
\* so one of them is minimal for inclusion.
LEMMA HighestExists ==
  ASSUME NEW S \in SUBSET Heights, S # {}
  PROVE  \E t \in S : \A h \in S : h <= t
<1> DEFINE Above(h) == {k \in S : k > h}
           T == {Above(h) : h \in S}
<1>1. T \subseteq FiniteSubsetsOf(S)
  BY HeightsFinite DEF FiniteSubsetsOf
<1>2. PICK U \in T : \A V \in T : ~ (<<V, U>> \in StrictSubsetOrdering(S))
  <2>1. T # {}
    OBVIOUS
  <2> HIDE DEF T
  <2> QED BY ONLY <1>1, <2>1, WFMin, FS_StrictSubsetOrderingWellFounded
<1>3. PICK t \in S : U = Above(t)
  BY <1>2
<1>4. \A h \in S : h <= t
  <2> SUFFICES ASSUME NEW h \in S, h > t PROVE FALSE
    BY BoundsAssumption DEF Heights
  <2>0. S \subseteq Int
    BY BoundsAssumption DEF Heights
  <2>1. Above(h) \subseteq Above(t) /\ h \in Above(t) /\ h \notin Above(h)
    <3>1. h \in Above(t) /\ h \notin Above(h)
      BY <2>0
    <3>2. \A k \in S : k > h => k > t
      BY <2>0
    <3> QED BY <3>1, <3>2
  <2>2. <<Above(h), Above(t)>> \in StrictSubsetOrdering(S)
    BY <2>1 DEF StrictSubsetOrdering
  <2> QED BY <1>2, <1>3, <2>2
<1> QED BY <1>4

LEMMA LowestExists ==
  ASSUME NEW S \in SUBSET Heights, S # {}
  PROVE  \E t \in S : \A h \in S : t <= h
<1> DEFINE R == {MaxHeight - h : h \in S}
<1>1. R \in SUBSET Heights /\ R # {}
  <2>1. \A h \in S : MaxHeight - h \in Heights
    BY BoundsAssumption DEF Heights
  <2> QED BY <2>1
<1>2. PICK r \in R : \A h \in R : h <= r
  <2> HIDE DEF R
  <2> QED BY <1>1, HighestExists
<1>3. PICK t \in S : r = MaxHeight - t
  BY <1>2
<1>4. \A h \in S : MaxHeight - h <= MaxHeight - t
  BY <1>2, <1>3
<1> QED BY <1>4, BoundsAssumption DEF Heights

\* Eviction leaves an index whose blocks are blocks of the original, from some
\* height up, never more than MaxBlocks of them.
LEMMA RetainKeeps ==
  ASSUME NEW f, IsIndex(f)
  PROVE  /\ IsIndex(Retain(f))
         /\ \A h \in Heights : Retain(f)[h] # NULL => Retain(f)[h] = f[h]
         /\ \A h, k \in Heights :
               Retain(f)[h] # NULL /\ h <= k => Retain(f)[k] = f[k]
         /\ Cardinality(Held(Retain(f))) <= MaxBlocks
<1> DEFINE Over(h) == {k \in Held(f) : k >= h}
<1>0. \A h \in Heights : Over(h) \in SUBSET Heights
  BY DEF Held
<1>1. Retain(f) = [h \in Heights |-> IF Cardinality(Over(h)) <= MaxBlocks THEN f[h] ELSE NULL]
  BY DEF Retain
<1>2. IsIndex(Retain(f)) /\ \A h \in Heights : Retain(f)[h] # NULL => Retain(f)[h] = f[h]
  BY <1>1 DEF IsIndex
<1>3. \A h, k \in Heights : h <= k => Cardinality(Over(k)) <= Cardinality(Over(h))
  <2> SUFFICES ASSUME NEW h \in Heights, NEW k \in Heights, h <= k
               PROVE  Cardinality(Over(k)) <= Cardinality(Over(h))
    OBVIOUS
  <2>1. Over(k) \in SUBSET Over(h)
    BY BoundsAssumption DEF Heights, Held
  <2>2. IsFiniteSet(Over(h))
    BY <1>0, HeightsFinite
  <2> HIDE DEF Over
  <2> QED BY <2>1, <2>2, FS_Subset
<1>4. ASSUME NEW h \in Heights, NEW k \in Heights, Retain(f)[h] # NULL, h <= k
      PROVE  Retain(f)[k] = f[k]
  <2>1. Cardinality(Over(h)) <= MaxBlocks
    BY <1>1, <1>4
  <2>2. Cardinality(Over(h)) \in Nat /\ Cardinality(Over(k)) \in Nat
    BY <1>0, HeightsFinite
  <2>3. Cardinality(Over(k)) <= MaxBlocks
    <3> HIDE DEF Over
    <3> QED BY <2>1, <2>2, <1>3, <1>4, BoundsAssumption
  <2> QED BY <1>1, <2>3
<1>5. Cardinality(Held(Retain(f))) <= MaxBlocks
  <2>1. CASE Held(Retain(f)) = {}
    BY <2>1, FS_EmptySet, BoundsAssumption
  <2>2. CASE Held(Retain(f)) # {}
    <3>1. PICK m \in Held(Retain(f)) : \A h \in Held(Retain(f)) : m <= h
      BY <2>2, LowestExists DEF Held
    <3>2. Cardinality(Over(m)) <= MaxBlocks
      BY <1>1, <3>1 DEF Held
    <3>3. Held(Retain(f)) \in SUBSET Over(m)
      BY <1>2, <3>1, BoundsAssumption DEF Held, Heights
    <3>4. IsFiniteSet(Over(m)) /\ Cardinality(Over(m)) \in Nat
      BY <3>1, <1>0, HeightsFinite DEF Held
    <3>5. Cardinality(Held(Retain(f))) <= Cardinality(Over(m)) /\ Cardinality(Held(Retain(f))) \in Nat
      <4> HIDE DEF Over
      <4> QED BY <3>3, <3>4, FS_Subset, FS_CardinalityType
    <3> HIDE DEF Over
    <3> QED BY <3>2, <3>4, <3>5, BoundsAssumption
  <2> QED BY <2>1, <2>2
<1> HIDE DEF Over
<1> QED BY <1>2, <1>4, <1>5

\* Eviction never takes the highest block.
LEMMA RetainTip ==
  ASSUME NEW f, IsIndex(f), NEW t \in Heights \cup {-1}
  PROVE  IsTip(Retain(f), t) <=> IsTip(f, t)
<1> DEFINE Over(h) == {k \in Held(f) : k >= h}
<1>1. Retain(f) = [h \in Heights |-> IF Cardinality(Over(h)) <= MaxBlocks THEN f[h] ELSE NULL]
  BY DEF Retain
<1>2. ASSUME NEW m \in Held(f), \A h \in Held(f) : h <= m
      PROVE  m \in Held(Retain(f))
  <2>1. Over(m) = {m}
    BY <1>2, BoundsAssumption DEF Held, Heights
  <2>2. Cardinality(Over(m)) <= MaxBlocks
    <3>1. Cardinality({m}) = 1
      BY FS_Singleton
    <3> HIDE DEF Over
    <3> QED BY <2>1, <3>1, BoundsAssumption
  <2> QED BY <2>2, <1>1, <1>2 DEF Held
<1>3. Held(Retain(f)) \subseteq Held(f)
  BY RetainKeeps DEF Held
<1>4. CASE Held(f) = {}
  BY <1>3, <1>4 DEF IsTip
<1>5. CASE Held(f) # {}
  <2>1. PICK m \in Held(f) : \A h \in Held(f) : h <= m
    BY <1>5, HighestExists DEF Held
  <2>2. m \in Held(Retain(f))
    BY <1>2, <2>1
  <2> QED BY <2>1, <2>2, <1>3, BoundsAssumption DEF IsTip, Held, Heights
<1> QED BY <1>4, <1>5

-----------------------------------------------------------------------------
(* The inductive invariant: the properties, and what holds at each await.    *)

\* What a tick may rely on when it resumes.  The batch in flight continues the
\* tip, or the contiguous run of the archive from below; a wipe is followed by
\* init() over an empty store and an empty archive.
Control ==
  /\ ~known => pc = "idle" /\ tip = -1
  /\ pc \in {"bootGenesis", "resetVerify", "resetGenesis"} => tip = -1
  /\ pc \in {"resetVerify", "resetGenesis"} => archive = NoBlocks /\ head \in Heights
  /\ pc \in {"checkGenesis", "checkTip"} => tip >= 0 /\ head \in Heights
  /\ pc = "checkTip" => tip <= head
  /\ pc = "fetch" => /\ head \in Heights /\ hi = head /\ lo <= hi
                     /\ tip >= 0 => lo = tip + 1
  /\ pc = "backfill" => /\ HasArchive
                        /\ hi >= 0 /\ lo <= hi /\ hi < MaxHeight
                        /\ archive[hi] = NULL /\ archive[hi+1] # NULL
  /\ ~HasArchive => archive = NoBlocks

IInv == /\ TypeOK /\ TipHeld /\ Control /\ OneChain
        /\ FeedMatchesIndex /\ FeedLinked /\ ReadyMeansCaughtUp

-----------------------------------------------------------------------------
(* Pieces of steps.                                                          *)

LEMMA NoBlocksIndex == IsIndex(NoBlocks) /\ Held(NoBlocks) = {}
BY DEF IsIndex, NoBlocks, Held

LEMMA PutIndex ==
  ASSUME NEW f, NEW b, IsIndex(f), IsIndex(b), NEW S
  PROVE  IsIndex(Put(f, b, S))
BY DEF IsIndex, Put

LEMMA ChainBlocks ==
  ASSUME TypeOK, NEW r \in Relays, NEW h \in Heights
  PROVE  chain[r][h] \in Blocks \cup {NULL}
BY ChainsAssumption DEF TypeOK, IsChain

LEMMA AnswerBlocks ==
  ASSUME TypeOK, NEW h \in Heights, NEW b \in Answers(h)
  PROVE  b \in Blocks
BY ChainBlocks DEF Answers, Active, TypeOK

LEMMA GenesisBlocks ==
  ASSUME TypeOK, NEW b \in GenesisChoices
  PROVE  b \in Blocks
<1>1. \A r \in Relays : chain[r][0] \in Blocks
  BY ChainsAssumption, BoundsAssumption DEF TypeOK, IsChain, Heights
<1> QED BY <1>1 DEF GenesisChoices, TypeOK

\* A relay is verified, pending or quarantined.
LEMMA VerifiedType ==
  ASSUME TypeOK, NEW r \in Relays, NEW b
  PROVE  Verified(r, b) \in {"pending", "verified", "quarantined"}
BY DEF Verified, TypeOK

\* backfillArchive either has nothing to do or asks for the range just below a
\* held height.
LEMMA StartBackfillFacts ==
  ASSUME NEW arch, StartBackfill(arch)
  PROVE  \/ pc' = "idle" /\ lo' = 0 /\ hi' = -1
         \/ /\ pc' = "backfill" /\ HasArchive
            /\ lo' \in Heights /\ hi' \in Heights /\ lo' <= hi' /\ hi' < MaxHeight
            /\ arch[hi'] = NULL /\ arch[hi'+1] # NULL
<1>1. ASSUME NEW m \in Heights \ {0}, HasArchive, IsFloor(arch, m),
             pc' = "backfill", lo' = Max0(m - ArchiveBatch), hi' = m - 1
      PROVE  /\ pc' = "backfill" /\ HasArchive
             /\ lo' \in Heights /\ hi' \in Heights /\ lo' <= hi' /\ hi' < MaxHeight
             /\ arch[hi'] = NULL /\ arch[hi'+1] # NULL
  BY <1>1, BoundsAssumption DEF IsFloor, Held, Heights, Max0
<1> QED BY <1>1 DEF StartBackfill

\* A pass fetches the heights above the tip, or is done.
LEMMA BeginPassFacts ==
  ASSUME NEW t \in Heights \cup {-1}, NEW arch, NEW hd \in Heights \cup {-1},
         BeginPass(t, arch, hd)
  PROVE  /\ batch' = NoBlocks /\ emit' \in BOOLEAN
         /\ \/ /\ pc' = "fetch" /\ hd \in Heights /\ hi' = hd
               /\ lo' \in Heights /\ lo' <= hi' /\ (t >= 0 => lo' = t + 1)
               /\ phase' \in {"bootstrap", "catching-up"}
            \/ /\ FinishPass(arch) /\ (hd >= 0 => t >= hd)
<1>1. CASE First(t, hd) <= hd
  <2>1. First(t, hd) \in Heights /\ hd \in Heights /\ (t >= 0 => First(t, hd) = t + 1)
    BY <1>1, BoundsAssumption DEF First, Max0, Heights
  <2> QED BY <1>1, <2>1 DEF BeginPass, Suppressed
<1>2. CASE ~(First(t, hd) <= hd)
  <2>1. hd >= 0 => t >= hd
    BY <1>2, BoundsAssumption DEF First, Max0, Heights
  <2> QED BY <1>2, <2>1 DEF BeginPass, FinishPass
<1> QED BY <1>1, <1>2

LEMMA FinishPassFacts ==
  ASSUME NEW arch, FinishPass(arch)
  PROVE  /\ batch' = NoBlocks /\ emit' = FALSE /\ phase' = "live"
         /\ \/ pc' = "idle" /\ lo' = 0 /\ hi' = -1
            \/ /\ pc' = "backfill" /\ HasArchive
               /\ lo' \in Heights /\ hi' \in Heights /\ lo' <= hi' /\ hi' < MaxHeight
               /\ arch[hi'] = NULL /\ arch[hi'+1] # NULL
BY StartBackfillFacts DEF FinishPass

\* The tick variables keep their types whatever a pass decides.
TickType == /\ pc \in PCs /\ lo \in Heights /\ hi \in Heights \cup {-1}
            /\ IsIndex(batch) /\ emit \in BOOLEAN /\ phase \in Phases

LEMMA PassType ==
  ASSUME NEW t \in Heights \cup {-1}, NEW arch, NEW hd \in Heights \cup {-1},
         BeginPass(t, arch, hd) \/ FinishPass(arch)
  PROVE  TickType'
<1>1. ASSUME FinishPass(arch) PROVE TickType'
  <2>1. batch' = NoBlocks /\ emit' = FALSE /\ phase' = "live"
    BY <1>1 DEF FinishPass
  <2>2. pc' \in {"idle", "backfill"} /\ lo' \in Heights /\ hi' \in Heights \cup {-1}
    <3>1. 0 \in Heights
      BY BoundsAssumption DEF Heights
    <3> QED BY <1>1, <3>1, FinishPassFacts
  <2> QED BY <2>1, <2>2, NoBlocksIndex DEF TickType, PCs, Phases, IsIndex
<1>2. ASSUME BeginPass(t, arch, hd), ~FinishPass(arch) PROVE TickType'
  <2>1. /\ batch' = NoBlocks /\ emit' \in BOOLEAN
        /\ pc' = "fetch" /\ hi' \in Heights /\ lo' \in Heights
        /\ phase' \in {"bootstrap", "catching-up"}
    BY <1>2, BeginPassFacts
  <2> QED BY <2>1, NoBlocksIndex DEF TickType, PCs, Phases, IsIndex
<1> QED BY <1>1, <1>2

LEMMA EndTickType ==
  ASSUME EndTick, phase' \in Phases
  PROVE  TickType'
<1>1. lo' \in Heights /\ hi' \in Heights \cup {-1}
  BY BoundsAssumption DEF EndTick, Heights
<1>2. pc' \in PCs /\ emit' \in BOOLEAN
  BY DEF EndTick, PCs
<1>3. IsIndex(batch')
  BY NoBlocksIndex DEF EndTick
<1> QED BY <1>1, <1>2, <1>3 DEF TickType, IsIndex

LEMMA TickFailsType ==
  ASSUME NEW why \in Phases, TickFails(why)
  PROVE  TickType'
BY EndTickType DEF TickFails

-----------------------------------------------------------------------------
(* Type correctness.                                                         *)

\* The type invariant, one part per group of variables.
WorldType == /\ chain \in [Relays -> Chains] /\ up \subseteq Relays
             /\ faults \in 0..MaxFaults /\ restarts \in 0..MaxRestarts
PoolType == /\ trust \in [Relays -> {"pending", "verified", "quarantined"}]
            /\ pinned \in Blocks \cup {NULL}
StoreType == /\ known \in BOOLEAN /\ genesis \in Blocks \cup {NULL}
             /\ IsIndex(hot) /\ tip \in Heights \cup {-1}
DiskType == IsIndex(archive) /\ archiveId \in Blocks \cup {NULL}
FeedType == IsIndex(feed) /\ owed \in BOOLEAN /\ spliced \in BOOLEAN
HeadType == head \in Heights \cup {-1}

LEMMA TypeParts ==
  TypeOK <=> WorldType /\ PoolType /\ TickType /\ StoreType /\ DiskType /\ FeedType /\ HeadType
BY DEF TypeOK, WorldType, PoolType, TickType, StoreType, DiskType, FeedType, HeadType

LEMMA TypePartsPrimed ==
  /\ WorldType' /\ PoolType' /\ TickType' /\ StoreType' /\ DiskType' /\ FeedType' /\ HeadType'
  => TypeOK'
BY DEF TypeOK, WorldType, PoolType, TickType, StoreType, DiskType, FeedType, HeadType, IsIndex

LEMMA TypeInit == Init => TypeOK
<1> SUFFICES ASSUME Init PROVE TypeOK
  OBVIOUS
<1>1. 0 \in Heights /\ 0 \in 0..MaxFaults /\ 0 \in 0..MaxRestarts
  BY BoundsAssumption DEF Heights
<1>2. IsIndex(hot) /\ IsIndex(archive) /\ IsIndex(batch) /\ IsIndex(feed)
  BY NoBlocksIndex DEF Init
<1>3. pinned \in Blocks \cup {NULL}
  BY ChainsAssumption DEF Init
<1>4. pc \in PCs /\ phase \in Phases
  BY DEF Init, PCs, Phases
<1> QED BY <1>1, <1>2, <1>3, <1>4 DEF Init, TypeOK

\* What store.reset(), its failure, or no reset at all leave in the variables
\* they own.
LEMMA WipeType ==
  ASSUME TypeOK, Wipe \/ WipeFails \/ NotDead
  PROVE  /\ IsIndex(hot') /\ tip' \in Heights \cup {-1}
         /\ DiskType' /\ FeedType' /\ faults' \in 0..MaxFaults
<1>1. CASE Wipe
  BY <1>1, NoBlocksIndex DEF Wipe, TypeOK, DiskType, FeedType, IsIndex
<1>2. CASE WipeFails
  BY <1>2, BoundsAssumption DEF WipeFails, ArchiveError, diskVars, feedVars, TypeOK, DiskType, FeedType, IsIndex
<1>3. CASE NotDead
  BY <1>3 DEF NotDead, diskVars, feedVars, TypeOK, DiskType, FeedType, IsIndex
<1> QED BY <1>1, <1>2, <1>3

LEMMA WipeTick ==
  ASSUME TypeOK, Wipe \/ WipeFails
  PROVE  TickType'
<1>1. CASE Wipe
  BY <1>1 DEF Wipe, TypeOK, TickType, PCs, Phases, IsIndex
<1>2. CASE WipeFails
  BY <1>2, TickFailsType DEF WipeFails, Phases
<1> QED BY <1>1, <1>2

LEMMA AfterGenesisType ==
  ASSUME TypeOK, NEW hd, AfterGenesis(hd)
  PROVE  TickType' /\ (Wipe \/ WipeFails \/ NotDead)
<1>1. CASE Wipe \/ WipeFails
  BY <1>1, WipeTick
<1>2. CASE pc' = "checkTip" /\ UNCHANGED <<lo, hi, batch, emit, phase>> /\ NotDead
  BY <1>2 DEF TypeOK, TickType, PCs, IsIndex
<1> QED BY <1>1, <1>2 DEF AfterGenesis

\* Committing the blocks of a batch up to height last.
LEMMA CommitType ==
  ASSUME TypeOK, NEW last \in Heights \cup {-1}, Commit(last)
  PROVE  IsIndex(hot') /\ tip' \in Heights \cup {-1} /\ DiskType' /\ FeedType'
<1> DEFINE S == lo..last
           H == {h \in S : hot[h] = NULL}
<1>1. IsIndex(Put(hot, batch, S)) /\ IsIndex(Put(archive, batch, S)) /\ IsIndex(Put(feed, batch, H))
  BY PutIndex DEF TypeOK
<1>2. IsIndex(hot')
  BY <1>1, RetainKeeps DEF Commit
<1>3. tip' \in Heights \cup {-1}
  BY BoundsAssumption DEF Commit, TypeOK
<1>4. DiskType'
  BY <1>1 DEF Commit, DiskType, TypeOK, IsIndex
<1>5. FeedType'
  BY <1>1 DEF Commit, FeedType, TypeOK, IsIndex
<1> QED BY <1>2, <1>3, <1>4, <1>5

LEMMA BatchEndType ==
  ASSUME TypeOK
  PROVE  /\ BatchEnd \in Heights \cup {-1} /\ BatchEnd <= hi
         /\ BatchEnd < hi => BatchEnd + 1 \in Heights /\ BatchEnd = lo + BatchSize - 1
BY BoundsAssumption DEF BatchEnd, Least, TypeOK, Heights

LEMMA TypeStep == TypeOK /\ [Next]_vars => TypeOK'
<1> SUFFICES ASSUME TypeOK, [Next]_vars PROVE TypeOK'
  OBVIOUS
<1> USE TypeParts, TypePartsPrimed
<1>1. CASE InitVerify
  <2>1. WorldType' /\ HeadType' /\ DiskType' /\ FeedType'
    BY <1>1 DEF InitVerify, relayVars, diskVars, feedVars, WorldType, HeadType, DiskType, FeedType, IsIndex
  <2>2. PoolType'
    <3>1. ASSUME NEW b \in GenesisChoices, trust' = [r \in Relays |-> Verified(r, b)],
                 pinned' = b \/ pinned' = pinned
          PROVE  PoolType'
      BY <3>1, GenesisBlocks, VerifiedType DEF PoolType
    <3>2. CASE UNCHANGED poolVars
      BY <3>2 DEF poolVars, PoolType
    <3> QED BY <1>1, <3>1, <3>2 DEF InitVerify
  <2>3. StoreType'
    BY <1>1 DEF InitVerify, StoreType, IsIndex
  <2>4. TickType'
    <3>1. CASE TickFails("offline")
      BY <3>1, TickFailsType DEF Phases
    <3>2. CASE pc' \in {"bootGenesis", "resetGenesis"} /\ UNCHANGED <<lo, hi, batch, emit, phase>>
      BY <3>2 DEF TickType, PCs, IsIndex
    <3> QED BY <1>1, <3>1, <3>2 DEF InitVerify
  <2> QED BY <2>1, <2>2, <2>3, <2>4
<1>2. CASE InitGenesis
  <2>1. PICK b \in Answers(0), t \in Heights \cup {-1} :
          /\ genesis' = b
          /\ archive' = IF ForeignArchive(b) THEN NoBlocks ELSE archive
          /\ archiveId' = IF HasArchive THEN b ELSE NULL
          /\ hot' = Retain(archive')
          /\ tip' = t
          /\ \/ /\ pc' = "head" /\ phase' = "bootstrap"
                /\ UNCHANGED <<lo, hi, batch, emit, feedVars>>
             \/ /\ AnnounceReset
                /\ BeginPass(t, archive', head)
    BY <1>2 DEF InitGenesis
  <2>2. b \in Blocks
    BY AnswerBlocks, BoundsAssumption DEF Heights
  <2>3. IsIndex(archive')
    BY <2>1, NoBlocksIndex DEF TypeOK
  <2>4. StoreType' /\ DiskType'
    BY <1>2, <2>1, <2>2, <2>3, RetainKeeps DEF InitGenesis, StoreType, DiskType, IsIndex
  <2>5. FeedType'
    BY <1>2, <2>1, NoBlocksIndex DEF InitGenesis, AnnounceReset, FeedType, feedVars, IsIndex
  <2>6. TickType'
    <3>1. CASE BeginPass(t, archive', head)
      BY <3>1, PassType DEF TypeOK
    <3>2. CASE pc' = "head" /\ phase' = "bootstrap" /\ UNCHANGED <<lo, hi, batch, emit, feedVars>>
      BY <3>2 DEF TickType, PCs, Phases, IsIndex
    <3> QED BY <2>1, <3>1, <3>2
  <2>7. WorldType' /\ PoolType' /\ HeadType'
    BY <1>2 DEF InitGenesis, relayVars, poolVars, WorldType, PoolType, HeadType
  <2> QED BY <2>4, <2>5, <2>6, <2>7
<1>3. CASE InitFails
  <2>1. TickType'
    BY <1>3, TickFailsType DEF InitFails, Phases
  <2>2. genesis' \in Blocks \cup {NULL} /\ faults' \in 0..MaxFaults
    <3>1. 0 \in Heights
      BY BoundsAssumption DEF Heights
    <3> QED BY <1>3, <3>1, AnswerBlocks, BoundsAssumption DEF InitFails, ArchiveError, TypeOK
  <2> QED BY <1>3, <2>1, <2>2
      DEF InitFails, poolVars, diskVars, feedVars, WorldType, PoolType, HeadType, StoreType, DiskType, FeedType, IsIndex
<1>4. CASE ReadHead
  <2>1. PoolType'
    BY <1>4, VerifiedType DEF ReadHead, ProbeTrust, PoolType
  <2>2. HeadType'
    BY <1>4 DEF ReadHead, HeadType
  <2>3. TickType' /\ (Wipe \/ WipeFails \/ NotDead)
    <3>1. CASE (TickFails("offline") \/ TickFails("halted")) /\ NotDead
      BY <3>1, TickFailsType DEF Phases
    <3>2. ASSUME NEW n \in Heights, BeginPass(tip, archive, n) /\ NotDead
          PROVE  TickType' /\ (Wipe \/ WipeFails \/ NotDead)
      BY <3>2, PassType DEF TypeOK
    <3>3. ASSUME NEW n \in Heights, AfterGenesis(n)
          PROVE  TickType' /\ (Wipe \/ WipeFails \/ NotDead)
      BY <3>3, AfterGenesisType
    <3>4. CASE pc' = "checkGenesis" /\ UNCHANGED <<lo, hi, batch, emit, phase>> /\ NotDead
      BY <3>4 DEF TickType, PCs, IsIndex
    <3> QED BY <1>4, <3>1, <3>2, <3>3, <3>4 DEF ReadHead
  <2>4. StoreType' /\ DiskType' /\ FeedType' /\ WorldType'
    BY <1>4, <2>3, WipeType DEF ReadHead, StoreType, WorldType, IsIndex
  <2> QED BY <2>1, <2>2, <2>3, <2>4
<1>5. CASE CheckGenesis
  <2>1. TickType' /\ (Wipe \/ WipeFails \/ NotDead)
    BY <1>5, AfterGenesisType, WipeTick DEF CheckGenesis
  <2>2. StoreType' /\ DiskType' /\ FeedType' /\ WorldType'
    BY <1>5, <2>1, WipeType DEF CheckGenesis, StoreType, WorldType, IsIndex
  <2>3. PoolType' /\ HeadType'
    BY <1>5 DEF CheckGenesis, poolVars, PoolType, HeadType
  <2> QED BY <2>1, <2>2, <2>3
<1>6. CASE CheckTip
  <2>1. TickType' /\ (Wipe \/ WipeFails \/ NotDead)
    <3>1. CASE Wipe \/ WipeFails
      BY <3>1, WipeTick
    <3>2. CASE BeginPass(tip, archive, head) /\ NotDead
      BY <3>2, PassType DEF TypeOK
    <3> QED BY <1>6, <3>1, <3>2 DEF CheckTip
  <2>2. StoreType' /\ DiskType' /\ FeedType' /\ WorldType'
    BY <1>6, <2>1, WipeType DEF CheckTip, StoreType, WorldType, IsIndex
  <2>3. PoolType' /\ HeadType'
    BY <1>6 DEF CheckTip, poolVars, PoolType, HeadType
  <2> QED BY <2>1, <2>2, <2>3
<1>7. CASE Fetch
  <2>1. PICK h \in Heights : FetchBlock(h)
    BY <1>7 DEF Fetch
  <2>2. IsIndex(batch')
    BY <2>1, AnswerBlocks DEF FetchBlock, TypeOK, IsIndex
  <2> QED BY <2>1, <2>2 DEF FetchBlock, relayVars, poolVars, storeVars, diskVars, feedVars,
             WorldType, PoolType, HeadType, StoreType, DiskType, FeedType, TickType, IsIndex
<1>8. CASE FetchFails
  <2>1. TickType'
    <3>1. CASE EndTick /\ UNCHANGED phase
      BY <3>1, EndTickType DEF TickType
    <3> QED BY <1>8, <3>1, TickFailsType DEF FetchFails, Phases
  <2> QED BY <1>8, <2>1 DEF FetchFails, relayVars, poolVars, diskVars, feedVars,
             WorldType, PoolType, HeadType, StoreType, DiskType, FeedType, IsIndex
<1>9. CASE CommitBatch
  <2>1. IsIndex(hot') /\ tip' \in Heights \cup {-1} /\ DiskType' /\ FeedType'
    BY <1>9, CommitType, BatchEndType DEF CommitBatch
  <2>2. TickType'
    <3>1. CASE FinishPass(archive')
      BY <3>1, PassType DEF TypeOK
    <3>2. CASE /\ BatchEnd < hi
               /\ lo' = BatchEnd + 1 /\ batch' = NoBlocks
               /\ UNCHANGED <<pc, hi, emit, phase>>
      BY <3>2, BatchEndType, NoBlocksIndex DEF TickType, IsIndex
    <3> QED BY <1>9, <3>1, <3>2 DEF CommitBatch
  <2> QED BY <1>9, <2>1, <2>2 DEF CommitBatch, relayVars, poolVars, WorldType, PoolType, HeadType, StoreType, IsIndex
<1>10. CASE CommitFails
  <2>1. PICK last \in lo-1 .. BatchEnd-1 : Commit(last)
    BY <1>10 DEF CommitFails
  <2>2. last \in Heights \cup {-1}
    BY BatchEndType, BoundsAssumption DEF TypeOK, Heights
  <2>3. IsIndex(hot') /\ tip' \in Heights \cup {-1} /\ DiskType' /\ FeedType'
    BY <2>1, <2>2, CommitType
  <2>4. TickType'
    BY <1>10, TickFailsType DEF CommitFails, Phases
  <2>5. WorldType'
    BY <1>10, BoundsAssumption DEF CommitFails, ArchiveError, WorldType
  <2> QED BY <1>10, <2>3, <2>4, <2>5 DEF CommitFails, poolVars, PoolType, HeadType, StoreType, IsIndex
<1>11. CASE RejectBatch
  <2>1. TickType'
    BY <1>11, TickFailsType DEF RejectBatch, Phases
  <2> QED BY <1>11, <2>1 DEF RejectBatch, relayVars, poolVars, diskVars, feedVars,
             WorldType, PoolType, HeadType, StoreType, DiskType, FeedType, IsIndex
<1>12. CASE BackfillCommit
  <2>1. TickType'
    BY <1>12, EndTickType DEF BackfillCommit, storeVars, TickType
  <2>2. DiskType'
    BY <1>12, PutIndex DEF BackfillCommit, DiskType, TypeOK, IsIndex
  <2>3. WorldType'
    BY <1>12, BoundsAssumption DEF BackfillCommit, ArchiveError, WorldType
  <2> QED BY <1>12, <2>1, <2>2, <2>3 DEF BackfillCommit, storeVars, poolVars, feedVars,
             PoolType, HeadType, StoreType, FeedType, IsIndex
<1>13. CASE Environment
  <2>1. CASE \E r \in Relays, c \in Chains : RelayMoves(r, c)
    <3>1. WorldType'
      BY <2>1, BoundsAssumption DEF RelayMoves, WorldType
    <3> QED BY <2>1, <3>1 DEF RelayMoves, poolVars, tickVars, storeVars, diskVars, feedVars,
               PoolType, HeadType, StoreType, DiskType, FeedType, TickType, IsIndex
  <2>2. CASE \E r \in Relays : RelayFlips(r)
    <3>1. WorldType'
      BY <2>2, BoundsAssumption DEF RelayFlips, WorldType
    <3> QED BY <2>2, <3>1 DEF RelayFlips, poolVars, tickVars, storeVars, diskVars, feedVars,
               PoolType, HeadType, StoreType, DiskType, FeedType, TickType, IsIndex
  <2>3. CASE Restart
    <3>1. TickType'
      BY <2>3, EndTickType DEF Restart, Phases
    <3>2. WorldType'
      BY <2>3, BoundsAssumption DEF Restart, relayVars, WorldType
    <3>3. PoolType'
      BY <2>3, ChainsAssumption DEF Restart, PoolType
    <3>4. StoreType' /\ HeadType'
      BY <2>3, NoBlocksIndex DEF Restart, StoreType, HeadType, IsIndex
    <3>5. DiskType' /\ FeedType'
      BY <2>3, NoBlocksIndex DEF Restart, diskVars, DiskType, FeedType, IsIndex
    <3> QED BY <3>1, <3>2, <3>3, <3>4, <3>5
  <2> QED BY <1>13, <2>1, <2>2, <2>3 DEF Environment
<1>14. CASE UNCHANGED vars
  BY <1>14 DEF vars, relayVars, poolVars, tickVars, storeVars, diskVars, feedVars,
     WorldType, PoolType, HeadType, StoreType, DiskType, FeedType, TickType, IsIndex
<1> QED BY <1>1, <1>2, <1>3, <1>4, <1>5, <1>6, <1>7, <1>8, <1>9, <1>10, <1>11, <1>12, <1>13, <1>14
        DEF Next, Tick

\* Every variable keeps its type, whatever the relays serve and wherever faults
\* and restarts fall.
THEOREM TypeCorrect == Spec => []TypeOK
<1>1. Init => TypeOK
  BY TypeInit
<1>2. TypeOK /\ [Next]_vars => TypeOK'
  BY TypeStep
<1> QED BY <1>1, <1>2, PTL DEF Spec

-----------------------------------------------------------------------------
(* Chains of blocks under Put and Retain.                                    *)

\* Eviction leaves a linked, unbroken index linked and unbroken.
LEMMA RetainChain ==
  ASSUME NEW f, IsIndex(f), Linked(f), Unbroken(f)
  PROVE  Linked(Retain(f)) /\ Unbroken(Retain(f))
<1>1. Linked(Retain(f))
  <2> SUFFICES ASSUME NEW h \in Heights \ {0}, Retain(f)[h] # NULL, Retain(f)[h-1] # NULL
               PROVE  Prev[Retain(f)[h]] = Retain(f)[h-1]
    BY DEF Linked
  <2>1. h \in Heights /\ h-1 \in Heights
    BY BoundsAssumption DEF Heights
  <2>2. Retain(f)[h] = f[h] /\ Retain(f)[h-1] = f[h-1]
    BY <2>1, RetainKeeps
  <2> QED BY <2>2 DEF Linked
<1>2. Unbroken(Retain(f))
  <2> SUFFICES ASSUME NEW m \in Held(Retain(f)), NEW k \in Held(Retain(f)),
                      NEW h \in Heights, m <= h, h <= k
               PROVE  Retain(f)[h] # NULL
    BY DEF Unbroken
  <2>1. m \in Heights /\ k \in Heights /\ Retain(f)[m] # NULL /\ Retain(f)[k] # NULL
    BY DEF Held
  <2>2. Retain(f)[h] = f[h] /\ m \in Held(f) /\ k \in Held(f)
    BY <2>1, RetainKeeps DEF Held
  <2> QED BY <2>2 DEF Unbroken
<1> QED BY <1>1, <1>2

\* A run a..z of blocks, each extending the one below.
Run(b, a, z) == /\ \A h \in a..z : b[h] # NULL
                /\ \A h \in a+1 .. z : Prev[b[h]] = b[h-1]

\* Putting a run on top of a chain, extending its highest block.
LEMMA PutAbove ==
  ASSUME NEW f, NEW b, IsIndex(f), IsIndex(b), Linked(f), Unbroken(f),
         NEW a \in Heights, NEW z \in Heights, a <= z, Run(b, a, z),
         \A h \in Held(f) : h < a,
         Held(f) # {} => a > 0 /\ f[a-1] # NULL /\ Prev[b[a]] = f[a-1]
  PROVE  /\ Linked(Put(f, b, a..z)) /\ Unbroken(Put(f, b, a..z))
         /\ IsTip(Put(f, b, a..z), z)
<1> DEFINE P == Put(f, b, a..z)
<1>0. \A h \in Heights : P[h] = IF h \in a..z THEN b[h] ELSE f[h]
  BY DEF Put
<1>h. Heights \subseteq Int /\ a..z \subseteq Heights
  BY BoundsAssumption DEF Heights
<1>a. \A h \in Heights : P[h] # NULL <=> f[h] # NULL \/ h \in a..z
  BY <1>0 DEF Run, Held
<1> HIDE DEF P
<1>1. Linked(P)
  <2> SUFFICES ASSUME NEW h \in Heights \ {0}, P[h] # NULL, P[h-1] # NULL
               PROVE  Prev[P[h]] = P[h-1]
    BY DEF Linked
  <2>1. h \in Heights /\ h-1 \in Heights /\ h \in Int
    BY BoundsAssumption DEF Heights
  <2>2. CASE h \in a+1 .. z
    <3>1. h \in a..z /\ h-1 \in a..z
      BY <2>2, <2>1, <1>h
    <3> QED BY <2>2, <3>1, <2>1, <1>0 DEF Run
  <2>3. CASE h = a
    <3>1. h-1 \notin a..z /\ h \in a..z
      BY <2>3, <2>1, <1>h
    <3>2. P[h] = b[a] /\ P[h-1] = f[a-1] /\ f[h-1] # NULL
      BY <3>1, <2>1, <2>3, <1>0
    <3>3. Held(f) # {}
      BY <3>2, <2>1 DEF Held
    <3> QED BY <3>2, <3>3
  <2>4. CASE h \notin a..z
    <3>1. P[h] = f[h] /\ h \in Held(f)
      BY <2>4, <2>1, <1>0 DEF Held
    <3>2. h < a
      BY <3>1
    <3>3. h-1 \notin a..z
      BY <3>2, <2>1, <1>h
    <3> QED BY <3>1, <3>3, <2>1, <1>0 DEF Linked
  <2> QED BY <2>1, <2>2, <2>3, <2>4, <1>h
<1>2. Unbroken(P)
  <2> SUFFICES ASSUME NEW m \in Held(P), NEW k \in Held(P),
                      NEW h \in Heights, m <= h, h <= k
               PROVE  P[h] # NULL
    BY DEF Unbroken
  <2>1. m \in Heights /\ k \in Heights /\ P[m] # NULL /\ P[k] # NULL
    BY DEF Held
  <2>2. CASE h \in a..z
    BY <2>2, <1>a
  <2>3. CASE h > z
    <3>1. k \notin a..z /\ ~(k < a)
      BY <2>3, <2>1, <1>h
    <3> QED BY <3>1, <2>1, <1>a DEF Held
  <2>4. CASE h < a
    <3>1. m \in Held(f)
      <4>1. m \notin a..z
        BY <2>4, <2>1, <1>h
      <4> QED BY <4>1, <2>1, <1>a DEF Held
    <3>2. a - 1 \in Held(f) /\ m <= h /\ h <= a - 1
      <4>1. a > 0 /\ f[a-1] # NULL
        BY <3>1
      <4> QED BY <4>1, <2>4, BoundsAssumption DEF Held, Heights
    <3> QED BY <3>1, <3>2, <1>a DEF Unbroken
  <2> QED BY <2>2, <2>3, <2>4, <1>h
<1>3. IsTip(P, z)
  <2>1. z \in Held(P)
    BY <1>a, <1>h DEF Held
  <2>2. \A h \in Held(P) : h <= z
    BY <1>a, <1>h DEF Held
  <2> QED BY <2>1, <2>2 DEF IsTip
<1> QED BY <1>1, <1>2, <1>3 DEF P

\* Putting a run right below the lowest block of a chain.
LEMMA PutBelow ==
  ASSUME NEW f, NEW b, IsIndex(f), IsIndex(b), Linked(f), Unbroken(f),
         NEW a \in Heights, NEW z \in Heights, a <= z, Run(b, a, z),
         z < MaxHeight, f[z] = NULL, f[z+1] # NULL, Prev[f[z+1]] = b[z]
  PROVE  /\ Linked(Put(f, b, a..z)) /\ Unbroken(Put(f, b, a..z))
         /\ \A h \in Held(f) : h > z
<1> DEFINE P == Put(f, b, a..z)
<1>0. \A h \in Heights : P[h] = IF h \in a..z THEN b[h] ELSE f[h]
  BY DEF Put
<1>h. Heights \subseteq Int /\ a..z \subseteq Heights /\ z+1 \in Heights
  BY BoundsAssumption DEF Heights
<1>a. \A h \in Heights : P[h] # NULL <=> f[h] # NULL \/ h \in a..z
  BY <1>0 DEF Run
<1> HIDE DEF P
<1>3. ASSUME NEW h \in Held(f) PROVE h > z
  <2>1. z+1 \in Held(f) /\ h \in Heights
    BY <1>h DEF Held
  <2>2. ~(h <= z)
    BY <2>1, <1>h DEF Unbroken
  <2> QED BY <2>1, <2>2, <1>h
<1>1. Linked(P)
  <2> SUFFICES ASSUME NEW h \in Heights \ {0}, P[h] # NULL, P[h-1] # NULL
               PROVE  Prev[P[h]] = P[h-1]
    BY DEF Linked
  <2>1. h \in Heights /\ h-1 \in Heights /\ h \in Int
    BY BoundsAssumption DEF Heights
  <2>2. CASE h \in a+1 .. z
    <3>1. h \in a..z /\ h-1 \in a..z
      BY <2>2, <2>1, <1>h
    <3> QED BY <2>2, <3>1, <2>1, <1>0 DEF Run
  <2>3. CASE h = z+1
    <3>1. h \notin a..z /\ h-1 = z /\ z \in a..z
      BY <2>3, <2>1, <1>h
    <3> QED BY <3>1, <2>1, <2>3, <1>0
  <2>4. CASE h > z+1
    <3>1. h-1 \notin a..z /\ h \notin a..z
      BY <2>4, <2>1, <1>h
    <3> QED BY <3>1, <2>1, <1>0 DEF Linked
  <2>5. CASE h <= a
    <3>1. h-1 \notin a..z /\ ~(h-1 > z)
      BY <2>5, <2>1, <1>h
    <3> QED BY <3>1, <2>1, <1>a, <1>3 DEF Held
  <2> QED BY <2>1, <2>2, <2>3, <2>4, <2>5, <1>h
<1>2. Unbroken(P)
  <2> SUFFICES ASSUME NEW m \in Held(P), NEW k \in Held(P),
                      NEW h \in Heights, m <= h, h <= k
               PROVE  P[h] # NULL
    BY DEF Unbroken
  <2>1. m \in Heights /\ k \in Heights /\ P[m] # NULL /\ P[k] # NULL
    BY DEF Held
  <2>2. CASE h \in a..z
    BY <2>2, <1>a
  <2>3. CASE h > z
    <3>1. k \in Held(f)
      <4>1. k \notin a..z
        BY <2>3, <2>1, <1>h
      <4> QED BY <4>1, <2>1, <1>a DEF Held
    <3>2. z+1 \in Held(f) /\ z+1 <= h
      BY <2>3, <1>h DEF Held
    <3> QED BY <3>1, <3>2, <1>a DEF Unbroken
  <2>4. CASE h < a
    <3>1. m \notin a..z /\ ~(m > z)
      BY <2>4, <2>1, <1>h
    <3> QED BY <3>1, <2>1, <1>a, <1>3 DEF Held
  <2> QED BY <2>2, <2>3, <2>4, <1>h
<1> QED BY <1>1, <1>2, <1>3 DEF P

-----------------------------------------------------------------------------
(* What each kind of step does to the index.                                 *)

IndexInv == TipHeld /\ OneChain /\ FeedMatchesIndex /\ FeedLinked

\* The index invariants of the next state, from its values.
LEMMA IndexNext ==
  ASSUME IsTip(hot', tip') /\ Cardinality(Held(hot')) <= MaxBlocks,
         ~spliced' => /\ Linked(archive') /\ Unbroken(archive')
                      /\ Linked(hot') /\ Unbroken(hot')
                      /\ HasArchive => \A h \in Heights : hot'[h] # NULL => archive'[h] = hot'[h]
                      /\ HasArchive /\ tip' >= 0 => \A h \in Held(archive') : h <= tip',
         ~owed' => /\ \A h \in Heights : feed'[h] # NULL /\ hot'[h] # NULL => feed'[h] = hot'[h]
                   /\ Linked(feed') /\ \A h \in Held(feed') : h <= tip'
  PROVE  IndexInv'
<1>1. TipHeld'
  BY DEF TipHeld, IsTip, Held
<1>2. OneChain'
  BY DEF OneChain, Linked, Unbroken, Held
<1>3. FeedMatchesIndex' /\ FeedLinked'
  BY DEF FeedMatchesIndex, FeedLinked, Linked, Held
<1> QED BY <1>1, <1>2, <1>3 DEF IndexInv

LEMMA IndexKept ==
  ASSUME IndexInv, UNCHANGED <<hot, tip, archive, feed, owed, spliced>>
  PROVE  IndexInv'
BY DEF IndexInv, TipHeld, OneChain, FeedMatchesIndex, FeedLinked, IsTip, Linked, Unbroken, Held

LEMMA NoBlocksChain == Linked(NoBlocks) /\ Unbroken(NoBlocks) /\ IsTip(NoBlocks, -1)
                       /\ Cardinality(Held(NoBlocks)) <= MaxBlocks
<1>1. Linked(NoBlocks)
  BY DEF Linked, NoBlocks
<1>2. Cardinality(Held(NoBlocks)) = 0
  BY NoBlocksIndex, FS_EmptySet
<1> QED BY <1>1, <1>2, NoBlocksIndex, BoundsAssumption DEF Unbroken, IsTip

LEMMA IndexWiped ==
  ASSUME Wipe
  PROVE  IndexInv'
<1>1. hot' = NoBlocks /\ archive' = NoBlocks /\ tip' = -1 /\ owed' = TRUE
  BY DEF Wipe
<1>2. \A h \in Heights : hot'[h] = NULL
  BY <1>1 DEF NoBlocks
<1> QED BY <1>1, <1>2, NoBlocksChain, IndexNext

\* A restart keeps the archive and loses the rest.
LEMMA IndexRestarted ==
  ASSUME IndexInv, Restart
  PROVE  IndexInv'
<1>1. /\ hot' = NoBlocks /\ tip' = -1 /\ feed' = NoBlocks
      /\ archive' = archive /\ spliced' = spliced
  BY DEF Restart, diskVars
<1>2. \A h \in Heights : hot'[h] = NULL /\ feed'[h] = NULL
  BY <1>1 DEF NoBlocks
<1>3. ~spliced' => Linked(archive') /\ Unbroken(archive')
  BY <1>1 DEF IndexInv, OneChain
<1> QED BY <1>1, <1>2, <1>3, NoBlocksChain, NoBlocksIndex, IndexNext

\* init() restores the hot store from the archive.
LEMMA IndexRestored ==
  ASSUME TypeOK, Control, IndexInv, InitGenesis
  PROVE  IndexInv'
<1>1. PICK b \in Answers(0), t \in Heights \cup {-1} :
        /\ archive' = IF ForeignArchive(b) THEN NoBlocks ELSE archive
        /\ hot' = Retain(archive')
        /\ IsTip(hot', t) /\ tip' = t
        /\ \/ UNCHANGED feedVars
           \/ feed' = NoBlocks /\ owed' = FALSE
        /\ spliced' = spliced
  BY DEF InitGenesis, AnnounceReset
<1>2. tip = -1
  BY DEF InitGenesis, Control
<1>3. IsIndex(archive')
  BY <1>1, NoBlocksIndex DEF TypeOK
<1>4. ~spliced' => Linked(archive') /\ Unbroken(archive')
  BY <1>1, NoBlocksChain DEF IndexInv, OneChain
<1>5. ~spliced' => Linked(hot') /\ Unbroken(hot')
  BY <1>1, <1>3, <1>4, RetainChain
<1>6. \A h \in Heights : hot'[h] # NULL => archive'[h] = hot'[h]
  BY <1>1, <1>3, RetainKeeps
<1>7. tip' >= 0 => \A h \in Held(archive') : h <= tip'
  BY <1>1, <1>3, RetainTip DEF IsTip
<1>8. ~owed' => \A h \in Heights : feed'[h] = NULL
  <2>1. CASE feed' = NoBlocks
    BY <2>1 DEF NoBlocks
  <2>2. CASE UNCHANGED feedVars
    <3>1. ~owed => \A h \in Held(feed) : h <= -1
      BY <1>2 DEF IndexInv, FeedLinked
    <3> QED BY <2>2, <3>1, BoundsAssumption DEF feedVars, Held, Heights
  <2> QED BY <1>1, <2>1, <2>2
<1>9. ~owed' => Linked(feed') /\ Held(feed') = {}
  BY <1>8 DEF Linked, Held
<1>10. Cardinality(Held(hot')) <= MaxBlocks
  BY <1>1, <1>3, RetainKeeps
<1> QED BY <1>1, <1>4, <1>5, <1>6, <1>7, <1>8, <1>9, <1>10, IndexNext

\* A batch that passed the parent checks is a run that continues the store.
LEMMA BatchRun ==
  ASSUME TypeOK, Fetched, RangeLinked, NEW last \in Heights, lo <= last, last <= BatchEnd
  PROVE  /\ Run(batch, lo, last)
         /\ lo > 0 /\ hot[lo-1] # NULL => Prev[batch[lo]] = hot[lo-1]
<1>1. BatchEnd \in Int /\ lo \in Heights /\ lo \in Int /\ last \in Int
  BY BatchEndType, BoundsAssumption DEF TypeOK, Heights
<1>2. \A h \in lo..last : batch[h] # NULL
  BY <1>1 DEF Fetched
<1>3. ASSUME NEW h \in lo+1 .. last PROVE Prev[batch[h]] = batch[h-1]
  <2>1. h \in lo..BatchEnd /\ h > lo /\ h-1 \in lo..last
    BY <1>1
  <2>2. Extends(batch[h], batch[h-1])
    BY <2>1 DEF RangeLinked, Below
  <2> QED BY <2>1, <2>2, <1>2 DEF Extends
<1>4. ASSUME lo > 0, hot[lo-1] # NULL PROVE Prev[batch[lo]] = hot[lo-1]
  <2>1. Extends(batch[lo], hot[lo-1])
    BY <1>1, <1>4 DEF RangeLinked, Below
  <2> QED BY <2>1, <1>4 DEF Extends
<1> QED BY <1>2, <1>3, <1>4 DEF Run

\* Committing no block evicts none.
LEMMA IndexCommittedNone ==
  ASSUME TypeOK, IndexInv, NEW last \in Heights \cup {-1}, last < lo, Commit(last)
  PROVE  IndexInv'
<1>1. lo..last = {} /\ ~(lo <= last)
  BY BoundsAssumption DEF TypeOK, Heights
<1>2. Put(hot, batch, {}) = hot /\ Put(archive, batch, {}) = archive /\ Put(feed, batch, {}) = feed
  BY DEF TypeOK, IsIndex, Put
<1>3. /\ hot' = Retain(hot) /\ tip' = tip /\ archive' = archive
      /\ feed' = feed /\ owed' = owed /\ spliced' = spliced
  <2>1. {h \in lo..last : hot[h] = NULL} = {}
    BY <1>1
  <2>2. spliced \in BOOLEAN
    BY DEF TypeOK
  <2>3. spliced' = spliced
    BY <1>1, <2>2 DEF Commit
  <2> QED BY <1>1, <1>2, <2>1, <2>3 DEF Commit
<1>4. IsIndex(hot) /\ tip \in Heights \cup {-1}
  BY DEF TypeOK
<1>5. IsTip(hot', tip') /\ Cardinality(Held(hot')) <= MaxBlocks
  BY <1>3, <1>4, RetainTip, RetainKeeps DEF IndexInv, TipHeld
<1>6. \A h \in Heights : hot'[h] # NULL => hot'[h] = hot[h]
  BY <1>3, <1>4, RetainKeeps
<1>7. ~spliced' => Linked(hot') /\ Unbroken(hot')
  BY <1>3, <1>4, RetainChain DEF IndexInv, OneChain
<1> QED BY <1>3, <1>5, <1>6, <1>7, IndexNext DEF IndexInv, OneChain, FeedMatchesIndex, FeedLinked

\* Committing a run on top of the tip.
LEMMA IndexCommitted ==
  ASSUME TypeOK, Control, IndexInv, pc = "fetch", Fetched, RangeLinked,
         NEW last \in Heights, lo <= last, last <= BatchEnd, Commit(last)
  PROVE  IndexInv' /\ tip' = last
<1> DEFINE S == lo..last
           P == Put(hot, batch, S)
<1>1. lo \in Heights /\ IsIndex(hot) /\ IsIndex(batch) /\ IsIndex(archive) /\ IsIndex(feed)
      /\ tip \in Heights \cup {-1} /\ S \subseteq Heights /\ Heights \subseteq Int
  BY BoundsAssumption DEF TypeOK, Heights
<1>2. Run(batch, lo, last) /\ (lo > 0 /\ hot[lo-1] # NULL => Prev[batch[lo]] = hot[lo-1])
  BY BatchRun
<1>3. tip >= 0 => lo = tip + 1
  BY DEF Control
<1>4. IsTip(hot, tip)
  BY DEF IndexInv, TipHeld
<1>5. tip < lo /\ tip < last
  BY <1>1, <1>3, BoundsAssumption DEF Heights
<1>6. \A h \in Held(hot) : h < lo
  BY <1>1, <1>4, <1>5 DEF IsTip, Held
<1>7. Held(hot) # {} => lo > 0 /\ hot[lo-1] # NULL /\ tip = lo - 1 /\ tip >= 0
  BY <1>1, <1>3, <1>4, BoundsAssumption DEF IsTip, Held, Heights
<1>8. {h \in S : hot[h] = NULL} = S
  BY <1>1, <1>6 DEF Held
<1>9. /\ hot' = Retain(P) /\ tip' = last
      /\ archive' = IF HasArchive THEN Put(archive, batch, S) ELSE archive
      /\ feed' = IF emit THEN Put(feed, batch, S) ELSE feed
      /\ spliced' = (spliced \/ (tip < 0 /\ archive # NoBlocks))
      /\ owed' = owed
  BY <1>5, <1>8 DEF Commit
<1>p. \A h \in Heights : P[h] = IF h \in S THEN batch[h] ELSE hot[h]
  BY DEF Put
<1>q. \A h \in Heights : Put(archive, batch, S)[h] = IF h \in S THEN batch[h] ELSE archive[h]
  BY DEF Put
<1>r. \A h \in Heights : Put(feed, batch, S)[h] = IF h \in S THEN batch[h] ELSE feed[h]
  BY DEF Put
<1>s. IsIndex(P)
  BY <1>1, PutIndex
<1>10. ASSUME ~spliced
       PROVE  Linked(P) /\ Unbroken(P)
  <2>1. Linked(hot) /\ Unbroken(hot)
    BY <1>10 DEF IndexInv, OneChain
  <2> QED BY <2>1, <1>1, <1>2, <1>6, <1>7, PutAbove
<1>11. IsTip(P, last)
  <2>1. last \in Held(P)
    BY <1>1, <1>2, <1>p DEF Run, Held
  <2>2. \A h \in Held(P) : h <= last
    BY <1>1, <1>5, <1>6, <1>p DEF Held
  <2> QED BY <2>1, <2>2 DEF IsTip
<1> HIDE DEF P, S
<1>12. IsTip(hot', tip') /\ Cardinality(Held(hot')) <= MaxBlocks
  BY <1>9, <1>11, <1>s, RetainTip, RetainKeeps
<1>13. \A h \in Heights : hot'[h] # NULL => hot'[h] = P[h]
  BY <1>9, <1>s, RetainKeeps
<1>14. ~spliced' => Linked(hot') /\ Unbroken(hot')
  BY <1>9, <1>10, <1>s, RetainChain
<1>15. ASSUME ~spliced', HasArchive
       PROVE  /\ Linked(archive') /\ Unbroken(archive') /\ IsTip(archive', last)
              /\ \A h \in Heights : hot'[h] # NULL => archive'[h] = hot'[h]
  <2>1. ~spliced /\ (tip < 0 => archive = NoBlocks)
    BY <1>9, <1>15
  <2>2. Linked(archive) /\ Unbroken(archive)
    BY <2>1 DEF IndexInv, OneChain
  <2>3. \A h \in Heights : hot[h] # NULL => archive[h] = hot[h]
    BY <2>1, <1>15 DEF IndexInv, OneChain
  <2>4. tip >= 0 => \A h \in Held(archive) : h <= tip
    BY <2>1, <1>15 DEF IndexInv, OneChain
  <2>5. \A h \in Held(archive) : h < lo
    <3>1. CASE tip >= 0
      BY <3>1, <2>4, <1>1, <1>5 DEF Held
    <3>2. CASE tip < 0
      BY <3>2, <2>1, NoBlocksIndex
    <3> QED BY <3>1, <3>2, <1>1
  <2>6. Held(archive) # {} => lo > 0 /\ archive[lo-1] # NULL /\ Prev[batch[lo]] = archive[lo-1]
    <3> SUFFICES ASSUME Held(archive) # {}
                 PROVE  lo > 0 /\ archive[lo-1] # NULL /\ Prev[batch[lo]] = archive[lo-1]
      OBVIOUS
    <3>1. tip >= 0 /\ tip \in Held(hot)
      BY <2>1, NoBlocksIndex, <1>1, <1>4 DEF IsTip
    <3>2. lo > 0 /\ hot[lo-1] # NULL /\ lo-1 \in Heights
      BY <3>1, <1>7 DEF Held
    <3> QED BY <3>2, <2>3, <1>2
  <2>7. archive' = Put(archive, batch, lo..last)
    BY <1>9, <1>15 DEF S
  <2>8. Linked(archive') /\ Unbroken(archive') /\ IsTip(archive', last)
    BY <2>2, <2>5, <2>6, <2>7, <1>1, <1>2, PutAbove
  <2>9. ASSUME NEW h \in Heights, hot'[h] # NULL PROVE archive'[h] = hot'[h]
    <3>1. hot'[h] = P[h]
      BY <2>9, <1>13
    <3>2. archive' = Put(archive, batch, S)
      BY <1>9, <1>15
    <3>3. CASE h \in S
      BY <3>1, <3>2, <3>3, <1>p, <1>q
    <3>4. CASE h \notin S
      BY <3>1, <3>2, <3>4, <1>p, <1>q, <2>3, <2>9
    <3> QED BY <3>3, <3>4
  <2> QED BY <2>8, <2>9
<1>16. ~spliced' => Linked(archive') /\ Unbroken(archive')
  <2>1. CASE HasArchive
    BY <2>1, <1>15
  <2>2. CASE ~HasArchive
    BY <2>2, <1>9, NoBlocksChain DEF Control
  <2> QED BY <2>1, <2>2
<1>17. ~spliced' /\ HasArchive => \A h \in Held(archive') : h <= tip'
  <2> SUFFICES ASSUME ~spliced', HasArchive, NEW h \in Held(archive') PROVE h <= tip'
    OBVIOUS
  <2>1. IsTip(archive', last)
    BY <1>15
  <2> QED BY <2>1, <1>9 DEF IsTip
<1>18. ASSUME ~owed'
       PROVE  /\ \A h \in Heights : feed'[h] # NULL /\ hot'[h] # NULL => feed'[h] = hot'[h]
              /\ Linked(feed') /\ \A h \in Held(feed') : h <= tip'
  <2>1. /\ \A h \in Heights : feed[h] # NULL /\ hot[h] # NULL => feed[h] = hot[h]
        /\ Linked(feed) /\ \A h \in Held(feed) : h <= tip
    BY <1>9, <1>18 DEF IndexInv, FeedMatchesIndex, FeedLinked
  <2>2. \A h \in Heights : h \in S => feed[h] = NULL
    BY <2>1, <1>1, <1>5 DEF Held, S
  <2>3. ASSUME NEW h \in Heights, feed'[h] # NULL, hot'[h] # NULL PROVE feed'[h] = hot'[h]
    <3>1. hot'[h] = P[h]
      BY <2>3, <1>13
    <3>2. CASE emit /\ h \in S
      BY <3>1, <3>2, <1>9, <1>p, <1>r
    <3>3. CASE h \notin S
      <4>1. feed'[h] = feed[h] /\ hot'[h] = hot[h]
        BY <3>1, <3>3, <1>9, <1>p, <1>r
      <4> QED BY <4>1, <2>1, <2>3
    <3>4. CASE ~emit /\ h \in S
      BY <3>4, <2>2, <2>3, <1>9
    <3> QED BY <3>2, <3>3, <3>4
  <2>4. CASE ~emit
    BY <2>1, <2>3, <2>4, <1>9, <1>1, <1>5 DEF Held
  <2>5. CASE emit
    <3>1. feed' = Put(feed, batch, S)
      BY <2>5, <1>9
    <3>2. ASSUME NEW h \in Heights \ {0}, feed'[h] # NULL, feed'[h-1] # NULL
          PROVE  Prev[feed'[h]] = feed'[h-1]
      <4>1. h \in Heights /\ h-1 \in Heights /\ h \in Int
        BY BoundsAssumption DEF Heights
      <4>2. CASE h \in lo+1 .. last
        <5>1. h \in S /\ h-1 \in S
          BY <4>1, <4>2, <1>1 DEF S
        <5> QED BY <3>1, <4>1, <4>2, <5>1, <1>2, <1>r DEF Run
      <4>3. CASE h = lo
        <5>1. h \in S /\ h-1 \notin S
          BY <4>1, <4>3, <1>1 DEF S
        <5>2. feed'[h] = batch[lo] /\ feed'[h-1] = feed[lo-1]
          BY <3>1, <4>1, <4>3, <5>1, <1>r
        <5>3. lo-1 \in Held(feed) /\ lo-1 <= tip
          BY <5>2, <3>2, <4>1, <4>3, <2>1 DEF Held
        <5>4. tip = lo-1 /\ tip \in Held(hot)
          BY <5>3, <1>1, <1>4, <1>5, <4>1, <4>3, BoundsAssumption DEF IsTip, Heights
        <5>5. hot[lo-1] # NULL /\ feed[lo-1] = hot[lo-1]
          BY <5>3, <5>4, <2>1 DEF Held
        <5>6. lo > 0
          BY <5>4, <1>7
        <5> QED BY <5>2, <5>5, <5>6, <1>2, <4>3
      <4>4. CASE h < lo
        <5>1. h \notin S /\ h-1 \notin S
          BY <4>1, <4>4, <1>1 DEF S
        <5> QED BY <3>1, <3>2, <4>1, <5>1, <1>r, <2>1 DEF Linked
      <4>5. CASE h > last
        <5>1. h \notin S /\ ~(h <= tip)
          BY <4>1, <4>5, <1>1, <1>5 DEF S
        <5>2. feed'[h] = feed[h]
          BY <3>1, <4>1, <5>1, <1>r
        <5> QED BY <5>1, <5>2, <3>2, <4>1, <2>1 DEF Held
      <4> QED BY <4>1, <4>2, <4>3, <4>4, <4>5, <1>1
    <3>3. ASSUME NEW h \in Held(feed') PROVE h <= tip'
      <4>1. h \in S \/ h \in Held(feed)
        BY <3>1, <3>3, <1>r DEF Held
      <4> QED BY <4>1, <1>1, <1>5, <1>9, <2>1, <3>3 DEF S, Held
    <3> QED BY <2>3, <3>2, <3>3 DEF Linked
  <2> QED BY <2>4, <2>5
<1> QED BY <1>9, <1>12, <1>14, <1>15, <1>16, <1>17, <1>18, IndexNext

\* A backfill batch lands right below the archive's lowest block.
LEMMA BackfillPut ==
  ASSUME TypeOK, Control, OneChain, ~spliced, pc = "backfill", Fetched, ArchiveRangeLinked
  PROVE  /\ Linked(Put(archive, batch, lo..hi)) /\ Unbroken(Put(archive, batch, lo..hi))
         /\ \A h \in Held(archive) : h > hi
<1>1. /\ lo \in Heights /\ hi \in Heights /\ lo <= hi /\ hi < MaxHeight
      /\ archive[hi] = NULL /\ archive[hi+1] # NULL
  BY BoundsAssumption DEF Control, TypeOK, Heights
<1>2. Run(batch, lo, hi)
  BY DEF Fetched, BatchEnd, ArchiveRangeLinked, Run
<1>3. Prev[archive[hi+1]] = batch[hi]
  BY <1>1 DEF ArchiveRangeLinked
<1>4. IsIndex(archive) /\ IsIndex(batch) /\ Linked(archive) /\ Unbroken(archive)
  BY DEF TypeOK, OneChain
<1> QED BY <1>1, <1>2, <1>3, <1>4, PutBelow

LEMMA IndexBackfilled ==
  ASSUME TypeOK, Control, IndexInv, BackfillCommit
  PROVE  IndexInv'
<1>1. /\ pc = "backfill" /\ Fetched
      /\ UNCHANGED <<hot, tip, feed, owed, spliced>>
  BY DEF BackfillCommit, storeVars, feedVars
<1>2. CASE archive' = archive
  BY <1>1, <1>2, IndexKept
<1>3. CASE ArchiveRangeLinked /\ archive' = Put(archive, batch, lo..hi)
  <2>1. IsTip(hot', tip') /\ Cardinality(Held(hot')) <= MaxBlocks
    BY <1>1 DEF IndexInv, TipHeld
  <2>2. ASSUME ~spliced'
        PROVE  /\ Linked(archive') /\ Unbroken(archive')
               /\ Linked(hot') /\ Unbroken(hot')
               /\ HasArchive => \A h \in Heights : hot'[h] # NULL => archive'[h] = hot'[h]
               /\ HasArchive /\ tip' >= 0 => \A h \in Held(archive') : h <= tip'
    <3>1. ~spliced /\ OneChain
      BY <1>1, <2>2 DEF IndexInv
    <3>2. /\ Linked(archive') /\ Unbroken(archive') /\ \A h \in Held(archive) : h > hi
      BY <1>1, <1>3, <3>1, BackfillPut
    <3>3. /\ HasArchive /\ hi+1 \in Held(archive) /\ hi \in Heights
          /\ lo..hi \subseteq Heights /\ Heights \subseteq Int
      BY <1>1, BoundsAssumption DEF Control, TypeOK, Held, Heights
    <3>4. \A h \in Heights : archive'[h] = IF h \in lo..hi THEN batch[h] ELSE archive[h]
      BY <1>3 DEF Put
    <3>5. ASSUME NEW h \in Heights, hot'[h] # NULL PROVE archive'[h] = hot'[h]
      <4>1. archive[h] = hot[h] /\ h \in Held(archive)
        BY <1>1, <3>1, <3>3, <3>5 DEF OneChain, Held
      <4>2. h \notin lo..hi
        BY <4>1, <3>2, <3>3
      <4> QED BY <1>1, <4>1, <4>2, <3>4, <3>5
    <3>6. ASSUME tip' >= 0, NEW h \in Held(archive') PROVE h <= tip'
      <4>1. \A k \in Held(archive) : k <= tip
        BY <1>1, <3>1, <3>3, <3>6 DEF OneChain
      <4>2. hi+1 <= tip /\ tip \in Int /\ hi \in Int
        BY <4>1, <3>3, BoundsAssumption DEF TypeOK, Heights
      <4>3. h \in lo..hi \/ h \in Held(archive)
        BY <3>4 DEF Held
      <4>4. lo \in Int
        BY BoundsAssumption DEF TypeOK, Heights
      <4> QED BY <4>1, <4>2, <4>3, <4>4, <1>1
    <3> QED BY <1>1, <3>1, <3>2, <3>5, <3>6 DEF OneChain
  <2>3. ~owed' => /\ \A h \in Heights : feed'[h] # NULL /\ hot'[h] # NULL => feed'[h] = hot'[h]
                  /\ Linked(feed') /\ \A h \in Held(feed') : h <= tip'
    BY <1>1 DEF IndexInv, FeedMatchesIndex, FeedLinked
  <2> QED BY <2>1, <2>2, <2>3, IndexNext
<1> QED BY <1>2, <1>3 DEF BackfillCommit

LEMMA IndexStep ==
  ASSUME TypeOK, Control, IndexInv, [Next]_vars
  PROVE  IndexInv'
<1>1. CASE InitVerify \/ InitFails \/ FetchFails \/ RejectBatch
  <2>1. UNCHANGED <<hot, tip, archive, feed, owed, spliced>>
    BY <1>1 DEF InitVerify, InitFails, FetchFails, RejectBatch, diskVars, feedVars
  <2> QED BY <2>1, IndexKept
<1>2. CASE InitGenesis
  BY <1>2, IndexRestored
<1>3. CASE ReadHead \/ CheckGenesis \/ CheckTip
  <2>1. Wipe \/ WipeFails \/ NotDead
    BY <1>3 DEF ReadHead, CheckGenesis, CheckTip, AfterGenesis
  <2>2. WipeFails \/ NotDead => UNCHANGED <<hot, tip, archive, feed, owed, spliced>>
    BY DEF WipeFails, NotDead, diskVars, feedVars
  <2> QED BY <2>1, <2>2, IndexWiped, IndexKept
<1>4. CASE Fetch
  <2>1. UNCHANGED <<hot, tip, archive, feed, owed, spliced>>
    BY <1>4 DEF Fetch, FetchBlock, storeVars, diskVars, feedVars
  <2> QED BY <2>1, IndexKept
<1>5. CASE CommitBatch
  <2>1. pc = "fetch" /\ Fetched /\ RangeLinked /\ Commit(BatchEnd)
    BY <1>5 DEF CommitBatch
  <2>2. lo <= BatchEnd /\ BatchEnd \in Heights /\ BatchEnd <= BatchEnd
    BY <2>1, BoundsAssumption DEF Control, TypeOK, BatchEnd, Least, Heights
  <2> QED BY <2>1, <2>2, IndexCommitted
<1>6. CASE CommitFails
  <2>1. PICK last \in lo-1 .. BatchEnd-1 : Commit(last)
    BY <1>6 DEF CommitFails
  <2>2. pc = "fetch" /\ Fetched /\ RangeLinked
    BY <1>6 DEF CommitFails
  <2>3. last \in Heights \cup {-1} /\ last <= BatchEnd /\ (last \in Heights \/ last < lo)
    BY BatchEndType, BoundsAssumption DEF TypeOK, Heights
  <2>4. last < lo \/ (last \in Heights /\ lo <= last)
    BY <2>3, BoundsAssumption DEF TypeOK, Heights
  <2> QED BY <2>1, <2>2, <2>3, <2>4, IndexCommitted, IndexCommittedNone
<1>7. CASE BackfillCommit
  BY <1>7, IndexBackfilled
<1>8. CASE Environment
  <2>1. CASE Restart
    BY <2>1, IndexRestarted
  <2>2. CASE \E r \in Relays : RelayFlips(r) \/ \E c \in Chains : RelayMoves(r, c)
    <3>1. UNCHANGED <<hot, tip, archive, feed, owed, spliced>>
      BY <2>2 DEF RelayFlips, RelayMoves, storeVars, diskVars, feedVars
    <3> QED BY <3>1, IndexKept
  <2> QED BY <1>8, <2>1, <2>2 DEF Environment
<1>9. CASE UNCHANGED vars
  <2>1. UNCHANGED <<hot, tip, archive, feed, owed, spliced>>
    BY <1>9 DEF vars, storeVars, diskVars, feedVars
  <2> QED BY <2>1, IndexKept
<1> QED BY <1>1, <1>2, <1>3, <1>4, <1>5, <1>6, <1>7, <1>8, <1>9 DEF Next, Tick

-----------------------------------------------------------------------------
(* Where the tick stands, and readiness.                                     *)

NoDisk == ~HasArchive => archive = NoBlocks

\* A tick that ends without becoming ready.
LEMMA TickOver ==
  ASSUME EndTick, phase' # "live", ~known' => tip' = -1, NoDisk'
  PROVE  Control' /\ ReadyMeansCaughtUp'
BY DEF EndTick, Control, ReadyMeansCaughtUp, Ready, NoDisk

\* A tick that is ready: its head is the tip.
LEMMA PassOver ==
  ASSUME FinishPass(archive'), known', tip' = head', tip' \in Heights, IndexInv', NoDisk'
  PROVE  Control' /\ ReadyMeansCaughtUp'
<1>1. hot'[tip'] # NULL
  <2>1. IsTip(hot', tip')
    BY DEF IndexInv, TipHeld, IsTip, Held
  <2> QED BY <2>1, BoundsAssumption DEF IsTip, Held, Heights
<1>2. ReadyMeansCaughtUp'
  BY <1>1 DEF ReadyMeansCaughtUp
<1>3. CASE pc' = "idle"
  BY <1>2, <1>3 DEF Control, NoDisk
<1>4. CASE /\ pc' = "backfill" /\ HasArchive
           /\ lo' \in Heights /\ hi' \in Heights /\ lo' <= hi' /\ hi' < MaxHeight
           /\ archive'[hi'] = NULL /\ archive'[hi'+1] # NULL
  BY <1>2, <1>4, BoundsAssumption DEF Control, NoDisk, Heights
<1> QED BY <1>3, <1>4, FinishPassFacts

\* A tick that goes on to index, or has nothing to index.
LEMMA PassBegun ==
  ASSUME BeginPass(tip', archive', head'), known', head' \in Heights,
         tip' \in Heights \cup {-1}, tip' <= head', IndexInv', NoDisk'
  PROVE  Control' /\ ReadyMeansCaughtUp'
<1>1. CASE /\ pc' = "fetch" /\ hi' = head' /\ lo' <= hi'
           /\ (tip' >= 0 => lo' = tip' + 1)
  BY <1>1 DEF Control, ReadyMeansCaughtUp, NoDisk
<1>2. CASE FinishPass(archive') /\ (head' >= 0 => tip' >= head')
  <2>1. tip' = head' /\ tip' \in Heights
    BY <1>2, BoundsAssumption DEF Heights
  <2> QED BY <1>2, <2>1, PassOver
<1> QED BY <1>1, <1>2, BeginPassFacts

LEMMA WipeOver ==
  ASSUME Wipe \/ WipeFails, known', head' \in Heights, NoDisk
  PROVE  Control' /\ ReadyMeansCaughtUp'
<1>1. CASE Wipe
  BY <1>1 DEF Wipe, Control, ReadyMeansCaughtUp
<1>2. CASE WipeFails
  <2>1. EndTick /\ phase' # "live" /\ NoDisk'
    BY <1>2 DEF WipeFails, TickFails, diskVars, NoDisk
  <2> QED BY <2>1, TickOver
<1> QED BY <1>1, <1>2

LEMMA GenesisOver ==
  ASSUME AfterGenesis(head'), known', head' \in Heights, tip \in Heights, NoDisk
  PROVE  Control' /\ ReadyMeansCaughtUp'
<1>1. CASE Wipe \/ WipeFails
  BY <1>1, WipeOver
<1>2. CASE ~(head' < tip) /\ pc' = "checkTip" /\ NotDead
  <2>1. tip' = tip /\ NoDisk'
    BY <1>2 DEF NotDead, diskVars, NoDisk
  <2>2. tip' >= 0 /\ tip' <= head'
    BY <1>2, <2>1, BoundsAssumption DEF Heights
  <2> QED BY <1>2, <2>1, <2>2 DEF Control, ReadyMeansCaughtUp, NoDisk
<1> QED BY <1>1, <1>2 DEF AfterGenesis, HeadBelowTip

LEMMA ControlStep ==
  ASSUME TypeOK, Control, IndexInv, ReadyMeansCaughtUp, [Next]_vars, TypeOK', IndexInv'
  PROVE  Control' /\ ReadyMeansCaughtUp'
<1>d. NoDisk
  BY DEF Control, NoDisk
<1>k. pc # "idle" => known
  BY DEF Control
<1>t. tip \in Heights \cup {-1} /\ head \in Heights \cup {-1} /\ (tip < 0 => tip = -1)
  BY BoundsAssumption DEF TypeOK, Heights
<1>1. CASE InitVerify
  <2>1. UNCHANGED <<tip, head, archive, hot>> /\ NoDisk'
    BY <1>1, <1>d DEF InitVerify, diskVars, NoDisk
  <2>2. CASE TickFails("offline") /\ UNCHANGED known
    <3>1. ~known' => tip' = -1
      BY <2>1, <2>2 DEF Control
    <3> QED BY <2>1, <2>2, <3>1, TickOver DEF TickFails
  <2>3. CASE known' = TRUE /\ pc' = IF pc = "idle" THEN "bootGenesis" ELSE "resetGenesis"
    <3>1. tip' = -1 /\ (pc' = "resetGenesis" => archive' = NoBlocks /\ head' \in Heights)
      BY <1>1, <2>1, <2>3 DEF InitVerify, Control
    <3> QED BY <2>1, <2>3, <3>1 DEF Control, ReadyMeansCaughtUp, NoDisk
  <2> QED BY <1>1, <2>2, <2>3 DEF InitVerify
<1>2. CASE InitGenesis
  <2>1. pc \in {"bootGenesis", "resetGenesis"} /\ known' /\ head' = head
    BY <1>2, <1>k DEF InitGenesis
  <2>2. PICK t \in Heights \cup {-1} :
          /\ IsTip(hot', t) /\ tip' = t /\ hot' = Retain(archive')
          /\ IF pc = "bootGenesis" THEN pc' = "head" /\ phase' = "bootstrap"
             ELSE BeginPass(t, archive', head)
    BY <1>2 DEF InitGenesis
  <2>3. archive' \in {archive, NoBlocks}
    BY <1>2 DEF InitGenesis
  <2>4. NoDisk'
    BY <2>3, <1>d DEF NoDisk
  <2>5. CASE pc = "bootGenesis"
    BY <2>1, <2>2, <2>4, <2>5 DEF Control, ReadyMeansCaughtUp, NoDisk
  <2>6. CASE pc = "resetGenesis"
    <3>1. archive' = NoBlocks /\ head' \in Heights
      BY <2>1, <2>3, <2>6 DEF Control
    <3>2. tip' = -1
      <4>1. IsTip(archive', t)
        BY <2>2, <3>1, NoBlocksIndex, RetainTip
      <4> QED BY <2>2, <3>1, <4>1, NoBlocksIndex DEF IsTip
    <3>3. tip' <= head' /\ tip' \in Heights \cup {-1}
      BY <3>1, <3>2, BoundsAssumption DEF Heights
    <3> QED BY <2>1, <2>2, <2>4, <2>6, <3>1, <3>3, PassBegun
  <2> QED BY <2>1, <2>5, <2>6
<1>3. CASE InitFails
  <2>1. EndTick /\ phase' # "live" /\ known' /\ NoDisk'
    BY <1>3, <1>d, <1>k DEF InitFails, TickFails, diskVars, NoDisk
  <2> QED BY <2>1, TickOver
<1>4. CASE ReadHead
  <2>1. known' /\ known' = known
    BY <1>4, <1>k DEF ReadHead
  <2>2. CASE (TickFails("offline") \/ TickFails("halted")) /\ NotDead
    <3>1. EndTick /\ phase' # "live" /\ NoDisk'
      BY <2>2, <1>d DEF TickFails, NotDead, diskVars, NoDisk
    <3> QED BY <2>1, <3>1, TickOver
  <2>3. ASSUME NEW n \in Heights, head' = n, tip < 0, BeginPass(tip, archive, n), NotDead
        PROVE  Control' /\ ReadyMeansCaughtUp'
    <3>1. tip' = tip /\ archive' = archive /\ NoDisk'
      BY <2>3, <1>d DEF NotDead, diskVars, NoDisk
    <3>2. tip' <= head' /\ tip' \in Heights \cup {-1}
      BY <3>1, <2>3, <1>t, BoundsAssumption DEF Heights
    <3>3. BeginPass(tip', archive', head')
      BY <3>1, <2>3
    <3> QED BY <2>1, <2>3, <3>1, <3>2, <3>3, PassBegun
  <2>4. ASSUME NEW n \in Heights, head' = n, ~(tip < 0), AfterGenesis(n)
        PROVE  Control' /\ ReadyMeansCaughtUp'
    <3>1. tip \in Heights
      BY <2>4, <1>t
    <3> QED BY <2>1, <2>4, <3>1, <1>d, GenesisOver
  <2>5. ASSUME NEW n \in Heights, head' = n, ~(tip < 0), pc' = "checkGenesis", NotDead
        PROVE  Control' /\ ReadyMeansCaughtUp'
    <3>1. tip' = tip /\ NoDisk' /\ tip' >= 0
      BY <2>5, <1>d, <1>t, BoundsAssumption DEF NotDead, diskVars, NoDisk, Heights
    <3> QED BY <2>1, <2>5, <3>1 DEF Control, ReadyMeansCaughtUp, NoDisk
  <2> QED BY <1>4, <2>2, <2>3, <2>4, <2>5 DEF ReadHead
<1>5. CASE CheckGenesis
  <2>1. known' /\ head' = head /\ head \in Heights /\ tip \in Heights
    BY <1>5, <1>k, <1>t, BoundsAssumption DEF CheckGenesis, Control, Heights
  <2>2. Wipe \/ WipeFails \/ AfterGenesis(head')
    BY <1>5, <2>1 DEF CheckGenesis
  <2> QED BY <2>1, <2>2, <1>d, WipeOver, GenesisOver
<1>6. CASE CheckTip
  <2>1. known' /\ head' = head /\ head \in Heights /\ tip <= head
    BY <1>6, <1>k DEF CheckTip, Control
  <2>2. CASE Wipe \/ WipeFails
    BY <2>1, <2>2, <1>d, WipeOver
  <2>3. CASE BeginPass(tip, archive, head) /\ NotDead
    <3>1. tip' = tip /\ archive' = archive /\ NoDisk'
      BY <2>3, <1>d DEF NotDead, diskVars, NoDisk
    <3>2. BeginPass(tip', archive', head')
      BY <3>1, <2>1, <2>3
    <3> QED BY <2>1, <3>1, <3>2, <1>t, PassBegun
  <2> QED BY <1>6, <2>2, <2>3 DEF CheckTip
<1>7. CASE Fetch
  <2>1. UNCHANGED <<pc, head, lo, hi, hot, tip, archive, known, phase>>
    BY <1>7 DEF Fetch, FetchBlock, storeVars, diskVars
  <2> QED BY <2>1 DEF Control, ReadyMeansCaughtUp, Ready
<1>8. CASE FetchFails \/ BackfillCommit
  <2>1. CASE TickFails("offline") /\ pc = "fetch" /\ UNCHANGED <<known, archive>>
    <3>1. EndTick /\ phase' # "live" /\ known' /\ NoDisk'
      BY <2>1, <1>d, <1>k DEF TickFails, NoDisk
    <3> QED BY <3>1, TickOver
  <2>2. CASE EndTick /\ pc = "backfill" /\ UNCHANGED <<phase, known, head, tip, hot>>
    <3>1. HasArchive /\ known'
      BY <2>2, <1>k DEF Control
    <3> QED BY <2>2, <3>1 DEF EndTick, Control, ReadyMeansCaughtUp, Ready
  <2> QED BY <1>8, <2>1, <2>2 DEF FetchFails, BackfillCommit, diskVars, storeVars
<1>9. CASE CommitBatch
  <2>1. /\ pc = "fetch" /\ Fetched /\ RangeLinked /\ Commit(BatchEnd)
        /\ known' /\ head' = head
    BY <1>9, <1>k DEF CommitBatch
  <2>2. lo <= BatchEnd /\ BatchEnd \in Heights /\ BatchEnd <= hi /\ hi = head /\ head \in Heights
    BY <2>1, BoundsAssumption DEF Control, TypeOK, BatchEnd, Least, Heights
  <2>3. tip' = BatchEnd
    BY <2>1, <2>2, IndexCommitted, BoundsAssumption DEF Heights
  <2>4. NoDisk'
    BY <2>1, <1>d DEF Commit, NoDisk
  <2>5. CASE BatchEnd < hi /\ lo' = BatchEnd + 1 /\ UNCHANGED <<pc, hi, phase>>
    <3>1. lo' <= hi' /\ hi' = head' /\ head' \in Heights /\ lo' = tip' + 1
      BY <2>1, <2>2, <2>3, <2>5, BoundsAssumption DEF Heights
    <3> QED BY <2>1, <2>4, <2>5, <3>1 DEF Control, ReadyMeansCaughtUp, NoDisk
  <2>6. CASE ~(BatchEnd < hi) /\ FinishPass(archive')
    <3>1. tip' = head' /\ tip' \in Heights
      BY <2>1, <2>2, <2>3, <2>6, BoundsAssumption DEF Heights
    <3> QED BY <2>1, <2>4, <2>6, <3>1, PassOver
  <2> QED BY <1>9, <2>5, <2>6 DEF CommitBatch
<1>10. CASE CommitFails \/ RejectBatch
  <2>1. EndTick /\ phase' # "live" /\ known'
    BY <1>10, <1>k DEF CommitFails, RejectBatch, TickFails
  <2>2. NoDisk'
    BY <1>10, <1>d DEF CommitFails, RejectBatch, Commit, diskVars, NoDisk
  <2> QED BY <2>1, <2>2, TickOver
<1>11. CASE Environment
  <2>1. CASE Restart
    <3>1. EndTick /\ phase' # "live" /\ tip' = -1 /\ NoDisk'
      BY <2>1, <1>d DEF Restart, diskVars, NoDisk
    <3> QED BY <3>1, TickOver
  <2>2. CASE \E r \in Relays : RelayFlips(r) \/ \E c \in Chains : RelayMoves(r, c)
    <3>1. UNCHANGED <<pc, head, lo, hi, hot, tip, archive, known, phase>>
      BY <2>2 DEF RelayFlips, RelayMoves, tickVars, storeVars, diskVars
    <3> QED BY <3>1 DEF Control, ReadyMeansCaughtUp, Ready
  <2> QED BY <1>11, <2>1, <2>2 DEF Environment
<1>12. CASE UNCHANGED vars
  <2>1. UNCHANGED <<pc, head, lo, hi, hot, tip, archive, known, phase>>
    BY <1>12 DEF vars, tickVars, storeVars, diskVars
  <2> QED BY <2>1 DEF Control, ReadyMeansCaughtUp, Ready
<1> QED BY <1>1, <1>2, <1>3, <1>4, <1>5, <1>6, <1>7, <1>8, <1>9, <1>10, <1>11, <1>12
        DEF Next, Tick

-----------------------------------------------------------------------------
(* The invariants of the specification.                                      *)

LEMMA InvInit == Init => IInv
<1> SUFFICES ASSUME Init PROVE IInv
  OBVIOUS
<1>1. TypeOK
  BY TypeInit
<1>2. TipHeld /\ OneChain /\ FeedMatchesIndex /\ FeedLinked
  <2>1. \A h \in Heights : hot[h] = NULL /\ feed[h] = NULL
    BY DEF Init, NoBlocks
  <2> QED BY <2>1, NoBlocksChain, NoBlocksIndex
          DEF Init, TipHeld, OneChain, FeedMatchesIndex, FeedLinked
<1>3. Control /\ ReadyMeansCaughtUp
  BY DEF Init, Control, ReadyMeansCaughtUp, Ready
<1> QED BY <1>1, <1>2, <1>3 DEF IInv

LEMMA InvStep == IInv /\ [Next]_vars => IInv'
<1> SUFFICES ASSUME IInv, [Next]_vars PROVE IInv'
  OBVIOUS
<1>1. TypeOK /\ Control /\ IndexInv /\ ReadyMeansCaughtUp
  BY DEF IInv, IndexInv
<1>2. TypeOK'
  BY <1>1, TypeStep
<1>3. IndexInv'
  BY <1>1, IndexStep
<1>4. Control' /\ ReadyMeansCaughtUp'
  BY <1>1, <1>2, <1>3, ControlStep
<1> QED BY <1>2, <1>3, <1>4 DEF IInv, IndexInv

LEMMA InvCorrect == Spec => []IInv
BY InvInit, InvStep, PTL DEF Spec

\* The hot store always holds its tip, keeps at most MaxBlocks blocks, and
\* eviction never takes the block the next parent check needs.
THEOREM TipCorrect == Spec => []TipHeld
<1>1. IInv => TipHeld
  BY DEF IInv
<1> QED BY <1>1, InvCorrect, PTL

\* The archive is one unbroken chain up to the tip and the hot store its upper
\* part, unless a first sync wrote over an archive that was never restored.
THEOREM OneChainCorrect == Spec => []OneChain
<1>1. IInv => OneChain
  BY DEF IInv
<1> QED BY <1>1, InvCorrect, PTL

\* The process and its disk hold an index of one chain, with its tip, in every
\* state of a tick.
THEOREM IndexCorrect == Spec => []IndexSound
<1>1. IInv => IndexSound
  BY DEF IInv, IndexSound
<1> QED BY <1>1, InvCorrect, PTL

\* What the feed announced agrees with the index and is one chain up to the tip,
\* whenever no reset is owed to the browsers.
THEOREM FeedCorrect == Spec => []FeedSound
<1>1. IInv => FeedSound
  BY DEF IInv, FeedSound
<1> QED BY <1>1, InvCorrect, PTL

\* Between ticks, ready means indexed up to the head last read.
THEOREM ReadyCorrect == Spec => []ReadyMeansCaughtUp
<1>1. IInv => ReadyMeansCaughtUp
  BY DEF IInv
<1> QED BY <1>1, InvCorrect, PTL

\* No step replaces an archived block: the archive only grows, at both ends of
\* its run, or is wiped whole.
LEMMA ArchiveGrows ==
  ASSUME IInv, Next, ~spliced'
  PROVE  archive' = NoBlocks \/ \A h \in Held(archive) : archive'[h] = archive[h]
<1>i. TypeOK /\ Control /\ IndexInv /\ OneChain
  BY DEF IInv, IndexInv
<1>1. CASE archive' \in {archive, NoBlocks}
  BY <1>1
<1>2. ASSUME NEW last \in Heights \cup {-1}, Commit(last), HasArchive,
             pc = "fetch", last <= BatchEnd
      PROVE  archive' = NoBlocks \/ \A h \in Held(archive) : archive'[h] = archive[h]
  <2>1. /\ archive' = Put(archive, batch, lo..last)
        /\ ~spliced /\ (tip < 0 /\ lo <= last => archive = NoBlocks)
    BY <1>2 DEF Commit
  <2>2. lo \in Heights /\ tip \in Heights \cup {-1} /\ (tip >= 0 => lo = tip + 1)
    BY <1>i, <1>2 DEF TypeOK, Control
  <2>3. tip >= 0 => \A h \in Held(archive) : h <= tip
    BY <1>i, <1>2, <2>1 DEF OneChain
  <2>4. ASSUME NEW h \in Held(archive) PROVE h \notin lo..last
    <3>1. CASE tip >= 0
      BY <3>1, <2>2, <2>3, <2>4, BoundsAssumption DEF Held, Heights
    <3>2. CASE tip < 0 /\ lo <= last
      BY <3>2, <2>1, <2>4, NoBlocksIndex
    <3>3. CASE ~(lo <= last)
      BY <3>3, <2>2, BoundsAssumption DEF Heights
    <3> QED BY <3>1, <3>2, <3>3, <2>2, BoundsAssumption DEF Heights
  <2> QED BY <2>1, <2>4 DEF Put, Held
<1>3. CASE CommitBatch \/ CommitFails
  <2>1. /\ pc = "fetch"
        /\ \E last \in {BatchEnd} \cup (lo-1 .. BatchEnd-1) : Commit(last)
    BY <1>3 DEF CommitBatch, CommitFails
  <2>2. PICK last \in {BatchEnd} \cup (lo-1 .. BatchEnd-1) : Commit(last)
    BY <2>1
  <2>3. last \in Heights \cup {-1} /\ last <= BatchEnd
    BY <1>i, <2>2, BatchEndType, BoundsAssumption DEF TypeOK, Heights
  <2>4. CASE HasArchive
    BY <1>2, <2>1, <2>2, <2>3, <2>4
  <2>5. CASE ~HasArchive
    BY <1>1, <2>2, <2>5 DEF Commit
  <2> QED BY <2>4, <2>5
<1>4. CASE BackfillCommit
  <2>1. pc = "backfill" /\ Fetched /\ ~spliced
    BY <1>4 DEF BackfillCommit
  <2>2. CASE archive' = archive
    BY <1>1, <2>2
  <2>3. CASE ArchiveRangeLinked /\ archive' = Put(archive, batch, lo..hi)
    <3>1. \A h \in Held(archive) : h > hi
      BY <1>i, <2>1, <2>3, BackfillPut
    <3>2. \A h \in Held(archive) : h \notin lo..hi
      BY <1>i, <3>1, BoundsAssumption DEF TypeOK, Held, Heights
    <3> QED BY <2>3, <3>2 DEF Put, Held
  <2> QED BY <1>4, <2>2, <2>3 DEF BackfillCommit
<1>5. CASE ReadHead \/ CheckGenesis \/ CheckTip
  <2>1. Wipe \/ WipeFails \/ NotDead
    BY <1>5 DEF ReadHead, CheckGenesis, CheckTip, AfterGenesis
  <2> QED BY <1>1, <2>1 DEF Wipe, WipeFails, NotDead, diskVars
<1>6. CASE InitVerify \/ InitGenesis \/ InitFails \/ FetchFails \/ RejectBatch \/ Environment
  BY <1>1, <1>6 DEF InitVerify, InitGenesis, InitFails, FetchFails, RejectBatch,
     Environment, RelayMoves, RelayFlips, Restart, diskVars
<1>7. CASE Fetch
  BY <1>1, <1>7 DEF Fetch, FetchBlock, diskVars
<1> QED BY <1>3, <1>4, <1>5, <1>6, <1>7 DEF Next, Tick

\* Archived history is never rewritten block by block.
THEOREM SilentRewriteFree == Spec => NoSilentRewrite
<1>1. IInv /\ [Next]_vars =>
        [~spliced' => archive' = NoBlocks
                      \/ \A h \in Held(archive) : archive'[h] = archive[h]]_vars
  BY ArchiveGrows
<1> QED BY <1>1, InvCorrect, PTL DEF Spec, NoSilentRewrite

-----------------------------------------------------------------------------
(* The archive that requests write too (IndexerRest).  What a tick finds in  *)
(* the archive is not what it left there, so the invariant speaks of Own,    *)
(* the heights the indexer itself wrote last: they join where they meet, and *)
(* end at the tip.  A request only takes heights out of Own.                 *)

NextToFetch == /\ pc = "fetch" => lo <= hi /\ (tip >= 0 => lo = tip + 1)
               /\ pc = "backfill" => HasArchive

OwnSound ==
  ~seam => /\ \A h \in Heights \ {0} :
                h \in Own /\ h-1 \in Own => Prev[archive[h]] = archive[h-1]
           /\ tip >= 0 => /\ \A h \in Own : h <= tip
                          /\ tip \in Own => archive[tip] = hot[tip]

RestInv == RestTypeOK /\ TipHeld /\ NextToFetch /\ NoDisk /\ OwnSound

\* What remains of Own once the indexer wrote the heights S is S and Own.
LEMMA OwnAfter ==
  ASSUME Ours, NEW S, NEW b, \A h \in Heights : archive'[h] = IF h \in S THEN b[h] ELSE archive[h]
  PROVE  /\ \A h \in Own' : h \in Heights /\ archive'[h] # NULL /\ (h \in S \/ h \in Own)
<1> SUFFICES ASSUME NEW h \in Own', h \notin S
             PROVE  h \in Heights /\ archive'[h] # NULL /\ h \in Own
  BY DEF Own, Held
<1>1. h \in Heights /\ archive'[h] # NULL /\ h \notin byRest'
  BY DEF Own, Held
<1>2. archive'[h] = archive[h]
  BY <1>1
<1>3. h \notin byRest
  BY <1>1, <1>2 DEF Ours
<1> QED BY <1>1, <1>2, <1>3 DEF Own, Held

LEMMA OwnEmpty ==
  ASSUME archive' = NoBlocks
  PROVE  OwnSound'
<1>1. Own' = {}
  BY NoBlocksIndex DEF Own, Held
<1> QED BY <1>1, BoundsAssumption DEF OwnSound, Heights

\* A step of the indexer that leaves the store and the archive alone.
LEMMA OwnAlong ==
  ASSUME OwnSound, Ours, UNCHANGED <<archive, hot, tip>>
  PROVE  OwnSound'
<1>1. CASE archive' = NoBlocks
  BY <1>1, OwnEmpty
<1>2. CASE archive' # NoBlocks
  <2>1. byRest' = {h \in byRest : archive'[h] = archive[h]}
    BY DEF Ours
  <2>2. \A h : h \in Own' => h \in Own
    BY <2>1 DEF Own, Held
  <2>3. ~seam' => ~seam
    BY <1>2 DEF Ours
  <2> QED BY <2>2, <2>3 DEF OwnSound
<1> QED BY <1>1, <1>2

\* init() restores the store up to the highest block of the archive.
LEMMA OwnRestored ==
  ASSUME TypeOK, OwnSound, Ours, InitGenesis
  PROVE  OwnSound'
<1>1. PICK t \in Heights \cup {-1} :
        /\ archive' = NoBlocks \/ archive' = archive
        /\ hot' = Retain(archive') /\ IsTip(hot', t) /\ tip' = t
  BY DEF InitGenesis
<1>2. CASE archive' = NoBlocks
  BY <1>2, OwnEmpty
<1>3. CASE archive' = archive /\ archive' # NoBlocks
  <2>1. \A h : h \in Own' => h \in Own
    BY <1>3 DEF Own, Held, Ours
  <2>2. ~seam' => ~seam
    BY <1>3 DEF Ours
  <2>3. IsIndex(archive)
    BY DEF TypeOK
  <2>4. IsTip(archive, tip')
    BY <1>1, <1>3, <2>3, RetainTip
  <2>5. \A h \in Own' : h <= tip'
    BY <2>1, <2>4 DEF Own, IsTip
  <2>6. tip' >= 0 => archive'[tip'] = hot'[tip']
    <3>1. tip' >= 0 => tip' \in Heights /\ hot'[tip'] # NULL
      BY <1>1 DEF IsTip, Held
    <3> QED BY <3>1, <1>1, <1>3, <2>3, RetainKeeps
  <2> QED BY <1>3, <2>1, <2>2, <2>5, <2>6 DEF OwnSound
<1> QED BY <1>1, <1>2, <1>3

\* A request takes the height it writes out of Own.
LEMMA OwnOnDemand ==
  ASSUME RestTypeOK, OwnSound, NEW h \in Heights, NEW b, PutOnDemand(h, b)
  PROVE  OwnSound'
<1>1. UNCHANGED <<hot, tip, seam>>
  BY DEF PutOnDemand, storeVars
<1>2. CASE UNCHANGED <<archive, byRest>>
  BY <1>1, <1>2 DEF OwnSound, Own, Held
<1>3. CASE archive' = [archive EXCEPT ![h] = b] /\ byRest' = byRest \cup {h}
  <2>1. \A k \in Own' : k \in Own /\ archive'[k] = archive[k]
    BY <1>3 DEF RestTypeOK, TypeOK, IsIndex, Own, Held
  <2> QED BY <1>1, <2>1 DEF OwnSound
<1> QED BY <1>2, <1>3 DEF PutOnDemand

\* commitRecord of the blocks lo..last: the store ends at last.
LEMMA RestCommitted ==
  ASSUME TypeOK, TipHeld, NextToFetch, pc = "fetch", Fetched, RangeLinked,
         NEW last \in Heights, lo <= last, last <= BatchEnd, Commit(last)
  PROVE  /\ TipHeld' /\ tip' = last
         /\ hot'[last] = batch[last] /\ hot'[last] # NULL
         /\ tip < lo
<1> DEFINE P == Put(hot, batch, lo..last)
<1>1. lo \in Heights /\ IsIndex(hot) /\ IsIndex(batch) /\ tip \in Heights \cup {-1}
      /\ lo..last \subseteq Heights /\ Heights \subseteq Int
  BY BoundsAssumption DEF TypeOK, Heights
<1>2. tip < lo /\ tip < last
  BY <1>1, BoundsAssumption DEF NextToFetch, Heights
<1>3. hot' = Retain(P) /\ tip' = last
  BY <1>2 DEF Commit
<1>4. \A h \in Heights : P[h] = IF h \in lo..last THEN batch[h] ELSE hot[h]
  BY DEF Put
<1>5. IsIndex(P)
  BY <1>1, PutIndex
<1>6. P[last] = batch[last] /\ batch[last] # NULL
  BY <1>1, <1>4, BatchRun DEF Run
<1>7. IsTip(P, last)
  <2>1. \A h \in Held(P) : h \in lo..last \/ h \in Held(hot)
    BY <1>4 DEF Held
  <2>2. \A h \in Held(hot) : h <= tip
    BY DEF TipHeld, IsTip
  <2>3. \A h \in Held(P) : h \in Heights
    BY DEF Held
  <2>4. last \in Held(P)
    BY <1>6 DEF Held
  <2> HIDE DEF P
  <2>5. \A h \in Held(P) : h <= last
    <3> TAKE h \in Held(P)
    <3>1. h \in Int
      BY <2>3, <1>1
    <3>2. h \in lo..last \/ h <= tip
      BY <2>1, <2>2
    <3>3. last \in Int /\ tip \in Int /\ lo \in Int
      BY <1>1
    <3> QED BY <3>1, <3>2, <3>3, <1>2
  <2> QED BY <2>4, <2>5 DEF IsTip
<1> HIDE DEF P
<1>8. IsTip(hot', tip') /\ Cardinality(Held(hot')) <= MaxBlocks
  BY <1>3, <1>5, <1>7, RetainTip, RetainKeeps
<1>9. hot'[last] # NULL
  BY <1>3, <1>8, <1>1, BoundsAssumption DEF IsTip, Held, Heights
<1>10. hot'[last] = batch[last]
  BY <1>3, <1>5, <1>6, <1>9, RetainKeeps
<1>11. TipHeld'
  BY <1>8 DEF TipHeld, IsTip, Held
<1> QED BY <1>2, <1>3, <1>9, <1>10, <1>11

\* Committing no block changes nothing.
LEMMA RestCommittedNone ==
  ASSUME TypeOK, TipHeld, NEW last \in Heights \cup {-1}, last < lo, Commit(last)
  PROVE  TipHeld' /\ UNCHANGED <<tip, archive>> /\ (tip >= 0 => hot'[tip] = hot[tip])
<1>1. lo..last = {} /\ ~(lo <= last)
  BY BoundsAssumption DEF TypeOK, Heights
<1>2. Put(hot, batch, {}) = hot /\ Put(archive, batch, {}) = archive
  BY DEF TypeOK, IsIndex, Put
<1>3. hot' = Retain(hot) /\ tip' = tip /\ archive' = archive
  BY <1>1, <1>2 DEF Commit
<1>4. IsIndex(hot) /\ tip \in Heights \cup {-1}
  BY DEF TypeOK
<1>5. IsTip(hot', tip') /\ Cardinality(Held(hot')) <= MaxBlocks
  BY <1>3, <1>4, RetainTip, RetainKeeps DEF TipHeld
<1>6. TipHeld'
  BY <1>5 DEF TipHeld, IsTip, Held
<1>7. tip >= 0 => hot'[tip] # NULL /\ tip \in Heights
  BY <1>3, <1>5 DEF IsTip, Held
<1> QED BY <1>3, <1>4, <1>6, <1>7, RetainKeeps

LEMMA OwnCommitted ==
  ASSUME RestTypeOK, TipHeld, NextToFetch, NoDisk, OwnSound, Ours,
         pc = "fetch", Fetched, RangeLinked,
         NEW last \in Heights, lo <= last, last <= BatchEnd, Commit(last)
  PROVE  OwnSound'
<1>0. TypeOK /\ lo \in Heights /\ Heights \subseteq Int
  BY BoundsAssumption DEF RestTypeOK, TypeOK, Heights
<1>1. /\ tip' = last /\ hot'[last] = batch[last] /\ hot'[last] # NULL /\ tip < lo
  BY <1>0, RestCommitted
<1>2. Run(batch, lo, last) /\ (lo > 0 /\ hot[lo-1] # NULL => Prev[batch[lo]] = hot[lo-1])
  BY <1>0, BatchRun
<1>3. CASE archive' = NoBlocks
  BY <1>3, OwnEmpty
<1>4. CASE archive' # NoBlocks
  <2>1. HasArchive /\ archive' = Put(archive, batch, lo..last)
    BY <1>4 DEF Commit, NoDisk
  <2>2. \A h \in Heights : archive'[h] = IF h \in lo..last THEN batch[h] ELSE archive[h]
    BY <2>1 DEF Put
  <2>3. \A h \in Own' : h \in Heights /\ archive'[h] # NULL /\ (h \in lo..last \/ h \in Own)
    BY <2>2, OwnAfter
  <2> SUFFICES ASSUME ~seam' PROVE OwnSound'
    BY DEF OwnSound
  <2>4. ~seam /\ ~Uncompared
    BY <1>4 DEF Ours
  <2>5. \A h \in Own : h <= tip /\ tip >= 0
    <3>1. CASE tip >= 0
      BY <3>1, <2>4 DEF OwnSound
    <3>2. CASE ~(tip >= 0)
      <4>1. hot' # hot
        <5>1. tip = -1
          BY <3>2, <1>0, BoundsAssumption DEF TypeOK, Heights
        <5>2. last \notin Held(hot)
          BY <5>1, BoundsAssumption DEF TipHeld, IsTip, Heights
        <5> QED BY <5>2, <1>1 DEF Held
      <4>2. tip < 0
        BY <3>2, <1>0, BoundsAssumption DEF TypeOK, Heights
      <4>3. Own = {}
        BY <4>1, <4>2, <2>4 DEF Uncompared
      <4> QED BY <4>3
    <3> QED BY <3>1, <3>2
  <2>6. ASSUME NEW h \in Heights \ {0}, h \in Own', h-1 \in Own'
        PROVE  Prev[archive'[h]] = archive'[h-1]
    <3>0. h \in Heights /\ h \in Int /\ h-1 \in Heights /\ last \in Int /\ lo \in Int
          /\ tip \in Int
      BY <1>0, BoundsAssumption DEF Heights, TypeOK
    <3>1. CASE h \in lo+1 .. last
      <4>1. h \in lo..last /\ h-1 \in lo..last
        BY <3>0, <3>1
      <4>2. archive'[h] = batch[h] /\ archive'[h-1] = batch[h-1]
        BY <4>1, <3>0, <2>2
      <4> QED BY <4>2, <3>1, <1>2 DEF Run
    <3>2. CASE h = lo
      <4>1. h \in lo..last /\ h-1 \notin lo..last
        BY <3>0, <3>2
      <4>2. h-1 \in Own
        BY <2>3, <2>6, <4>1
      <4>3. tip >= 0 /\ h-1 = tip
        BY <4>2, <2>5, <3>0, <3>2 DEF NextToFetch
      <4>4. archive[tip] = hot[tip] /\ hot[tip] # NULL
        BY <4>2, <4>3, <2>4, <3>0 DEF OwnSound, TipHeld, IsTip, Held
      <4>5. archive'[h] = batch[h] /\ archive'[h-1] = archive[h-1]
        BY <4>1, <3>0, <2>2
      <4>6. lo > 0 /\ hot[lo-1] # NULL
        BY <3>0, <3>2, <4>3, <4>4
      <4> QED BY <4>3, <4>4, <4>5, <4>6, <3>2, <1>2
    <3>3. CASE h < lo
      <4>1. h \notin lo..last /\ h-1 \notin lo..last
        BY <3>0, <3>3
      <4>2. h \in Own /\ h-1 \in Own
        BY <2>3, <2>6, <4>1
      <4>3. archive'[h] = archive[h] /\ archive'[h-1] = archive[h-1]
        BY <4>1, <3>0, <2>2
      <4> QED BY <4>2, <4>3, <2>4 DEF OwnSound
    <3>4. CASE h > last
      <4>1. h \notin lo..last
        BY <3>0, <3>4
      <4>2. h \in Own
        BY <2>3, <2>6, <4>1
      <4> QED BY <4>2, <2>5, <3>0, <3>4, <1>1
    <3> QED BY <3>0, <3>1, <3>2, <3>3, <3>4
  <2>7. \A h \in Own' : h <= tip'
    <3> TAKE h \in Own'
    <3>1. h \in Int /\ last \in Int /\ tip \in Int /\ lo \in Int
      BY <2>3, <1>0, BoundsAssumption DEF TypeOK, Heights
    <3>2. h \in lo..last \/ h <= tip
      BY <2>3, <2>5
    <3> QED BY <3>1, <3>2, <1>1
  <2>8. tip' \in Own' => archive'[tip'] = hot'[tip']
    <3>1. last \in lo..last
      BY <1>0
    <3> QED BY <3>1, <2>2, <1>1
  <2> QED BY <2>6, <2>7, <2>8 DEF OwnSound
<1> QED BY <1>3, <1>4

\* A backfill that compares with all it must lands below Own.
LEMMA OwnBackfilled ==
  ASSUME RestTypeOK, OwnSound, Ours, BackfillCommit
  PROVE  OwnSound'
<1>0. /\ TypeOK /\ lo \in Heights /\ hi \in Heights \cup {-1} /\ tip \in Heights \cup {-1}
      /\ Heights \subseteq Int
  BY BoundsAssumption DEF RestTypeOK, TypeOK, Heights
<1>1. pc = "backfill" /\ Fetched /\ UNCHANGED <<hot, tip>>
  BY DEF BackfillCommit, storeVars
<1>2. CASE archive' = archive
  BY <1>1, <1>2, OwnAlong
<1>3. CASE archive' = NoBlocks
  BY <1>3, OwnEmpty
<1>4. CASE archive' # archive /\ archive' # NoBlocks
  <2>1. ArchiveRangeLinked /\ archive' = Put(archive, batch, lo..hi)
    BY <1>4 DEF BackfillCommit
  <2>2. \A h \in Heights : archive'[h] = IF h \in lo..hi THEN batch[h] ELSE archive[h]
    BY <2>1 DEF Put
  <2>3. \A h \in Own' : h \in Heights /\ archive'[h] # NULL /\ (h \in lo..hi \/ h \in Own)
    BY <2>2, OwnAfter
  <2> SUFFICES ASSUME ~seam' PROVE OwnSound'
    BY DEF OwnSound
  <2>4. ~seam /\ ~Uncompared
    BY <1>4 DEF Ours
  <2>5. ~(tip <= hi) /\ \A h \in Own : ~(h <= hi)
    BY <2>4, <1>1, <1>4 DEF Uncompared
  <2>6. ASSUME NEW h \in Heights \ {0}, h \in Own', h-1 \in Own'
        PROVE  Prev[archive'[h]] = archive'[h-1]
    <3>0. h \in Heights /\ h \in Int /\ h-1 \in Heights /\ hi \in Int /\ lo \in Int
      BY <1>0, BoundsAssumption DEF Heights
    <3>1. CASE h \in lo+1 .. hi
      <4>1. h \in lo..hi /\ h-1 \in lo..hi
        BY <3>0, <3>1
      <4> QED BY <4>1, <3>0, <3>1, <2>1, <2>2 DEF ArchiveRangeLinked
    <3>2. CASE h = hi+1
      <4>1. h \notin lo..hi
        BY <3>0, <3>2
      <4>2. archive'[h] = archive[h] /\ archive[h] # NULL
        BY <4>1, <3>0, <2>2, <2>3, <2>6
      <4>3. h-1 \in lo..hi
        BY <2>3, <2>5, <2>6, <3>0, <3>2
      <4>4. archive'[h-1] = batch[hi]
        BY <4>3, <3>0, <3>2, <2>2
      <4> QED BY <4>2, <4>4, <3>2, <2>1 DEF ArchiveRangeLinked
    <3>3. CASE h > hi+1
      <4>1. h \notin lo..hi /\ h-1 \notin lo..hi
        BY <3>0, <3>3
      <4>2. h \in Own /\ h-1 \in Own
        BY <2>3, <2>6, <4>1
      <4>3. archive'[h] = archive[h] /\ archive'[h-1] = archive[h-1]
        BY <4>1, <3>0, <2>2
      <4> QED BY <4>2, <4>3, <2>4 DEF OwnSound
    <3>4. CASE h <= lo
      <4>1. h-1 \notin lo..hi /\ h-1 \in Own
        BY <3>0, <3>4, <2>3, <2>6
      <4>2. ~(h-1 <= hi)
        BY <4>1, <2>5
      <4>3. h \notin lo..hi /\ h \in Own
        BY <4>2, <3>0, <2>3, <2>6
      <4>4. archive'[h] = archive[h] /\ archive'[h-1] = archive[h-1]
        BY <4>1, <4>3, <3>0, <2>2
      <4> QED BY <4>1, <4>3, <4>4, <2>4 DEF OwnSound
    <3> QED BY <3>0, <3>1, <3>2, <3>3, <3>4
  <2>7. ASSUME tip >= 0, NEW h \in Own' PROVE h <= tip
    <3>1. h \in lo..hi \/ h <= tip
      BY <2>3, <2>4, <2>7 DEF OwnSound
    <3>2. h \in Int
      BY <2>3, <1>0
    <3>3. tip \in Int /\ hi \in Int /\ lo \in Int
      BY <1>0
    <3> QED BY <3>1, <3>2, <3>3, <2>5
  <2>8. ASSUME tip >= 0, tip \in Own' PROVE archive'[tip] = hot[tip]
    <3>1. tip \notin lo..hi /\ tip \in Heights
      BY <2>5, <2>8, <1>0
    <3>2. tip \in Own /\ archive'[tip] = archive[tip]
      BY <3>1, <2>2, <2>3, <2>8
    <3> QED BY <3>2, <2>4, <2>8 DEF OwnSound
  <2> QED BY <1>1, <2>6, <2>7, <2>8 DEF OwnSound
<1> QED BY <1>2, <1>3, <1>4
\* The steps of the indexer that touch the store or the archive.
LEMMA IndexTouched ==
  ASSUME [Next]_vars
  PROVE  \/ UNCHANGED <<archive, hot, tip>>
         \/ archive' = NoBlocks /\ hot' = NoBlocks /\ tip' = -1
         \/ Restart \/ InitGenesis \/ CommitBatch \/ CommitFails \/ BackfillCommit
<1>1. CASE InitVerify \/ InitFails \/ FetchFails \/ RejectBatch \/ Fetch
  BY <1>1 DEF InitVerify, InitFails, FetchFails, RejectBatch, Fetch, FetchBlock, storeVars, diskVars
<1>2. CASE ReadHead \/ CheckGenesis \/ CheckTip
  <2>1. Wipe \/ WipeFails \/ NotDead
    BY <1>2 DEF ReadHead, CheckGenesis, CheckTip, AfterGenesis
  <2> QED BY <2>1 DEF Wipe, WipeFails, NotDead, diskVars
<1>3. CASE Environment
  BY <1>3 DEF Environment, RelayFlips, RelayMoves, storeVars, diskVars
<1>4. CASE UNCHANGED vars
  BY <1>4 DEF vars, storeVars, diskVars
<1> QED BY <1>1, <1>2, <1>3, <1>4 DEF Next, Tick

LEMMA BatchEndsAt ==
  ASSUME TypeOK, NextToFetch, CommitBatch \/ CommitFails
  PROVE  \E last \in Heights \cup {-1} :
           Commit(last) /\ last <= BatchEnd /\ pc = "fetch" /\ Fetched /\ RangeLinked
<1>1. CASE CommitBatch
  <2>1. BatchEnd \in Heights \cup {-1} /\ BatchEnd <= BatchEnd
    BY BatchEndType, BoundsAssumption DEF Heights
  <2> QED BY <1>1, <2>1 DEF CommitBatch
<1>2. CASE CommitFails
  <2>1. PICK last \in lo-1 .. BatchEnd-1 : Commit(last)
    BY <1>2 DEF CommitFails
  <2>2. last \in Heights \cup {-1} /\ last <= BatchEnd
    BY BatchEndType, BoundsAssumption DEF TypeOK, Heights
  <2> QED BY <1>2, <2>1, <2>2 DEF CommitFails
<1> QED BY <1>1, <1>2

\* TipHeld is the same statement as in IndexerSync, and its steps are the same.
LEMMA RestTipStep ==
  ASSUME TypeOK, TipHeld, NextToFetch, [Next]_vars
  PROVE  TipHeld'
<1>1. CASE UNCHANGED <<hot, tip>>
  BY <1>1 DEF TipHeld, IsTip, Held
<1>2. CASE hot' = NoBlocks /\ tip' = -1
  <2>1. IsTip(hot', tip') /\ Cardinality(Held(hot')) <= MaxBlocks
    BY <1>2, NoBlocksChain
  <2> QED BY <2>1 DEF TipHeld, IsTip, Held
<1>3. CASE InitGenesis
  <2>1. PICK t \in Heights \cup {-1} :
          /\ archive' = NoBlocks \/ archive' = archive
          /\ hot' = Retain(archive') /\ IsTip(hot', t) /\ tip' = t
    BY <1>3 DEF InitGenesis
  <2>2. IsIndex(archive')
    BY <2>1, NoBlocksIndex DEF TypeOK
  <2>3. IsTip(hot', tip') /\ Cardinality(Held(hot')) <= MaxBlocks
    BY <2>1, <2>2, RetainKeeps
  <2> QED BY <2>3 DEF TipHeld, IsTip, Held
<1>4. CASE CommitBatch \/ CommitFails
  <2>1. PICK last \in Heights \cup {-1} :
          Commit(last) /\ last <= BatchEnd /\ pc = "fetch" /\ Fetched /\ RangeLinked
    BY <1>4, BatchEndsAt
  <2>2. last < lo \/ (last \in Heights /\ lo <= last)
    BY BoundsAssumption DEF TypeOK, Heights
  <2> QED BY <2>1, <2>2, RestCommitted, RestCommittedNone
<1>5. CASE BackfillCommit \/ Restart
  BY <1>1, <1>2, <1>5 DEF BackfillCommit, storeVars, Restart
<1> QED BY <1>1, <1>2, <1>3, <1>4, <1>5, IndexTouched

\* The indexer's steps keep the rest of the invariant.
LEMMA OwnStep ==
  ASSUME RestInv, Ours, [Next]_vars
  PROVE  OwnSound'
<1>0. TypeOK /\ RestTypeOK /\ OwnSound /\ TipHeld /\ NextToFetch /\ NoDisk
  BY DEF RestInv, RestTypeOK
<1>1. CASE UNCHANGED <<archive, hot, tip>>
  BY <1>0, <1>1, OwnAlong
<1>2. CASE archive' = NoBlocks
  BY <1>2, OwnEmpty
<1>3. CASE InitGenesis
  BY <1>0, <1>3, OwnRestored
<1>4. CASE CommitBatch \/ CommitFails
  <2>1. PICK last \in Heights \cup {-1} :
          Commit(last) /\ last <= BatchEnd /\ pc = "fetch" /\ Fetched /\ RangeLinked
    BY <1>0, <1>4, BatchEndsAt
  <2>2. CASE last < lo
    <3>1. UNCHANGED <<tip, archive>> /\ (tip >= 0 => hot'[tip] = hot[tip])
      BY <1>0, <2>1, <2>2, RestCommittedNone
    <3>2. CASE archive' # NoBlocks
      <4>1. \A h : h \in Own' => h \in Own
        BY <3>1 DEF Own, Held, Ours
      <4>2. ~seam' => ~seam
        BY <3>2 DEF Ours
      <4> QED BY <1>0, <3>1, <4>1, <4>2 DEF OwnSound
    <3> QED BY <3>2, <1>2
  <2>3. CASE last \in Heights /\ lo <= last
    BY <1>0, <2>1, <2>3, OwnCommitted
  <2> QED BY <1>0, <2>2, <2>3, BoundsAssumption DEF TypeOK, Heights
<1>5. CASE BackfillCommit
  BY <1>0, <1>5, OwnBackfilled
<1>6. CASE Restart
  <2>1. archive' = archive /\ tip' = -1
    BY <1>6 DEF Restart, diskVars
  <2>2. \A h : h \in Own' => h \in Own
    BY <2>1 DEF Own, Held, Ours
  <2>3. CASE archive' # NoBlocks
    <3>1. ~seam' => ~seam
      BY <2>3 DEF Ours
    <3>2. ~(tip' >= 0)
      BY <2>1
    <3> QED BY <1>0, <2>1, <2>2, <3>1, <3>2 DEF OwnSound
  <2> QED BY <2>3, <1>2
<1> QED BY <1>1, <1>2, <1>3, <1>4, <1>5, <1>6, IndexTouched

\* Where a pass stands when it goes on.
LEMMA NextToFetchStep ==
  ASSUME TypeOK, TipHeld, NextToFetch, [Next]_vars
  PROVE  NextToFetch'
<1>1. CASE UNCHANGED <<pc, lo, hi, tip>>
  BY <1>1 DEF NextToFetch
<1>2. CASE pc' # "fetch" /\ (pc' = "backfill" => HasArchive)
  BY <1>2 DEF NextToFetch
<1>3. ASSUME NEW arch, NEW t \in Heights \cup {-1}, NEW hd \in Heights \cup {-1},
             BeginPass(t, arch, hd), tip' = t
      PROVE  NextToFetch'
  <2>1. CASE FinishPass(arch)
    BY <2>1, <1>2, FinishPassFacts
  <2>2. CASE ~FinishPass(arch)
    BY <2>2, <1>3, BeginPassFacts DEF NextToFetch
  <2> QED BY <2>1, <2>2
<1>4. CASE CommitBatch
  <2>1. CASE FinishPass(archive')
    BY <2>1, <1>2, FinishPassFacts
  <2>2. CASE BatchEnd < hi /\ lo' = BatchEnd + 1 /\ UNCHANGED <<pc, hi>>
    <3>1. pc = "fetch" /\ Fetched /\ RangeLinked /\ Commit(BatchEnd)
      BY <1>4 DEF CommitBatch
    <3>2. BatchEnd \in Heights /\ lo <= BatchEnd /\ BatchEnd <= BatchEnd
      BY <3>1, <2>2, BatchEndType, BoundsAssumption DEF TypeOK, Heights
    <3>3. tip' = BatchEnd
      BY <3>1, <3>2, RestCommitted
    <3>4. hi \in Int /\ BatchEnd \in Int
      BY <3>2, BoundsAssumption DEF TypeOK, Heights
    <3> QED BY <2>2, <3>3, <3>4 DEF NextToFetch
  <2> QED BY <1>4, <2>1, <2>2 DEF CommitBatch
<1>5. CASE InitGenesis
  BY <1>5, <1>2, <1>3 DEF InitGenesis, TypeOK
<1>6. CASE ReadHead \/ CheckTip \/ CheckGenesis
  <2>1. ASSUME NEW n \in Heights \cup {-1}, BeginPass(tip, archive, n), NotDead
        PROVE  NextToFetch'
    BY <2>1, <1>3 DEF NotDead, TypeOK
  <2>2. CASE pc' = "checkTip" \/ pc' = "checkGenesis" \/ Wipe \/ WipeFails
             \/ TickFails("offline") \/ TickFails("halted")
    BY <2>2, <1>2 DEF Wipe, WipeFails, TickFails, EndTick
  <2> QED BY <1>6, <2>1, <2>2 DEF ReadHead, CheckTip, CheckGenesis, AfterGenesis, TypeOK
<1>7. CASE InitVerify \/ InitFails \/ FetchFails \/ CommitFails \/ RejectBatch \/ BackfillCommit
  BY <1>7, <1>2 DEF InitVerify, InitFails, FetchFails, CommitFails, RejectBatch, BackfillCommit,
     TickFails, EndTick
<1>8. CASE Fetch
  BY <1>8, <1>1 DEF Fetch, FetchBlock, storeVars
<1>9. CASE Environment
  <2>1. CASE Restart
    BY <2>1, <1>2 DEF Restart, EndTick
  <2>2. CASE \E r \in Relays : RelayFlips(r) \/ \E c \in Chains : RelayMoves(r, c)
    BY <2>2, <1>1 DEF RelayFlips, RelayMoves, tickVars, storeVars
  <2> QED BY <1>9, <2>1, <2>2 DEF Environment
<1>10. CASE UNCHANGED vars
  BY <1>10, <1>1 DEF vars, tickVars, storeVars
<1> QED BY <1>4, <1>5, <1>6, <1>7, <1>8, <1>9, <1>10 DEF Next, Tick

LEMMA NoDiskStep ==
  ASSUME NoDisk, NextToFetch, [Next]_vars
  PROVE  NoDisk'
<1>1. CASE archive' = archive \/ archive' = NoBlocks
  BY <1>1 DEF NoDisk
<1>2. CASE CommitBatch \/ CommitFails
  BY <1>2 DEF CommitBatch, CommitFails, Commit, NoDisk
<1>3. CASE BackfillCommit
  BY <1>3 DEF BackfillCommit, NextToFetch, NoDisk
<1>4. CASE InitGenesis
  BY <1>4, <1>1 DEF InitGenesis
<1>5. CASE Restart
  BY <1>5, <1>1 DEF Restart, diskVars
<1> QED BY <1>1, <1>2, <1>3, <1>4, <1>5, IndexTouched
-----------------------------------------------------------------------------
(* The variables of the requests.                                            *)

AskType == /\ ask \in Requests \cup {NoRequest} /\ got \in Records \cup {Nothing}
           /\ got # Nothing => ask \in Requests /\ ask.by # "tx"
           /\ memo \in [Refs -> Records \cup {Nothing}]

LEMMA AskTypePrimed == TypeOK' /\ AskType' /\ (byRest \subseteq Held(archive))' /\ seam' \in BOOLEAN
                       /\ mixed' \in BOOLEAN => RestTypeOK'
BY DEF AskType, RestTypeOK, Held

\* What a request names, and that it is not no request.
LEMMA RequestParts ==
  /\ \A q \in Requests : q.ref \in Refs /\ q # NoRequest
  /\ \A h \in Heights : [by |-> "receipt", ref |-> h] \in Requests
BY DEF Requests, Refs, NoRequest

\* A request writes one block to the archive, or fails to.
LEMMA OnDemandType ==
  ASSUME RestTypeOK, NEW h \in Heights, NEW b \in Blocks, PutOnDemand(h, b)
  PROVE  TypeOK' /\ (byRest \subseteq Held(archive))' /\ seam' \in BOOLEAN /\ mixed' \in BOOLEAN
<1>0. b # NULL
  BY ChainsAssumption
<1>1. DiskType'
  BY DEF PutOnDemand, RestTypeOK, TypeOK, DiskType, IsIndex
<1>2. faults' \in 0..MaxFaults
  BY BoundsAssumption DEF PutOnDemand, ArchiveError, RestTypeOK, TypeOK
<1>3. TypeOK'
  BY <1>1, <1>2, TypeParts, TypePartsPrimed DEF RestTypeOK, PutOnDemand, tickVars, poolVars, storeVars, feedVars,
     WorldType, PoolType, TickType, StoreType, FeedType, HeadType, DiskType, IsIndex
<1>4. (byRest \subseteq Held(archive))'
  BY <1>0 DEF PutOnDemand, RestTypeOK, TypeOK, IsIndex, Held
<1>5. seam' \in BOOLEAN /\ mixed' \in BOOLEAN
  BY DEF PutOnDemand, RestTypeOK
<1> QED BY <1>3, <1>4, <1>5

LEMMA OnDemandInv ==
  ASSUME RestInv, NEW h \in Heights, NEW b \in Blocks, PutOnDemand(h, b), AskType'
  PROVE  RestInv'
<1>1. RestTypeOK'
  BY OnDemandType, AskTypePrimed DEF RestInv
<1>2. OwnSound'
  BY OwnOnDemand DEF RestInv
<1>3. TipHeld' /\ NextToFetch'
  BY DEF RestInv, PutOnDemand, tickVars, storeVars, TipHeld, IsTip, Held, NextToFetch
<1>4. NoDisk'
  BY DEF RestInv, PutOnDemand, NoDisk
<1> QED BY <1>1, <1>2, <1>3, <1>4 DEF RestInv

\* A step that only moves a request along.
LEMMA RestQuiet ==
  ASSUME RestInv, UNCHANGED <<vars, byRest, seam, mixed>>, AskType'
  PROVE  RestInv'
<1> USE DEF vars, relayVars, poolVars, tickVars, storeVars, diskVars, feedVars
<1>1. TypeOK'
  BY TypeStep DEF RestInv, RestTypeOK
<1>2. (byRest \subseteq Held(archive))' /\ seam' \in BOOLEAN /\ mixed' \in BOOLEAN
  BY DEF RestInv, RestTypeOK, Held
<1>3. RestTypeOK'
  BY <1>1, <1>2, AskTypePrimed
<1>4. TipHeld' /\ NextToFetch' /\ NoDisk'
  BY DEF RestInv, TipHeld, IsTip, Held, NextToFetch, NoDisk
<1>5. OwnSound'
  BY DEF RestInv, OwnSound, Own, Held
<1> QED BY <1>3, <1>4, <1>5 DEF RestInv

LEMMA RestInvInit == Init /\ RestInit => RestInv
<1> SUFFICES ASSUME Init, RestInit PROVE RestInv
  OBVIOUS
<1>1. TypeOK
  BY TypeInit
<1>2. archive = NoBlocks /\ hot = NoBlocks /\ tip = -1 /\ pc = "idle"
  BY DEF Init
<1>3. RestTypeOK
  BY <1>1, NoBlocksIndex DEF RestInit, RestTypeOK, IsIndex
<1>4. TipHeld
  BY <1>2, NoBlocksChain DEF TipHeld
<1>5. OwnSound
  <2>1. Own = {}
    BY <1>2, NoBlocksIndex DEF Own
  <2> QED BY <1>2, <2>1 DEF OwnSound
<1> QED BY <1>2, <1>3, <1>4, <1>5 DEF RestInv, NextToFetch, NoDisk

LEMMA RestInvStep == RestInv /\ [RestNext]_allVars => RestInv'
<1> SUFFICES ASSUME RestInv, [RestNext]_allVars PROVE RestInv'
  OBVIOUS
<1>0. TypeOK /\ RestTypeOK /\ AskType /\ TipHeld /\ NextToFetch /\ NoDisk /\ OwnSound
  BY DEF RestInv, RestTypeOK, AskType
<1>1. CASE IndexerStep
  <2>1. Next /\ Ours /\ UNCHANGED <<ask, got, memo>>
    BY <1>1 DEF IndexerStep, Next, Environment
  <2>3. TypeOK' /\ TipHeld' /\ NextToFetch' /\ NoDisk'
    BY <1>0, <2>1, TypeStep, RestTipStep, NextToFetchStep, NoDiskStep
  <2>4. OwnSound'
    BY <2>1, OwnStep
  <2>5. AskType'
    BY <1>0, <2>1 DEF AskType
  <2>6. (byRest \subseteq Held(archive))' /\ seam' \in BOOLEAN /\ mixed' \in BOOLEAN
    BY <1>0, <2>1 DEF Ours, RestTypeOK, Held, Uncompared, Restored
  <2> QED BY <2>3, <2>4, <2>5, <2>6, AskTypePrimed DEF RestInv
<1>2. CASE Reboot
  <2>1. TypeOK' /\ TipHeld' /\ NextToFetch' /\ NoDisk'
    BY <1>0, <1>2, TypeStep, RestTipStep, NextToFetchStep, NoDiskStep DEF Reboot, Next, Environment
  <2>2. archive' = archive /\ byRest' = byRest /\ seam' = seam /\ tip' = -1
    BY <1>2 DEF Reboot, Restart, diskVars
  <2>3. OwnSound'
    BY <1>0, <2>2 DEF OwnSound, Own, Held
  <2>4. AskType'
    BY <1>2 DEF Reboot, AskType
  <2>5. (byRest \subseteq Held(archive))' /\ seam' \in BOOLEAN /\ mixed' \in BOOLEAN
    BY <1>0, <1>2, <2>2 DEF Reboot, RestTypeOK, Held
  <2> QED BY <2>1, <2>3, <2>4, <2>5, AskTypePrimed DEF RestInv
<1>3. CASE ReceiptArrives \/ Answer \/ NotFound
  <2>1. ASSUME ReceiptArrives PROVE AskType'
    BY <1>0, <2>1, RequestParts DEF ReceiptArrives, AskType
  <2>2. ASSUME Answer PROVE AskType'
    BY <1>0, <2>2 DEF Answer, AskType, Records
  <2>3. ASSUME NotFound PROVE AskType'
    BY <1>0, <2>3 DEF NotFound, AskType
  <2>4. AskType'
    BY <1>3, <2>1, <2>2, <2>3
  <2> QED BY <1>3, <2>4, RestQuiet DEF ReceiptArrives, Answer, NotFound
<1>4. CASE BlockArrives \/ TxArrives
  <2>1. got.height \in Heights /\ got.block \in Blocks /\ got \in Records
    BY <1>0, <1>4 DEF AskType, BlockArrives, TxArrives, Records
  <2>2. memo' \in [Refs -> Records \cup {Nothing}]
    <3>1. ASSUME BlockArrives PROVE memo' \in [Refs -> Records \cup {Nothing}]
      BY <1>0, <2>1, <3>1 DEF AskType, BlockArrives, Remember
    <3>2. ASSUME TxArrives PROVE memo' \in [Refs -> Records \cup {Nothing}]
      BY <1>0, <3>2 DEF AskType, TxArrives
    <3> QED BY <1>4, <3>1, <3>2
  <2>3. AskType'
    BY <1>4, <2>2 DEF AskType, BlockArrives, TxArrives
  <2> QED BY <1>4, <2>1, <2>3, OnDemandInv DEF BlockArrives, TxArrives
<1>5. CASE Request
  <2> PICK q \in Requests : q.by # "receipt" /\ Ask(q)
    BY <1>5 DEF Request
  <2>0. ask = NoRequest /\ got = Nothing
    BY <1>0, RequestParts DEF Ask, AskType
  <2>1. CASE (q.by = "tx" \/ memo[q.ref] = Nothing) /\ ask' = q
             /\ UNCHANGED <<vars, got, memo, byRest, seam, mixed>>
    <3>1. AskType'
      BY <1>0, <2>0, <2>1 DEF AskType
    <3> QED BY <2>1, <3>1, RestQuiet
  <2>2. CASE /\ memo[q.ref] # Nothing /\ UNCHANGED <<ask, got, memo>>
             /\ PutOnDemand(memo[q.ref].height, memo[q.ref].block)
    <3>1. memo[q.ref] \in Records
      BY <1>0, <2>2, RequestParts DEF AskType
    <3>2. memo[q.ref].height \in Heights /\ memo[q.ref].block \in Blocks /\ AskType'
      BY <1>0, <2>2, <3>1 DEF AskType, Records
    <3> QED BY <2>2, <3>2, OnDemandInv
  <2> QED BY <2>1, <2>2 DEF Ask
<1>6. ASSUME NEW ref \in Refs, Forget(ref) PROVE RestInv'
  <2>1. AskType'
    BY <1>0, <1>6 DEF AskType, Forget
  <2> QED BY <1>6, <2>1, RestQuiet DEF Forget
<1>7. CASE UNCHANGED allVars
  <2>1. AskType'
    BY <1>0, <1>7 DEF AskType, allVars, restVars
  <2> QED BY <1>7, <2>1, RestQuiet DEF allVars, restVars
<1> QED BY <1>1, <1>2, <1>3, <1>4, <1>5, <1>6, <1>7 DEF RestNext

\* Two writers of one archive: whatever requests put there and whenever, every
\* variable keeps its type and the blocks that the indexer wrote next to each
\* other join, unless it wrote beside its own blocks without comparing (seam).
THEOREM SharedArchiveCorrect == RestSpec => []SharedArchiveSound
<1>1. RestInv => SharedArchiveSound
  <2> SUFFICES ASSUME RestInv, ~seam, NEW h \in Heights \ {0},
                      {h, h - 1} \cap byRest = {}, archive[h] # NULL, archive[h-1] # NULL
               PROVE  Prev[archive[h]] = archive[h-1]
    BY DEF RestInv, SharedArchiveSound, LinkedElsewhere
  <2>1. h \in Own /\ h-1 \in Own
    BY BoundsAssumption DEF Own, Held, Heights
  <2> QED BY <2>1 DEF RestInv, OwnSound
<1> QED BY <1>1, RestInvInit, RestInvStep, PTL DEF RestSpec
=============================================================================
