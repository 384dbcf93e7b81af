---------------------------- MODULE ServeReplica ----------------------------
(* A serve-only process (startRuntime in src/src/server.js): its hot store is *)
(* filled every second from the archive that the ingest process writes.       *)
(* refresh reads the newest records once and adds those whose height is not   *)
(* held, without a pause.                                                     *)
EXTENDS HotStore

CONSTANTS ParentOf,  \* block -> the block below it, or None
          MaxWipes   \* wipes by the ingest process (bound)

ASSUME ReplicaAssumption ==
  /\ MaxWipes \in Nat
  /\ ParentOf \in [Blocks -> Blocks \cup {None}]
  /\ \A b \in Blocks : ParentOf[b] # None => HeightOf[b] = HeightOf[ParentOf[b]] + 1

VARIABLES
  archive,  \* height: the archived block, or None
  records,  \* the records refresh has still to look at
  wipes

serveVars == <<archive, records, wipes>>
vars == <<storeVars, serveVars>>

Archived == {h \in Heights : archive[h] # None}
Idle == ~ evicting /\ records = <<>>

ServeInit == /\ EmptyStore
             /\ archive = [h \in Heights |-> None]
             /\ records = <<>>
             /\ wipes = 0

-----------------------------------------------------------------------------
(* The ingest process, as the archive shows it.                              *)

Top == CHOOSE h \in Archived : \A k \in Archived : k <= h
Floor == CHOOSE h \in Archived : \A k \in Archived : h <= k

\* The first window may start anywhere, then the archive grows at both ends.
Ingest(b) ==
  /\ Archived # {} => \/ ParentOf[b] = archive[Top]
                      \/ b = ParentOf[archive[Floor]]
  /\ archive' = [archive EXCEPT ![HeightOf[b]] = b]
  /\ UNCHANGED <<storeVars, records, wipes>>

\* The chain was replaced.
clearChainData ==
  /\ Archived # {} /\ wipes < MaxWipes
  /\ archive' = [h \in Heights |-> None]
  /\ wipes' = wipes + 1
  /\ UNCHANGED <<storeVars, records>>

-----------------------------------------------------------------------------
(* refresh.                                                                  *)

\* recentBlocks(maxBlocks).reverse(): the newest records, upward.
NewestButOne ==  \* mutant: the page ends one record early
  {h \in Archived : Cardinality({k \in Archived : k >= h}) \in 2..MaxBlocks}
Newest == {h \in Archived : Cardinality({k \in Archived : k >= h}) <= MaxBlocks}
Upward(S) == [i \in 1..Cardinality(S) |->
                archive[CHOOSE h \in S : Cardinality({k \in S : k <= h}) = i]]

Refresh ==
  /\ Idle
  /\ records' = Upward(Newest)
  /\ UNCHANGED <<storeVars, archive, wipes>>

AddRecord ==
  /\ records # <<>> /\ ~ evicting
  /\ LET b == Head(records) IN
       IF blocks[HeightOf[b]] = None THEN Insert(b) ELSE UNCHANGED storeVars
  /\ records' = Tail(records)
  /\ UNCHANGED <<archive, wipes>>

EvictRecord == Evict /\ UNCHANGED serveVars

Serve == Refresh \/ AddRecord \/ EvictRecord
ServeNext == (\E b \in Blocks : Ingest(b)) \/ clearChainData \/ Serve

ServeSpec == ServeInit /\ [][ServeNext]_vars

\* setInterval fires as long as the process lives.
FairServe == ServeSpec /\ WF_vars(Serve)

-----------------------------------------------------------------------------
(* Properties.                                                               *)

\* Every variable has its type.
ServeTypeOK ==
  /\ TypeOK
  /\ archive \in [Heights -> Blocks \cup {None}]
  /\ records \in Seq(Blocks) /\ Len(records) <= MaxBlocks
  /\ wipes \in 0..MaxWipes

\* Together: the store stays exact and within its limits also when blocks are added
\* below others and evicted again by the next insertion, or are of another branch.
\* (A transaction that both branches hold is counted once too often: no claim.)
ReplicaSound == ServeTypeOK /\ StoreSound /\ BlocksExact

\* The replica follows: its tip comes to be that of the archive.
FollowsTip == []<>(Archived = {} \/ tip >= Top)
=============================================================================
