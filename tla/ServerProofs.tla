---------------------------- MODULE ServerProofs -----------------------------
(* What operators are told stays true and what they retire stays refused, for *)
(* any keys, overlapping manager runs and overlapping reloads; the rate gate  *)
(* holds its limits, and what the process reports of its requests is so.      *)
EXTENDS ApiKeys, Gateway, FiniteSetTheorems, TLAPS

Enabled(doc, i) == doc[i] # None /\ doc[i].enabled
Secret(doc, i) == IF Enabled(doc, i) THEN doc[i].hash ELSE None
\* No identifier of one document is missing in another.
Grown(d, e) == \A i \in Ids : d[i] # None => e[i] # None
\* A document that admits none of the secrets in S.
Admitless(doc, S) == \A i \in Ids : Enabled(doc, i) => doc[i].hash \notin S

\* What an operator was told is what the file holds, and nothing more.
ToldExactly == ~lost => \A i \in Ids : valid[i] = Secret(file, i)

\* A run's document differs from the file in its own key only, unless the file was
\* renamed over meanwhile.
RunsHonest ==
  \A p \in Runs : run[p] # Idle =>
    /\ run[p].id \in Ids /\ run[p].doc \in Document
    /\ run[p].doc[run[p].id] # None /\ run[p].secret = Secret(run[p].doc, run[p].id)
    /\ run[p].stale \/ \A i \in Ids \ {run[p].id} : run[p].doc[i] = file[i]

\* A secret is the valid one of one key, or pending in one run, or retired.
Apart ==
  /\ retired \subseteq 1..secrets
  /\ \A i \in Ids : valid[i] # None =>
       /\ valid[i] \in 1..secrets /\ valid[i] \notin retired
       /\ \A j \in Ids \ {i} : valid[j] # valid[i]
  /\ \A p \in Runs : run[p].secret # None =>
       /\ run[p].secret \in 1..secrets /\ run[p].secret \notin retired
       /\ \A i \in Ids : valid[i] # run[p].secret
       /\ \A q \in Runs \ {p} : run[q].secret # run[p].secret

\* Reloads that read later know of more retired secrets and miss no identifier; one
\* that no later one overtook knows all that was installed.
ReloadsGrow ==
  /\ dead \subseteq retired
  /\ ~lost => Grown(records, file)
  /\ \A k \in 1..Len(reloads) :
       /\ reloads[k].gone \subseteq retired
       /\ reloads[k].stale \/ dead \subseteq reloads[k].gone
       /\ \A m \in 1..Len(reloads) : m <= k => reloads[m].gone \subseteq reloads[k].gone
       /\ ~lost => /\ Admitless(reloads[k].doc, reloads[k].gone)
                   /\ Grown(reloads[k].doc, file)
                   /\ reloads[k].stale \/ Grown(records, reloads[k].doc)
                   /\ \A m \in 1..Len(reloads) : m <= k => Grown(reloads[m].doc, reloads[k].doc)

\* A quota counts what was served, and only keys are served.
QuotaCounts ==
  ~lost /\ ~swapped =>
    \A i \in Ids : served[i] <= Used(i) /\ (records[i] = None => served[i] = 0)

IInv == /\ TypeOK /\ ToldExactly /\ RunsHonest /\ Apart /\ ReloadsGrow /\ QuotaCounts
        /\ ~lost /\ ~swapped => Admitless(records, dead)

-----------------------------------------------------------------------------

RunType == [doc : Document \cup {None}, id : Ids \cup {None}, secret : Secrets \cup {None}, stale : BOOLEAN]
ReloadType == [doc : Document, gone : SUBSET Secrets, stale : BOOLEAN]

LEMMA InvInit == Init => IInv
<1> SUFFICES ASSUME Init PROVE IInv
  OBVIOUS
<1> USE KeysAssumption DEF Init, Empty
<1>1. TypeOK
  <2>1. Idle \in RunType /\ run \in [Runs -> RunType]
    BY DEF Idle, RunType
  <2>2. Empty \in Document /\ file \in Document /\ records \in Document
    BY DEF Document
  <2>3. /\ quotas \in [Ids -> (1..Rpm) \cup {None}] /\ valid \in [Ids -> Secrets \cup {None}]
        /\ served \in [Ids -> 0..(Rpm + 1)] /\ reloads \in Seq(ReloadType)
        /\ secrets \in 0..MaxSecrets
    OBVIOUS
  <2> QED BY <2>1, <2>2, <2>3 DEF TypeOK, RunType, ReloadType
<1>2. ToldExactly /\ RunsHonest /\ Apart
  BY DEF ToldExactly, RunsHonest, Apart, Secret, Enabled, Idle
<1>3. ReloadsGrow /\ QuotaCounts /\ Admitless(records, dead)
  BY DEF ReloadsGrow, QuotaCounts, Admitless, Enabled, Grown, Used
<1> QED BY <1>1, <1>2, <1>3 DEF IInv

\* The three commands begin alike: with a secret never made before, or with none.
LEMMA Begins ==
  ASSUME TypeOK, NEW p \in Runs, NEW i \in Ids, Create(p, i) \/ Rotate(p, i) \/ Revoke(p, i)
  PROVE  \E rec \in Record :
           /\ Begin(p, i, rec)
           /\ \/ secrets' = secrets + 1 /\ rec.hash = secrets + 1 /\ rec.enabled
                   /\ secrets' \in 0..MaxSecrets
              \/ secrets' = secrets /\ ~rec.enabled
<1> USE KeysAssumption
<1>1. CASE Create(p, i) \/ Rotate(p, i)
  <2>1. [hash |-> secrets + 1, enabled |-> TRUE] \in Record /\ secrets + 1 \in 0..MaxSecrets
    BY <1>1 DEF TypeOK, Record, Secrets, Create, Rotate
  <2> QED BY <1>1, <2>1 DEF Create, Rotate
<1>2. CASE Revoke(p, i)
  <2>1. file[i] \in Record
    BY <1>2 DEF Revoke, DocumentAt, TypeOK, Document
  <2>2. [file[i] EXCEPT !.enabled = FALSE] \in Record
    BY <2>1 DEF Record
  <2>3. ~[file[i] EXCEPT !.enabled = FALSE].enabled
    BY <2>1 DEF Record
  <2> QED BY <1>2, <2>2, <2>3 DEF Revoke, DocumentAt
<1> QED BY <1>1, <1>2

LEMMA StepCases ==
  ASSUME TypeOK, [Next]_vars
  PROVE  \/ \E p \in Runs, i \in Ids, rec \in Record :
              /\ Begin(p, i, rec)
              /\ \/ secrets' = secrets + 1 /\ rec.hash = secrets + 1 /\ rec.enabled
                      /\ secrets' \in 0..MaxSecrets
                 \/ secrets' = secrets /\ ~rec.enabled
         \/ \E p \in Runs : Write(p) \/ Abandon(p)
         \/ \E p \in Runs : Rename(p)
         \/ ReadKeyFile
         \/ \E k \in 1..Len(reloads) : Install(k)
         \/ \E s \in 1..secrets : Authorize(s)
         \/ Minute
         \/ UNCHANGED vars
BY Begins DEF Next

\* The document and the secret that a run begins with.
LEMMA NewRun ==
  ASSUME TypeOK, NEW p \in Runs, NEW i \in Ids, NEW rec \in Record, Begin(p, i, rec)
  PROVE  /\ run[p] = Idle
         /\ run' \in [Runs -> RunType]
         /\ \A q \in Runs \ {p} : run'[q] = run[q]
         /\ run'[p].doc = [file EXCEPT ![i] = rec] /\ run'[p].doc \in Document
         /\ run'[p].id = i /\ ~run'[p].stale
         /\ run'[p].secret = IF rec.enabled THEN rec.hash ELSE None
         /\ run'[p].doc[i] = rec /\ rec # None
         /\ UNCHANGED <<file, tmp, valid, retired, lost, serverVars>>
<1> DEFINE new == [doc |-> [DocumentAt EXCEPT ![i] = rec], id |-> i, stale |-> FALSE,
                   secret |-> IF rec.enabled THEN rec.hash ELSE None]
<1>1. [file EXCEPT ![i] = rec] \in Document
  BY DEF TypeOK, Document
<1>2. new \in RunType
  BY <1>1 DEF RunType, Record, DocumentAt
<1>3. run' = [run EXCEPT ![p] = new] /\ run[p] = Idle
  BY DEF Begin
<1>4. run \in [Runs -> RunType] /\ file \in Document
  BY DEF TypeOK, RunType
<1>5. run'[p] = new /\ run' \in [Runs -> RunType] /\ \A q \in Runs \ {p} : run'[q] = run[q]
  BY <1>2, <1>3, <1>4
<1>6. rec # None
  BY KeysAssumption
<1> QED BY <1>1, <1>3, <1>4, <1>5, <1>6 DEF Begin, DocumentAt, Document

\* The reloads left after one of them is installed, by their former places.
Place(k, m) == IF m < k THEN m ELSE m + 1
LEMMA Left ==
  ASSUME TypeOK, NEW k \in 1..Len(reloads), Install(k)
  PROVE  /\ reloads' \in Seq(ReloadType) /\ Len(reloads') = Len(reloads) - 1
         /\ \A m \in 1..Len(reloads') :
              /\ Place(k, m) \in 1..Len(reloads) \ {k}
              /\ reloads'[m].doc = reloads[Place(k, m)].doc
              /\ reloads'[m].gone = reloads[Place(k, m)].gone
              /\ reloads'[m].stale <=> (Place(k, m) < k \/ reloads[Place(k, m)].stale)
<1> DEFINE early == [j \in 1..(k - 1) |-> [reloads[j] EXCEPT !.stale = TRUE]]
           late == SubSeq(reloads, k + 1, Len(reloads))
<1>1. reloads \in Seq(ReloadType) /\ Len(reloads) \in Nat /\ k \in 1..Len(reloads)
  BY DEF TypeOK, ReloadType
<1>2. \A j \in 1..Len(reloads) : reloads[j] \in ReloadType
  BY <1>1
<1>3. ASSUME NEW j \in 1..(k - 1) PROVE early[j] \in ReloadType
  <2>1. early[j] = [reloads[j] EXCEPT !.stale = TRUE] /\ reloads[j] \in ReloadType
    BY <1>1, <1>2
  <2> QED BY <2>1 DEF ReloadType
<1>4. early \in Seq(ReloadType) /\ Len(early) = k - 1
  BY <1>1, <1>3
<1>5. late \in Seq(ReloadType) /\ Len(late) = Len(reloads) - k
      /\ \A j \in 1..Len(late) : late[j] = reloads[k + j]
  BY <1>1
<1>6. reloads' = early \o late
  BY DEF Install
<1>7. Len(early \o late) = Len(reloads) - 1 /\ early \o late \in Seq(ReloadType)
      /\ \A m \in 1..(Len(reloads) - 1) :
           (early \o late)[m] = IF m < k THEN early[m] ELSE late[m - (k - 1)]
  <2> HIDE DEF early, late
  <2>1. k \in 1..Len(reloads) /\ Len(reloads) \in Nat
    BY <1>1
  <2>2. early \o late \in Seq(ReloadType) /\ Len(early \o late) = Len(early) + Len(late)
    <3>1. early \in Seq(ReloadType) /\ late \in Seq(ReloadType)
      BY <1>4, <1>5
    <3> QED BY <3>1
  <2>3. Len(early \o late) = Len(reloads) - 1
    <3>1. Len(early) = k - 1 /\ Len(late) = Len(reloads) - k
      BY <1>4, <1>5
    <3>2. (k - 1) + (Len(reloads) - k) = Len(reloads) - 1
      BY <2>1
    <3> QED BY <2>2, <3>1, <3>2
  <2>4. ASSUME NEW m \in 1..(Len(reloads) - 1)
        PROVE  (early \o late)[m] = IF m < k THEN early[m] ELSE late[m - (k - 1)]
    BY <1>4, <1>5, <2>1
  <2> QED BY <2>2, <2>3, <2>4
<1>8. ASSUME NEW m \in 1..(Len(reloads) - 1)
      PROVE  /\ Place(k, m) \in 1..Len(reloads) \ {k}
             /\ reloads'[m].doc = reloads[Place(k, m)].doc
             /\ reloads'[m].gone = reloads[Place(k, m)].gone
             /\ reloads'[m].stale <=> (Place(k, m) < k \/ reloads[Place(k, m)].stale)
  <2>1. CASE m < k
    <3>1. reloads'[m] = early[m] /\ reloads[m] \in ReloadType /\ m \in 1..(k - 1)
      BY <1>1, <1>2, <1>6, <1>7, <2>1
    <3>2. reloads'[m] = [reloads[m] EXCEPT !.stale = TRUE]
      BY <3>1
    <3> QED BY <1>1, <2>1, <3>1, <3>2 DEF ReloadType, Place
  <2>2. CASE ~(m < k)
    <3>1. reloads'[m] = late[m - (k - 1)] /\ m - (k - 1) \in 1..Len(late)
      <4> HIDE DEF early, late
      <4> QED BY <1>1, <1>5, <1>6, <1>7, <2>2
    <3>2. late[m - (k - 1)] = reloads[k + (m - (k - 1))] /\ k + (m - (k - 1)) = m + 1
      <4> HIDE DEF late
      <4> QED BY <1>1, <1>5, <3>1
    <3> HIDE DEF early, late
    <3>3. reloads'[m] = reloads[m + 1] /\ m + 1 \in 1..Len(reloads) /\ m + 1 # k /\ ~(m + 1 < k)
      BY <1>1, <2>2, <3>1, <3>2
    <3> QED BY <1>1, <1>2, <2>2, <3>3 DEF ReloadType, Place
  <2> QED BY <2>1, <2>2
<1> QED BY <1>6, <1>7, <1>8

-----------------------------------------------------------------------------
(* Types.                                                                    *)

LEMMA TypeStep ==
  ASSUME TypeOK, RunsHonest, [Next]_vars
  PROVE  TypeOK'
<1> USE KeysAssumption
<1>0. /\ file \in Document /\ records \in Document /\ run \in [Runs -> RunType]
      /\ quotas \in [Ids -> (1..Rpm) \cup {None}] /\ reloads \in Seq(ReloadType)
      /\ secrets \in 0..MaxSecrets /\ valid \in [Ids -> Secrets \cup {None}]
      /\ served \in [Ids -> 0..(Rpm + 1)]
  BY DEF TypeOK, RunType, ReloadType
<1>1. ASSUME NEW p \in Runs, NEW i \in Ids, NEW rec \in Record, Begin(p, i, rec),
             secrets' \in 0..MaxSecrets
      PROVE  TypeOK'
  <2>1. run' \in [Runs -> RunType]
    BY <1>1, NewRun
  <2>2. UNCHANGED <<file, tmp, valid, retired, lost, serverVars>>
    BY <1>1, NewRun
  <2> QED BY <1>1, <2>1, <2>2 DEF TypeOK, RunType, serverVars
<1>2. CASE \E p \in Runs : Write(p) \/ Abandon(p)
  <2>1. Idle \in RunType
    BY DEF Idle, RunType
  <2>2. run' \in [Runs -> RunType] /\ tmp' \subseteq Runs
    BY <1>0, <1>2, <2>1 DEF Write, Abandon, TypeOK
  <2>3. UNCHANGED <<file, secrets, valid, retired, lost, serverVars>>
    BY <1>2 DEF Write, Abandon
  <2> QED BY <2>2, <2>3 DEF TypeOK, RunType, serverVars
<1>3. CASE \E p \in Runs : Rename(p)
  <2> PICK p \in Runs : Rename(p)
    BY <1>3
  <2>1. run[p] # Idle /\ run[p] \in RunType
    BY <1>0 DEF Rename
  <2>2. run[p].doc \in Document /\ run[p].id \in Ids /\ run[p].stale \in BOOLEAN
        /\ run[p].secret \in Secrets \cup {None}
    BY <1>0, <2>1 DEF RunType, RunsHonest
  <2>3. run' \in [Runs -> RunType]
    <3>1. Idle \in RunType
      BY DEF Idle, RunType
    <3>2. ASSUME NEW q \in Runs PROVE [run[q] EXCEPT !.stale = TRUE] \in RunType
      <4>1. run[q] \in RunType
        BY <1>0
      <4> QED BY <4>1 DEF RunType
    <3>3. run' = [q \in Runs |-> IF q = p \/ run[q] = Idle THEN Idle
                                 ELSE [run[q] EXCEPT !.stale = TRUE]]
      BY DEF Rename
    <3> HIDE DEF Idle, RunType
    <3> QED BY <3>1, <3>2, <3>3
  <2>4. /\ file' \in Document /\ tmp' \subseteq Runs /\ lost' \in BOOLEAN
        /\ valid' \in [Ids -> Secrets \cup {None}] /\ retired' \subseteq Secrets
    BY <1>0, <2>2 DEF Rename, TypeOK
  <2>5. UNCHANGED <<secrets, serverVars>>
    BY DEF Rename
  <2> QED BY <2>3, <2>4, <2>5 DEF TypeOK, RunType, serverVars
<1>4. CASE ReadKeyFile
  <2>1. [doc |-> file, gone |-> retired, stale |-> FALSE] \in ReloadType
    BY <1>0 DEF TypeOK, ReloadType
  <2>2. reloads' \in Seq(ReloadType)
    BY <1>0, <1>4, <2>1 DEF ReadKeyFile
  <2> QED BY <1>4, <2>2 DEF ReadKeyFile, TypeOK, ReloadType, fileVars
<1>5. CASE \E k \in 1..Len(reloads) : Install(k)
  <2> PICK k \in 1..Len(reloads) : Install(k)
    BY <1>5
  <2>1. reloads[k] \in ReloadType /\ reloads' \in Seq(ReloadType)
    BY <1>0, Left
  <2>2. reloads[k].doc \in Document /\ reloads[k].gone \subseteq Secrets /\ reloads[k].stale \in BOOLEAN
    BY <2>1 DEF ReloadType
  <2>3. quotas' \in [Ids -> (1..Rpm) \cup {None}]
    BY <1>0 DEF Install, KeptQuotas
  <2>4. swapped' \in BOOLEAN /\ records' \in Document /\ dead' \subseteq Secrets
    BY <2>2 DEF Install, TypeOK
  <2> QED BY <2>1, <2>3, <2>4 DEF Install, TypeOK, ReloadType, fileVars
<1>6. CASE \E s \in 1..secrets : Authorize(s)
  <2> PICK s \in 1..secrets, i \in Ids :
           /\ Used(i) < Rpm
           /\ quotas' = [quotas EXCEPT ![i] = Used(i) + 1]
           /\ served' = [served EXCEPT ![i] = IF served[i] > Rpm THEN served[i] ELSE served[i] + 1]
           /\ UNCHANGED <<records, reloads, dead, swapped, fileVars>>
    BY <1>6 DEF Authorize
  <2>1. Used(i) + 1 \in 1..Rpm
    BY <1>0 DEF Used
  <2>2. quotas' \in [Ids -> (1..Rpm) \cup {None}]
    BY <1>0, <2>1
  <2>3. served' \in [Ids -> 0..(Rpm + 1)]
    BY <1>0
  <2> QED BY <2>2, <2>3 DEF TypeOK, fileVars
<1>7. CASE Minute
  BY <1>7 DEF Minute, TypeOK, Empty, fileVars
<1>8. CASE UNCHANGED vars
  BY <1>8 DEF vars, fileVars, serverVars, TypeOK
<1> QED BY <1>0, <1>1, <1>2, <1>3, <1>4, <1>5, <1>6, <1>7, <1>8, StepCases

-----------------------------------------------------------------------------
(* The key file.                                                             *)

\* The steps of the server leave the manager's state alone.
LEMMA FileSteps ==
  ASSUME TypeOK, [Next]_vars
  PROVE  \/ \E p \in Runs, i \in Ids, rec \in Record :
              /\ Begin(p, i, rec)
              /\ \/ secrets' = secrets + 1 /\ rec.hash = secrets + 1 /\ rec.enabled
                      /\ secrets' \in 0..MaxSecrets
                 \/ secrets' = secrets /\ ~rec.enabled
         \/ \E p \in Runs : (Write(p) \/ Abandon(p))
         \/ \E p \in Runs : Rename(p)
         \/ UNCHANGED fileVars
BY StepCases DEF ReadKeyFile, Install, Authorize, Minute, vars

\* A rename, without the branches of the code that it does not take.
LEMMA Renamed ==
  ASSUME TypeOK, RunsHonest, NEW p \in Runs, Rename(p)
  PROVE  /\ run[p] # Idle /\ run[p].id \in Ids /\ run[p].doc \in Document
         /\ file' = run[p].doc /\ file'[run[p].id] # None
         /\ valid' = [valid EXCEPT ![run[p].id] = Secret(run[p].doc, run[p].id)]
         /\ Secret(run[p].doc, run[p].id) = run[p].secret
         /\ retired' = retired \cup ({valid[run[p].id]} \ {None})
         /\ \A q \in Runs : run'[q] = Idle \/ (q # p /\ run[q] # Idle /\ run'[q].stale
                 /\ run'[q].doc = run[q].doc /\ run'[q].id = run[q].id /\ run'[q].secret = run[q].secret)
         /\ ~lost' => ~lost /\ \A i \in Ids \ {run[p].id} : file'[i] = file[i]
         /\ UNCHANGED <<secrets, serverVars>>
<1>1. run \in [Runs -> RunType] /\ run[p] # Idle
  BY DEF TypeOK, RunType, Rename
<1>2. /\ run[p].id \in Ids /\ run[p].doc \in Document
      /\ run[p].doc[run[p].id] # None /\ run[p].secret = Secret(run[p].doc, run[p].id)
      /\ run[p].stale \/ \A i \in Ids \ {run[p].id} : run[p].doc[i] = file[i]
  BY <1>1 DEF RunsHonest
<1>3. /\ file' = run[p].doc /\ valid' = [valid EXCEPT ![run[p].id] = run[p].secret]
      /\ lost' = (lost \/ run[p].stale) /\ retired' = retired \cup ({valid[run[p].id]} \ {None})
      /\ UNCHANGED <<secrets, serverVars>>
  BY DEF Rename
<1>4. ASSUME NEW q \in Runs
      PROVE  run'[q] = Idle \/ (q # p /\ run[q] # Idle /\ run'[q].stale
                 /\ run'[q].doc = run[q].doc /\ run'[q].id = run[q].id /\ run'[q].secret = run[q].secret)
  <2>1. run'[q] = IF q = p \/ run[q] = Idle THEN Idle ELSE [run[q] EXCEPT !.stale = TRUE]
    BY DEF Rename
  <2>2. run[q] \in RunType
    BY <1>1
  <2> HIDE DEF Idle
  <2> QED BY <2>1, <2>2 DEF RunType
<1>5. ~lost' => ~lost /\ ~run[p].stale
  BY <1>3
<1> QED BY <1>1, <1>2, <1>3, <1>4, <1>5

LEMMA FileStep ==
  ASSUME IInv, [Next]_vars
  PROVE  ToldExactly' /\ RunsHonest'
<1> USE KeysAssumption DEF IInv
<1>1. ASSUME NEW p \in Runs, NEW i \in Ids, NEW rec \in Record, Begin(p, i, rec)
      PROVE  ToldExactly' /\ RunsHonest'
  <2>1. /\ run[p] = Idle /\ \A q \in Runs \ {p} : run'[q] = run[q]
        /\ run'[p].doc = [file EXCEPT ![i] = rec] /\ run'[p].doc \in Document
        /\ run'[p].id = i /\ ~run'[p].stale
        /\ run'[p].secret = IF rec.enabled THEN rec.hash ELSE None
        /\ run'[p].doc[i] = rec /\ rec # None
        /\ file' = file /\ valid' = valid /\ lost' = lost
    BY <1>1, NewRun
  <2>2. ToldExactly'
    BY <2>1 DEF ToldExactly, Secret, Enabled
  <2>3. run'[p].secret = Secret(run'[p].doc, i) /\ \A j \in Ids \ {i} : run'[p].doc[j] = file'[j]
    BY <2>1 DEF Secret, Enabled, TypeOK, Document
  <2>4. ASSUME NEW q \in Runs, run'[q] # Idle
        PROVE  /\ run'[q].id \in Ids /\ run'[q].doc \in Document
               /\ run'[q].doc[run'[q].id] # None /\ run'[q].secret = Secret(run'[q].doc, run'[q].id)
               /\ run'[q].stale \/ \A j \in Ids \ {run'[q].id} : run'[q].doc[j] = file'[j]
    <3>1. CASE q = p
      BY <2>1, <2>3, <3>1
    <3>2. CASE q # p
      BY <2>1, <2>4, <3>2 DEF RunsHonest
    <3> QED BY <3>1, <3>2
  <2> HIDE DEF Idle
  <2>5. RunsHonest'
    BY <2>4 DEF RunsHonest, Secret, Enabled
  <2> QED BY <2>2, <2>5
<1>2. CASE \E p \in Runs : (Write(p) \/ Abandon(p))
  <2>1. UNCHANGED <<file, valid, lost>> /\ \A q \in Runs : run'[q] = run[q] \/ run'[q] = Idle
    BY <1>2 DEF Write, Abandon, TypeOK
  <2>2. ToldExactly'
    BY <2>1 DEF ToldExactly, Secret, Enabled
  <2> QED BY <2>1, <2>2 DEF RunsHonest
<1>3. ASSUME NEW p \in Runs, Rename(p)
      PROVE  ToldExactly' /\ RunsHonest'
  <2> DEFINE id == run[p].id
  <2>1. /\ id \in Ids /\ file' = run[p].doc /\ valid' = [valid EXCEPT ![id] = Secret(run[p].doc, id)]
        /\ ~lost' => ~lost /\ \A i \in Ids \ {id} : file'[i] = file[i]
        /\ \A q \in Runs : run'[q] = Idle \/ (run[q] # Idle /\ run'[q].stale
                 /\ run'[q].doc = run[q].doc /\ run'[q].id = run[q].id /\ run'[q].secret = run[q].secret)
    BY <1>3, Renamed
  <2>2. ASSUME ~lost', NEW i \in Ids
        PROVE  valid'[i] = Secret(file', i)
    <3> HIDE DEF id
    <3>1. CASE i = id
      BY <2>1, <3>1 DEF TypeOK
    <3>2. CASE i # id
      BY <2>1, <2>2, <3>2 DEF TypeOK, ToldExactly, Secret, Enabled
    <3> QED BY <3>1, <3>2
  <2>3. ToldExactly'
    BY <2>2 DEF ToldExactly, Secret, Enabled
  <2>4. RunsHonest'
    BY <2>1 DEF RunsHonest
  <2> QED BY <2>3, <2>4
<1>4. CASE UNCHANGED fileVars
  BY <1>4 DEF fileVars, ToldExactly, RunsHonest, Secret, Enabled
<1> QED BY <1>1, <1>2, <1>3, <1>4, FileSteps

LEMMA ApartStep ==
  ASSUME IInv, [Next]_vars
  PROVE  Apart'
<1> USE KeysAssumption DEF IInv
<1>0. secrets \in Nat /\ \A p \in Runs : run[p] \in RunType
  BY DEF TypeOK, RunType
<1>1. ASSUME NEW p \in Runs, NEW i \in Ids, NEW rec \in Record, Begin(p, i, rec),
             \/ secrets' = secrets + 1 /\ rec.hash = secrets + 1 /\ rec.enabled
             \/ secrets' = secrets /\ ~rec.enabled
      PROVE  Apart'
  <2>1. /\ \A q \in Runs \ {p} : run'[q] = run[q]
        /\ run'[p].secret = IF rec.enabled THEN rec.hash ELSE None
        /\ valid' = valid /\ retired' = retired
    BY <1>1, NewRun
  <2>2. \/ run'[p].secret = None /\ secrets' = secrets
        \/ run'[p].secret = secrets + 1 /\ secrets' = secrets + 1
    BY <1>1, <2>1
  <2> QED BY <1>0, <2>1, <2>2 DEF Apart
<1>2. CASE \E p \in Runs : (Write(p) \/ Abandon(p))
  <2>1. UNCHANGED <<valid, retired, secrets>> /\ \A q \in Runs : run'[q] = run[q] \/ run'[q] = Idle
    BY <1>2 DEF Write, Abandon, TypeOK
  <2> QED BY <2>1 DEF Apart, Idle
<1>3. ASSUME NEW p \in Runs, Rename(p)
      PROVE  Apart'
  <2> DEFINE id == run[p].id
  <2>1. /\ id \in Ids /\ valid' = [valid EXCEPT ![id] = run[p].secret]
        /\ retired' = retired \cup ({valid[id]} \ {None}) /\ secrets' = secrets
        /\ \A q \in Runs : run'[q].secret = None \/ (q # p /\ run'[q].secret = run[q].secret)
    BY <1>3, Renamed DEF Idle
  <2>2. \A i \in Ids : valid'[i] = IF i = id THEN run[p].secret ELSE valid[i]
    BY <2>1 DEF TypeOK
  <2> HIDE DEF id
  <2>3. (retired \subseteq 1..secrets)'
    BY <2>1 DEF Apart
  <2>4. ASSUME NEW i \in Ids, valid'[i] # None
        PROVE  /\ valid'[i] \in 1..secrets' /\ valid'[i] \notin retired'
               /\ \A j \in Ids \ {i} : valid'[j] # valid'[i]
    BY <2>1, <2>2, <2>4 DEF Apart
  <2>5. ASSUME NEW q \in Runs, run'[q].secret # None
        PROVE  /\ run'[q].secret \in 1..secrets' /\ run'[q].secret \notin retired'
               /\ \A i \in Ids : valid'[i] # run'[q].secret
               /\ \A o \in Runs \ {q} : run'[o].secret # run'[q].secret
    BY <2>1, <2>2, <2>5 DEF Apart
  <2> QED BY <2>3, <2>4, <2>5 DEF Apart
<1>4. CASE UNCHANGED fileVars
  BY <1>4 DEF fileVars, Apart
<1> QED BY <1>1, <1>2, <1>3, <1>4, FileSteps

-----------------------------------------------------------------------------
(* The server.                                                               *)

LEMMA ReloadsStep ==
  ASSUME IInv, [Next]_vars
  PROVE  ReloadsGrow'
<1> USE KeysAssumption DEF IInv
<1>0. reloads \in Seq(ReloadType) /\ Len(reloads) \in Nat
      /\ \A k \in 1..Len(reloads) : reloads[k] \in ReloadType
  <2>1. reloads \in Seq(ReloadType)
    BY DEF TypeOK, ReloadType
  <2> QED BY <2>1
<1>1. CASE UNCHANGED <<file, reloads, records, retired, dead, lost>>
  BY <1>1 DEF ReloadsGrow, Grown, Admitless, Enabled
<1>2. ASSUME NEW p \in Runs, Rename(p)
      PROVE  ReloadsGrow'
  <2>1. /\ retired \subseteq retired' /\ UNCHANGED <<reloads, records, dead>>
        /\ ~lost' => ~lost
        /\ ~lost' => \A i \in Ids : file[i] # None => file'[i] # None
    BY <1>2, Renamed DEF serverVars
  <2> QED BY <2>1 DEF ReloadsGrow, Grown, Admitless, Enabled
<1>3. CASE ReadKeyFile
  <2> DEFINE new == [doc |-> file, gone |-> retired, stale |-> FALSE]
             n == Len(reloads) + 1
  <2>1. /\ Len(reloads') = n /\ reloads'[n] = new
        /\ \A k \in 1..Len(reloads) : reloads'[k] = reloads[k]
        /\ UNCHANGED <<file, records, retired, dead, lost>>
    BY <1>0, <1>3 DEF ReadKeyFile, fileVars
  <2>2. ~lost => Admitless(file, retired)
    <3>1. ASSUME ~lost, NEW i \in Ids, Enabled(file, i)
          PROVE  file[i].hash \notin retired
      <4>1. valid[i] = file[i].hash /\ file[i] \in Record
        BY <3>1 DEF ToldExactly, Secret, Enabled, TypeOK, Document
      <4>2. valid[i] # None
        BY <4>1 DEF Record, Secrets
      <4> QED BY <4>1, <4>2 DEF Apart
    <3> QED BY <3>1 DEF Admitless
  <2>3. /\ reloads'[n].doc = file /\ reloads'[n].gone = retired /\ ~reloads'[n].stale
    BY <2>1
  <2>4. (dead \subseteq retired /\ (~lost => Grown(records, file)))'
    BY <2>1 DEF ReloadsGrow, Grown
  <2>5. ASSUME NEW k \in 1..n
        PROVE  /\ reloads'[k].gone \subseteq retired'
               /\ reloads'[k].stale \/ dead' \subseteq reloads'[k].gone
               /\ \A m \in 1..n : m <= k => reloads'[m].gone \subseteq reloads'[k].gone
               /\ ~lost' => /\ Admitless(reloads'[k].doc, reloads'[k].gone)
                            /\ Grown(reloads'[k].doc, file')
                            /\ reloads'[k].stale \/ Grown(records', reloads'[k].doc)
                            /\ \A m \in 1..n : m <= k => Grown(reloads'[m].doc, reloads'[k].doc)
    <3> HIDE DEF new
    <3>1. CASE k = n
      <4>1. /\ reloads'[k].gone \subseteq retired' /\ dead' \subseteq reloads'[k].gone
            /\ \A m \in 1..n : m <= k => reloads'[m].gone \subseteq reloads'[k].gone
        BY <1>0, <2>1, <2>3, <3>1 DEF ReloadsGrow
      <4>2. ASSUME ~lost' PROVE  /\ Admitless(reloads'[k].doc, reloads'[k].gone)
                            /\ Grown(reloads'[k].doc, file') /\ Grown(records', reloads'[k].doc)
        BY <2>1, <2>2, <2>3, <3>1, <4>2 DEF ReloadsGrow, Grown
      <4>3. ASSUME ~lost', NEW m \in 1..n
            PROVE  Grown(reloads'[m].doc, reloads'[k].doc)
        <5>1. CASE m = n
          BY <3>1, <5>1 DEF Grown
        <5>2. CASE m # n
          <6>1. m \in 1..Len(reloads) /\ reloads'[m] = reloads[m] /\ ~lost
            BY <1>0, <2>1, <4>3, <5>2
          <6> QED BY <6>1, <2>3, <3>1 DEF ReloadsGrow
        <5> QED BY <5>1, <5>2
      <4> QED BY <4>1, <4>2, <4>3
    <3>2. CASE k # n
      <4>1. k \in 1..Len(reloads) /\ reloads'[k] = reloads[k]
            /\ \A m \in 1..n : m <= k => m \in 1..Len(reloads) /\ reloads'[m] = reloads[m]
        BY <1>0, <2>1, <3>2
      <4> HIDE DEF n
      <4> QED BY <2>1, <4>1 DEF ReloadsGrow
    <3> QED BY <3>1, <3>2
  <2> HIDE DEF n
  <2> QED BY <2>1, <2>4, <2>5 DEF ReloadsGrow, Grown, Admitless, Enabled
<1>4. ASSUME NEW k \in 1..Len(reloads), Install(k)
      PROVE  ReloadsGrow'
  <2>1. /\ records' = reloads[k].doc /\ dead' = dead \cup reloads[k].gone
        /\ UNCHANGED <<file, retired, lost>>
    BY <1>4 DEF Install, fileVars
  <2>2. Len(reloads') = Len(reloads) - 1
        /\ \A m \in 1..Len(reloads') :
              /\ Place(k, m) \in 1..Len(reloads) \ {k}
              /\ reloads'[m].doc = reloads[Place(k, m)].doc
              /\ reloads'[m].gone = reloads[Place(k, m)].gone
              /\ reloads'[m].stale <=> (Place(k, m) < k \/ reloads[Place(k, m)].stale)
    BY <1>4, Left
  <2>3. \A m, o \in 1..Len(reloads') : m <= o => Place(k, m) <= Place(k, o)
    BY <1>0, <2>2 DEF Place
  <2>4. (dead \subseteq retired /\ (~lost => Grown(records, file)))'
    BY <2>1 DEF ReloadsGrow, Grown
  <2>5. ASSUME NEW o \in 1..Len(reloads')
        PROVE  /\ reloads'[o].gone \subseteq retired'
               /\ reloads'[o].stale \/ dead' \subseteq reloads'[o].gone
               /\ \A m \in 1..Len(reloads') : m <= o => reloads'[m].gone \subseteq reloads'[o].gone
               /\ ~lost' => /\ Admitless(reloads'[o].doc, reloads'[o].gone)
                            /\ Grown(reloads'[o].doc, file')
                            /\ reloads'[o].stale \/ Grown(records', reloads'[o].doc)
                            /\ \A m \in 1..Len(reloads') : m <= o => Grown(reloads'[m].doc, reloads'[o].doc)
    <3>1. Place(k, o) < k \/ k <= Place(k, o)
      BY <1>0, <2>2
    <3> QED BY <2>1, <2>2, <2>3, <2>5, <3>1 DEF ReloadsGrow
  <2> QED BY <2>4, <2>5 DEF ReloadsGrow, Grown, Admitless, Enabled
<1>5. \/ UNCHANGED <<file, reloads, records, retired, dead, lost>>
      \/ \E p \in Runs : Rename(p)
      \/ ReadKeyFile
      \/ \E k \in 1..Len(reloads) : Install(k)
  BY StepCases DEF Begin, Write, Abandon, Authorize, Minute, vars, fileVars, serverVars
<1> QED BY <1>1, <1>2, <1>3, <1>4, <1>5

LEMMA ServeStep ==
  ASSUME IInv, [Next]_vars
  PROVE  QuotaCounts' /\ (~lost /\ ~swapped => Admitless(records, dead))'
<1> USE KeysAssumption DEF IInv
<1>0. /\ quotas \in [Ids -> (1..Rpm) \cup {None}] /\ served \in [Ids -> 0..(Rpm + 1)]
      /\ lost \in BOOLEAN /\ swapped \in BOOLEAN
  BY DEF TypeOK
<1>1. CASE UNCHANGED <<records, quotas, dead, served, swapped>> /\ (~lost' => ~lost)
  BY <1>1 DEF QuotaCounts, Admitless, Used, Enabled
<1>2. ASSUME NEW k \in 1..Len(reloads), Install(k)
      PROVE  QuotaCounts' /\ (~lost /\ ~swapped => Admitless(records, dead))'
  <2>1. /\ records' = reloads[k].doc /\ dead' = dead \cup reloads[k].gone
        /\ quotas' = KeptQuotas(reloads[k].doc) /\ UNCHANGED <<served, lost>>
        /\ swapped' = (swapped \/ reloads[k].stale)
    BY <1>2 DEF Install, fileVars
  <2> SUFFICES ASSUME ~lost', ~swapped'
               PROVE  /\ \A i \in Ids : served'[i] <= Used(i)' /\ (records'[i] = None => served'[i] = 0)
                      /\ Admitless(records', dead')
    BY DEF QuotaCounts, Admitless, Enabled
  <2>2. ~lost /\ ~swapped /\ ~reloads[k].stale
    BY <2>1
  <2>3. Grown(records, reloads[k].doc) /\ dead \subseteq reloads[k].gone
        /\ Admitless(reloads[k].doc, reloads[k].gone)
    BY <2>2 DEF ReloadsGrow
  <2>4. Admitless(records', dead')
    <3>1. dead' = reloads[k].gone
      BY <2>1, <2>3
    <3> QED BY <2>1, <2>3, <3>1
  <2>5. ASSUME NEW i \in Ids
        PROVE  served'[i] <= Used(i)' /\ (records'[i] = None => served'[i] = 0)
    <3>1. served[i] <= Used(i) /\ (records[i] = None => served[i] = 0)
      BY <2>2 DEF QuotaCounts
    <3>2. quotas'[i] = IF reloads[k].doc[i] = None THEN None ELSE quotas[i]
      BY <2>1 DEF KeptQuotas
    <3>3. CASE reloads[k].doc[i] = None
      BY <1>0, <2>1, <2>3, <3>1, <3>2, <3>3 DEF Grown, Used
    <3>4. CASE reloads[k].doc[i] # None
      BY <1>0, <2>1, <3>1, <3>2, <3>4 DEF Used
    <3> QED BY <3>3, <3>4
  <2> QED BY <2>4, <2>5
<1>3. ASSUME NEW s \in 1..secrets, Authorize(s)
      PROVE  QuotaCounts' /\ (~lost /\ ~swapped => Admitless(records, dead))'
  <2> PICK i \in Ids :
           /\ Admits(s, i) /\ Used(i) < Rpm
           /\ quotas' = [quotas EXCEPT ![i] = Used(i) + 1]
           /\ served' = [served EXCEPT ![i] = IF served[i] > Rpm THEN served[i] ELSE served[i] + 1]
           /\ UNCHANGED <<records, reloads, dead, swapped, fileVars>>
    BY <1>3 DEF Authorize
  <2>1. UNCHANGED <<records, dead, swapped, lost>> /\ records[i] # None
    BY DEF fileVars, Admits
  <2>2. ASSUME ~lost, ~swapped, NEW j \in Ids
        PROVE  served'[j] <= Used(j)' /\ (records'[j] = None => served'[j] = 0)
    <3>1. served[j] <= Used(j) /\ (records[j] = None => served[j] = 0) /\ served[i] <= Used(i)
      BY <2>2 DEF QuotaCounts
    <3>2. Used(i) \in Nat /\ Used(i) + 1 # None
      BY <1>0 DEF Used
    <3>3. CASE j = i
      <4>1. Used(j)' = Used(i) + 1 /\ served'[j] = served[i] + 1
        BY <1>0, <3>1, <3>2, <3>3 DEF Used
      <4> QED BY <1>0, <2>1, <3>1, <3>2, <3>3, <4>1
    <3>4. CASE j # i
      BY <1>0, <2>1, <3>1, <3>4 DEF Used
    <3> QED BY <3>3, <3>4
  <2> QED BY <2>1, <2>2 DEF QuotaCounts, Admitless, Enabled
<1>4. CASE Minute
  BY <1>4 DEF Minute, Empty, QuotaCounts, Used, Admitless, Enabled, fileVars
<1>5. \/ UNCHANGED <<records, quotas, dead, served, swapped>> /\ (~lost' => ~lost)
      \/ \E k \in 1..Len(reloads) : Install(k)
      \/ \E s \in 1..secrets : Authorize(s)
      \/ Minute
  BY StepCases, Renamed DEF Begin, Write, Abandon, ReadKeyFile, vars, fileVars, serverVars
<1> QED BY <1>1, <1>2, <1>3, <1>4, <1>5

LEMMA Invariance == Spec => []IInv
<1>1. IInv /\ [Next]_vars => IInv'
  BY TypeStep, FileStep, ApartStep, ReloadsStep, ServeStep DEF IInv
<1> QED BY InvInit, <1>1, PTL DEF Spec

-----------------------------------------------------------------------------

\* What an operator was told is in the file (api-key.mjs: save), for any number of
\* keys and of manager runs at a time, whatever fails half way.
THEOREM FileCorrect == Spec => []FileSound
<1>1. IInv => FileSound
  <2>1. ASSUME IInv, ~lost, NEW i \in Ids, valid[i] # None
        PROVE  file[i] = [hash |-> valid[i], enabled |-> TRUE]
    <3>1. file[i] # None /\ file[i].enabled /\ file[i].hash = valid[i]
      BY <2>1 DEF IInv, ToldExactly, Secret, Enabled
    <3>2. file[i] \in Record
      BY <2>1, <3>1 DEF IInv, TypeOK, Document
    <3> QED BY <3>1, <3>2 DEF Record
  <2> QED BY <2>1 DEF IInv, FileSound, ToldIsStored
<1> QED BY <1>1, Invariance, PTL

\* Rotating and revoking take effect for good (api-access.js: reload, _recordFor),
\* for any number of overlapping reloads.
THEOREM RetiredCorrect == Spec => []RetiredRefused
<1>1. IInv => RetiredRefused
  BY DEF IInv, RetiredRefused, Admitless, Admits, Enabled
<1> QED BY <1>1, Invariance, PTL

\* The quota of a minute holds across rotations and reloads (api-access.js: _consume),
\* for any quota.
THEOREM QuotaCorrect == Spec => []QuotaHeld
<1>1. ASSUME IInv PROVE QuotaHeld
  <2>1. ASSUME NEW i \in Ids PROVE Used(i) <= Rpm /\ served[i] \in Nat /\ Used(i) \in Nat
    <3>1. quotas[i] \in (1..Rpm) \cup {None} /\ served[i] \in 0..(Rpm + 1)
      BY <1>1 DEF IInv, TypeOK
    <3> QED BY <3>1, KeysAssumption DEF Used
  <2>2. ASSUME ~lost, ~swapped, NEW i \in Ids PROVE served[i] <= Rpm
    <3>1. served[i] <= Used(i)
      BY <1>1, <2>2 DEF IInv, QuotaCounts
    <3> QED BY <2>1, <3>1, KeysAssumption
  <2> QED BY <2>2 DEF QuotaHeld
<1> QED BY <1>1, Invariance, PTL

-----------------------------------------------------------------------------
(* Sums as numbers of units.                                                 *)

Counts(f) == \A x \in DOMAIN f : f[x] \in Nat

LEMMA UnitsOf ==
  ASSUME NEW f
  PROVE  /\ \A x, n : <<x, n>> \in Units(f) <=> x \in DOMAIN f /\ n \in 1..f[x]
         /\ \A u \in Units(f) : \E x \in DOMAIN f : \E n \in 1..f[x] : u = <<x, n>>
BY DEF Units

\* A function that takes the same values has the same units.
LEMMA SumSame ==
  ASSUME NEW f, NEW g, DOMAIN g = DOMAIN f, \A x \in DOMAIN f : g[x] = f[x]
  PROVE  Units(g) = Units(f) /\ SumOf(g) = SumOf(f)
<1>1. Units(g) = Units(f)
  BY DEF Units
<1> QED BY <1>1 DEF SumOf

LEMMA SumZero ==
  ASSUME NEW f, \A x \in DOMAIN f : f[x] = 0
  PROVE  IsFiniteSet(Units(f)) /\ SumOf(f) = 0
<1>1. Units(f) = {}
  BY UnitsOf
<1>2. IsFiniteSet({}) /\ Cardinality({}) = 0
  BY FS_EmptySet
<1> QED BY <1>1, <1>2 DEF SumOf

\* One more at x is one more in all.
Raised(f, g, x) ==
  /\ DOMAIN g = DOMAIN f \cup {x}
  /\ \A y \in DOMAIN f \ {x} : g[y] = f[y]
  /\ g[x] = IF x \in DOMAIN f THEN f[x] + 1 ELSE 1

LEMMA SumRaised ==
  ASSUME NEW f, NEW g, NEW x, Counts(f), Raised(f, g, x), IsFiniteSet(Units(f))
  PROVE  /\ IsFiniteSet(Units(g)) /\ Counts(g)
         /\ SumOf(g) = SumOf(f) + 1 /\ SumOf(f) \in Nat
<1>1. <<x, g[x]>> \notin Units(f)
  BY UnitsOf DEF Raised, Counts
<1>2. Counts(g)
  BY DEF Raised, Counts
<1>3. ASSUME NEW y, NEW n
      PROVE  <<y, n>> \in Units(g) <=> <<y, n>> \in Units(f) \/ <<y, n>> = <<x, g[x]>>
  <2>1. CASE y = x
    <3>1. n \in 1..g[x] <=> n = g[x] \/ (x \in DOMAIN f /\ n \in 1..f[x])
      BY DEF Raised, Counts
    <3>2. x \in DOMAIN g
      BY DEF Raised
    <3> QED BY <2>1, <3>1, <3>2, UnitsOf
  <2>2. CASE y # x
    BY <2>2, UnitsOf DEF Raised
  <2> QED BY <2>1, <2>2
<1>4. Units(g) = Units(f) \cup {<<x, g[x]>>}
  <2>1. \A u \in Units(g) : u \in Units(f) \cup {<<x, g[x]>>}
    BY <1>3, UnitsOf
  <2>2. \A u \in Units(f) : u \in Units(g)
    BY <1>3, UnitsOf
  <2>3. <<x, g[x]>> \in Units(g)
    BY <1>3
  <2> QED BY <2>1, <2>2, <2>3
<1>5. IsFiniteSet(Units(g)) /\ Cardinality(Units(g)) = Cardinality(Units(f)) + 1
  BY <1>1, <1>4, FS_AddElement
<1>6. Cardinality(Units(f)) \in Nat
  BY FS_CardinalityType
<1> QED BY <1>2, <1>5, <1>6 DEF SumOf

-----------------------------------------------------------------------------
(* The rate gate.                                                            *)

Entry == [window : 0..LastWindow, count : Nat \ {0}]
IsWindows(w) == DOMAIN w \subseteq Keys /\ \A key \in DOMAIN w : w[key] \in Entry

\* What a window t counts under a key.
CountIn(w, t, key) == IF key \in DOMAIN w /\ w[key].window = t THEN w[key].count ELSE 0
Passed(w, t, k) == [c \in Clients |-> Least(CountIn(w, t, <<c, k>>), ClientLimit[k])]
Given(g, k) == [c \in Clients |-> g[c][k]]

\* Of one kind: everyone's count is what the client limits let pass, and what was
\* granted is what everyone's limit let pass of that.
Fair(w, t, g, k) ==
  /\ IsFiniteSet(Units(Passed(w, t, k))) /\ IsFiniteSet(Units(Given(g, k)))
  /\ CountIn(w, t, <<Everyone, k>>) = SumOf(Passed(w, t, k))
  /\ SumOf(Given(g, k)) = Least(CountIn(w, t, <<Everyone, k>>), GlobalLimit[k])
  /\ \A c \in Clients : g[c][k] <= Passed(w, t, k)[c]

\* No key is of a window yet to come, or of one a cleanup has dropped.
Recent(w, t, s) ==
  s <= t /\ \A key \in DOMAIN w : s - 1 <= w[key].window /\ w[key].window <= t

GateInv ==
  /\ GateTypeOK
  /\ ~stepped => Recent(windows, now, swept) /\ \A k \in Kinds : Fair(windows, now, granted, k)

LEMMA CountInType ==
  ASSUME NEW w, IsWindows(w), NEW t, NEW key
  PROVE  CountIn(w, t, key) \in Nat
BY DEF CountIn, IsWindows, Entry

LEMMA CountOfIn == \A w, key : CountOf(w, key) = CountIn(w, now, key)
BY DEF CountOf, CountIn

LEMMA Bumped ==
  ASSUME NEW w, IsWindows(w), NEW key \in Keys, now \in 0..LastWindow
  PROVE  /\ IsWindows(Bump(w, key)) /\ DOMAIN Bump(w, key) = DOMAIN w \cup {key}
         /\ Bump(w, key)[key].window = now
         /\ \A x \in DOMAIN w \ {key} : Bump(w, key)[x] = w[x]
         /\ CountIn(Bump(w, key), now, key) = CountIn(w, now, key) + 1
         /\ \A x : x # key => CountIn(Bump(w, key), now, x) = CountIn(w, now, x)
<1> DEFINE b == Bump(w, key)
           e == [window |-> now, count |-> CountIn(w, now, key) + 1]
<1>1. b = [x \in DOMAIN w \cup {key} |-> IF x = key THEN e ELSE w[x]]
  BY CountOfIn DEF Bump
<1>2. e \in Entry /\ e.window = now /\ e.count = CountIn(w, now, key) + 1
  BY CountInType DEF Entry
<1> HIDE DEF b, e
<1>3. DOMAIN b = DOMAIN w \cup {key} /\ b[key] = e /\ \A x \in DOMAIN w \ {key} : b[x] = w[x]
  BY <1>1
<1>4. IsWindows(b)
  BY <1>2, <1>3 DEF IsWindows
<1>5. CountIn(b, now, key) = CountIn(w, now, key) + 1
  BY <1>2, <1>3 DEF CountIn
<1>6. \A x : x # key => CountIn(b, now, x) = CountIn(w, now, x)
  BY <1>3 DEF CountIn
<1> QED BY <1>2, <1>3, <1>4, <1>5, <1>6 DEF b

\* allow counts the client, and everyone only when the client is within its limit.
LEMMA CountedFacts ==
  ASSUME GateTypeOK, NEW c \in Clients, NEW k \in Kinds
  PROVE  LET w == Counted(c, k)
             n == CountIn(windows, now, <<c, k>>) + 1
         IN /\ IsWindows(w) /\ DOMAIN windows \subseteq DOMAIN w
            /\ \A key \in DOMAIN w : w[key].window = now
                                     \/ (key \in DOMAIN windows /\ w[key] = windows[key])
            /\ CountIn(w, now, <<c, k>>) = n
            /\ CountIn(w, now, <<Everyone, k>>)
                 = CountIn(windows, now, <<Everyone, k>>) + (IF n <= ClientLimit[k] THEN 1 ELSE 0)
            /\ \A key : key # <<c, k>> /\ key # <<Everyone, k>>
                          => CountIn(w, now, key) = CountIn(windows, now, key)
<1> DEFINE w == Counted(c, k)
           own == Bump(windows, <<c, k>>)
           n == CountIn(windows, now, <<c, k>>) + 1
<1>1. IsWindows(windows) /\ now \in 0..LastWindow
  BY DEF GateTypeOK, IsWindows, Entry
<1>2. <<c, k>> \in Keys /\ <<Everyone, k>> \in Keys /\ <<c, k>> # <<Everyone, k>>
  BY GateAssumption DEF Keys
<1>3. /\ IsWindows(own) /\ DOMAIN own = DOMAIN windows \cup {<<c, k>>}
      /\ own[<<c, k>>].window = now
      /\ \A x \in DOMAIN windows \ {<<c, k>>} : own[x] = windows[x]
      /\ CountIn(own, now, <<c, k>>) = n
      /\ \A x : x # <<c, k>> => CountIn(own, now, x) = CountIn(windows, now, x)
  BY <1>1, <1>2, Bumped
<1>4. w = IF n <= ClientLimit[k] THEN Bump(own, <<Everyone, k>>) ELSE own
  BY <1>3, CountOfIn DEF Counted
<1>5. CountIn(windows, now, <<Everyone, k>>) \in Nat
  BY <1>1, CountInType
<1> HIDE DEF w, own, n
<1>6. CASE n <= ClientLimit[k]
  <2> DEFINE e == <<Everyone, k>>
  <2>e. e \in Keys
    BY <1>2
  <2>b. /\ IsWindows(Bump(own, e)) /\ DOMAIN Bump(own, e) = DOMAIN own \cup {e}
        /\ Bump(own, e)[e].window = now
        /\ \A x \in DOMAIN own \ {e} : Bump(own, e)[x] = own[x]
        /\ CountIn(Bump(own, e), now, e) = CountIn(own, now, e) + 1
        /\ \A x : x # e => CountIn(Bump(own, e), now, x) = CountIn(own, now, x)
    <3> HIDE DEF e
    <3> QED BY <1>1, <1>3, <2>e, Bumped
  <2>w. w = Bump(own, e)
    BY <1>4, <1>6
  <2>1. /\ IsWindows(w) /\ DOMAIN w = DOMAIN own \cup {<<Everyone, k>>}
        /\ w[<<Everyone, k>>].window = now
        /\ \A x \in DOMAIN own \ {<<Everyone, k>>} : w[x] = own[x]
        /\ CountIn(w, now, <<Everyone, k>>) = CountIn(own, now, <<Everyone, k>>) + 1
        /\ \A x : x # <<Everyone, k>> => CountIn(w, now, x) = CountIn(own, now, x)
    BY <2>b, <2>w
  <2>2. \A key \in DOMAIN w : w[key].window = now
                              \/ (key \in DOMAIN windows /\ w[key] = windows[key])
    BY <1>3, <2>1
  <2>3. CountIn(w, now, <<c, k>>) = n
    BY <1>2, <1>3, <2>1
  <2>4. CountIn(w, now, <<Everyone, k>>) = CountIn(windows, now, <<Everyone, k>>) + 1
    BY <1>2, <1>3, <2>1
  <2> QED BY <1>3, <1>6, <2>1, <2>2, <2>3, <2>4 DEF w, n
<1>7. CASE ~(n <= ClientLimit[k])
  <2>1. w = own
    BY <1>4, <1>7
  <2>2. \A key \in DOMAIN w : w[key].window = now
                              \/ (key \in DOMAIN windows /\ w[key] = windows[key])
    BY <1>3, <2>1
  <2>3. CountIn(w, now, <<Everyone, k>>) = CountIn(windows, now, <<Everyone, k>>) + 0
    BY <1>2, <1>3, <1>5, <2>1
  <2> QED BY <1>3, <1>7, <2>1, <2>2, <2>3 DEF w, n
<1> QED BY <1>6, <1>7

\* A cleanup keeps what the current window counts.
LEMMA Swept ==
  ASSUME NEW w, IsWindows(w), now \in 0..LastWindow, operations \in Nat
  PROVE  /\ IsWindows(Sweep(w))
         /\ \A key \in DOMAIN Sweep(w) : key \in DOMAIN w /\ Sweep(w)[key] = w[key]
         /\ \A key : CountIn(Sweep(w), now, key) = CountIn(w, now, key)
         /\ (operations + 1) % CleanupEvery = 0 =>
              \A key \in DOMAIN Sweep(w) : w[key].window >= now - 1
<1> DEFINE s == Sweep(w)
           D == {x \in DOMAIN w : w[x].window >= now - 1}
<1>1. CASE (operations + 1) % CleanupEvery = 0
  <2>1. s = [key \in D |-> w[key]]
    BY <1>1 DEF Sweep
  <2>2. \A key \in DOMAIN w : w[key].window = now => key \in D
    OBVIOUS
  <2>3. \A key : CountIn(s, now, key) = CountIn(w, now, key)
    <3> TAKE key
    <3>1. CASE key \in DOMAIN w /\ w[key].window = now
      BY <3>1, <2>1, <2>2 DEF CountIn
    <3>2. CASE ~(key \in DOMAIN w /\ w[key].window = now)
      BY <3>2, <2>1 DEF CountIn
    <3> QED BY <3>1, <3>2
  <2>4. IsWindows(s)
    BY <2>1 DEF IsWindows
  <2> QED BY <2>1, <2>3, <2>4
<1>2. CASE (operations + 1) % CleanupEvery # 0
  BY <1>2 DEF Sweep
<1> QED BY <1>1, <1>2

LEMMA AllowedType ==
  ASSUME GateTypeOK, NEW c \in Clients, NEW k \in Kinds, NEW verdict, Allow(c, k, verdict)
  PROVE  GateTypeOK'
<1>1. IsWindows(Counted(c, k)) /\ now \in 0..LastWindow /\ operations \in Nat
  BY CountedFacts DEF GateTypeOK
<1>2. IsWindows(windows')
  BY <1>1, Swept DEF Allow
<1>3. operations' \in Nat /\ now' \in 0..LastWindow /\ swept' \in -1..LastWindow /\ stepped' \in BOOLEAN
  BY GateAssumption DEF Allow, GateTypeOK
<1>4. granted' \in [Clients -> [Kinds -> Nat]]
  BY DEF Allow, GateTypeOK
<1> QED BY <1>2, <1>3, <1>4 DEF GateTypeOK, IsWindows, Entry

\* A kind whose counts stay is as fair as before.
LEMMA FairSame ==
  ASSUME NEW w, NEW t, NEW g, NEW v, NEW u, NEW h, NEW k, Fair(w, t, g, k),
         \A x \in Clients \cup {Everyone} : CountIn(v, u, <<x, k>>) = CountIn(w, t, <<x, k>>),
         \A x \in Clients : h[x][k] = g[x][k]
  PROVE  Fair(v, u, h, k)
<1> DEFINE P == Passed(w, t, k)
           Q == Passed(v, u, k)
           G == Given(g, k)
           H == Given(h, k)
<1>1. DOMAIN P = Clients /\ DOMAIN Q = Clients /\ \A x \in Clients : Q[x] = P[x]
  BY DEF Passed
<1>2. DOMAIN G = Clients /\ DOMAIN H = Clients /\ \A x \in Clients : H[x] = G[x]
  BY DEF Given
<1>3. CountIn(v, u, <<Everyone, k>>) = CountIn(w, t, <<Everyone, k>>)
  OBVIOUS
<1> HIDE DEF P, Q, G, H
<1>4. Units(Q) = Units(P) /\ SumOf(Q) = SumOf(P)
  BY <1>1, SumSame
<1>5. Units(H) = Units(G) /\ SumOf(H) = SumOf(G)
  BY <1>2, SumSame
<1>6. \A x \in Clients : h[x][k] <= Q[x]
  BY <1>1 DEF Fair, P
<1> QED BY <1>3, <1>4, <1>5, <1>6 DEF Fair, P, Q, G, H

\* allow, at the kind it was asked for.
LEMMA FairAllowed ==
  ASSUME GateTypeOK, NEW c \in Clients, NEW k \in Kinds, Fair(windows, now, granted, k),
         NEW w, NEW g, NEW n, n = CountIn(windows, now, <<c, k>>) + 1,
         NEW e, e = CountIn(windows, now, <<Everyone, k>>),
         CountIn(w, now, <<c, k>>) = n,
         CountIn(w, now, <<Everyone, k>>) = e + (IF n <= ClientLimit[k] THEN 1 ELSE 0),
         \A x \in Clients \ {c} : CountIn(w, now, <<x, k>>) = CountIn(windows, now, <<x, k>>),
         \A x \in Clients \ {c} : g[x][k] = granted[x][k],
         g[c][k] = granted[c][k]
                   + (IF n <= ClientLimit[k] /\ e + 1 <= GlobalLimit[k] THEN 1 ELSE 0)
  PROVE  Fair(w, now, g, k)
<1> DEFINE P == Passed(windows, now, k)
           Q == Passed(w, now, k)
           G == Given(granted, k)
           H == Given(g, k)
           L == ClientLimit[k]
           M == GlobalLimit[k]
<1>0. L \in Nat \ {0} /\ M \in Nat \ {0}
  BY GateAssumption
<1>1. \A x \in Clients : CountIn(windows, now, <<x, k>>) \in Nat /\ granted[x][k] \in Nat
  BY CountInType DEF GateTypeOK, IsWindows, Entry
<1>2. n \in Nat \ {0} /\ e \in Nat
  BY <1>1, CountInType DEF GateTypeOK, IsWindows, Entry
<1>3. DOMAIN P = Clients /\ DOMAIN Q = Clients /\ DOMAIN G = Clients /\ DOMAIN H = Clients
  BY DEF Passed, Given
<1>4. \A x \in Clients \ {c} : Q[x] = P[x] /\ H[x] = G[x]
  BY DEF Passed, Given
<1>5. P[c] = Least(n - 1, L) /\ Q[c] = Least(n, L)
  BY <1>1, <1>2 DEF Passed
<1>6. G[c] = granted[c][k] /\ H[c] = g[c][k]
  BY DEF Given
<1>7. Counts(P) /\ Counts(G)
  BY <1>0, <1>1 DEF Counts, Passed, Given, Least
<1>8. /\ IsFiniteSet(Units(P)) /\ IsFiniteSet(Units(G))
      /\ e = SumOf(P) /\ SumOf(G) = Least(e, M)
      /\ \A x \in Clients : G[x] <= P[x]
  BY DEF Fair, Given
<1>9. CountIn(w, now, <<Everyone, k>>) = IF n <= L THEN e + 1 ELSE e
  BY <1>2
<1>10. H[c] = IF n <= L /\ e + 1 <= M THEN G[c] + 1 ELSE G[c]
  BY <1>1, <1>6
<1> SUFFICES /\ IsFiniteSet(Units(Q)) /\ IsFiniteSet(Units(H))
             /\ CountIn(w, now, <<Everyone, k>>) = SumOf(Q)
             /\ SumOf(H) = Least(CountIn(w, now, <<Everyone, k>>), M)
             /\ \A x \in Clients : H[x] <= Q[x]
  BY DEF Fair, Given
<1> HIDE DEF P, Q, G, H, L, M
<1>11. ASSUME n <= L
       PROVE  IsFiniteSet(Units(Q)) /\ SumOf(Q) = e + 1 /\ Q[c] = P[c] + 1
  <2>1. Q[c] = P[c] + 1
    BY <1>0, <1>2, <1>5, <1>11 DEF Least
  <2>2. Raised(P, Q, c)
    BY <1>3, <1>4, <2>1 DEF Raised
  <2> QED BY <1>7, <1>8, <2>1, <2>2, SumRaised
<1>12. ASSUME ~(n <= L)
       PROVE  IsFiniteSet(Units(Q)) /\ SumOf(Q) = e /\ Q[c] = P[c]
  <2>1. Q[c] = P[c]
    BY <1>0, <1>2, <1>5, <1>12 DEF Least
  <2>2. \A x \in DOMAIN P : Q[x] = P[x]
    BY <1>3, <1>4, <2>1
  <2>3. Units(Q) = Units(P) /\ SumOf(Q) = SumOf(P)
    BY <1>3, <2>2, SumSame
  <2> QED BY <1>8, <2>1, <2>3
<1>13. ASSUME n <= L, e + 1 <= M
       PROVE  IsFiniteSet(Units(H)) /\ SumOf(H) = SumOf(G) + 1 /\ H[c] = G[c] + 1
  <2>1. Raised(G, H, c)
    BY <1>3, <1>4, <1>10, <1>13 DEF Raised
  <2> QED BY <1>7, <1>8, <1>10, <1>13, <2>1, SumRaised
<1>14. ASSUME ~(n <= L /\ e + 1 <= M)
       PROVE  IsFiniteSet(Units(H)) /\ SumOf(H) = SumOf(G) /\ H[c] = G[c]
  <2>1. \A x \in DOMAIN G : H[x] = G[x]
    BY <1>3, <1>4, <1>10, <1>14
  <2>2. Units(H) = Units(G) /\ SumOf(H) = SumOf(G)
    BY <1>3, <2>1, SumSame
  <2> QED BY <1>8, <1>10, <1>14, <2>2
<1>15. IsFiniteSet(Units(Q)) /\ IsFiniteSet(Units(H))
  BY <1>11, <1>12, <1>13, <1>14
<1>16. CountIn(w, now, <<Everyone, k>>) = SumOf(Q)
  BY <1>9, <1>11, <1>12
<1>17. SumOf(H) = Least(CountIn(w, now, <<Everyone, k>>), M)
  <2>i. e \in Int /\ M \in Int
    BY <1>0, <1>2
  <2>1. CASE n <= L /\ e + 1 <= M
    <3>1. SumOf(H) = Least(e, M) + 1
      BY <2>1, <1>8, <1>13
    <3> QED BY <2>1, <2>i, <3>1, <1>9 DEF Least
  <2>3. CASE n <= L /\ ~(e + 1 <= M)
    <3>1. SumOf(H) = Least(e, M)
      BY <2>3, <1>8, <1>14
    <3> QED BY <2>3, <2>i, <3>1, <1>9 DEF Least
  <2>2. CASE ~(n <= L)
    BY <2>2, <1>8, <1>9, <1>14
  <2> QED BY <2>1, <2>2, <2>3
<1>18. ASSUME NEW x \in Clients PROVE H[x] <= Q[x]
  <2>1. CASE x # c
    BY <2>1, <1>4, <1>8
  <2>2. CASE x = c
    <3>1. G[c] <= P[c] /\ G[c] \in Nat /\ P[c] \in Nat
      BY <1>3, <1>7, <1>8 DEF Counts
    <3> QED BY <2>2, <3>1, <1>11, <1>12, <1>13, <1>14
  <2> QED BY <2>1, <2>2
<1> QED BY <1>15, <1>16, <1>17, <1>18

LEMMA GateAllowed ==
  ASSUME GateInv, NEW c \in Clients, NEW k \in Kinds, NEW verdict, Allow(c, k, verdict)
  PROVE  GateInv'
<1>0. GateTypeOK /\ GateTypeOK'
  BY AllowedType DEF GateInv
<1> DEFINE w == Counted(c, k)
           n == CountIn(windows, now, <<c, k>>) + 1
           e == CountIn(windows, now, <<Everyone, k>>)
<1>1. now \in 0..LastWindow /\ operations \in Nat /\ swept \in -1..LastWindow
  BY <1>0 DEF GateTypeOK
<1>2. /\ IsWindows(w) /\ DOMAIN windows \subseteq DOMAIN w
      /\ \A key \in DOMAIN w : w[key].window = now
                               \/ (key \in DOMAIN windows /\ w[key] = windows[key])
      /\ CountIn(w, now, <<c, k>>) = n
      /\ CountIn(w, now, <<Everyone, k>>) = e + (IF n <= ClientLimit[k] THEN 1 ELSE 0)
      /\ \A key : key # <<c, k>> /\ key # <<Everyone, k>>
                    => CountIn(w, now, key) = CountIn(windows, now, key)
  BY <1>0, CountedFacts
<1>3. /\ windows' = Sweep(w) /\ operations' = operations + 1
      /\ swept' = (IF (operations + 1) % CleanupEvery = 0 THEN now ELSE swept)
      /\ now' = now /\ stepped' = stepped
      /\ verdict = Verdict(w, c, k)
      /\ granted' = [granted EXCEPT ![c][k] = granted[c][k] + IF verdict = "allowed" THEN 1 ELSE 0]
  BY DEF Allow
<1>n. n \in Nat /\ e \in Nat
  <2>1. IsWindows(windows)
    BY <1>0 DEF GateTypeOK, IsWindows, Entry
  <2>2. CountIn(windows, now, <<c, k>>) \in Nat /\ CountIn(windows, now, <<Everyone, k>>) \in Nat
    BY <2>1, CountInType
  <2> QED BY <2>2
<1>4. verdict = "allowed" <=> n <= ClientLimit[k] /\ e + 1 <= GlobalLimit[k]
  <2>1. CountOf(w, <<c, k>>) = n
    BY <1>2, CountOfIn
  <2>2. CountOf(w, <<Everyone, k>>) = e + (IF n <= ClientLimit[k] THEN 1 ELSE 0)
    BY <1>2, CountOfIn
  <2>3. ClientLimit[k] \in Nat /\ GlobalLimit[k] \in Nat
    BY GateAssumption
  <2> HIDE DEF w, n, e
  <2> QED BY <1>3, <1>n, <2>1, <2>2, <2>3 DEF Verdict
<1> HIDE DEF w, n, e
<1>5. /\ \A key \in DOMAIN windows' : key \in DOMAIN w /\ windows'[key] = w[key]
      /\ \A key : CountIn(windows', now, key) = CountIn(w, now, key)
      /\ (operations + 1) % CleanupEvery = 0 =>
           \A key \in DOMAIN windows' : w[key].window >= now - 1
  BY <1>1, <1>2, <1>3, Swept
<1>6. CASE stepped
  BY <1>0, <1>3, <1>6 DEF GateInv
<1>7. CASE ~stepped
  <2>1. Recent(windows, now, swept) /\ \A j \in Kinds : Fair(windows, now, granted, j)
    BY <1>7 DEF GateInv
  <2>2. \A key \in DOMAIN w : w[key].window \in Int
    BY <1>2 DEF IsWindows, Entry
  <2>3. \A key \in DOMAIN w : swept - 1 <= w[key].window /\ w[key].window <= now
    <3> TAKE key \in DOMAIN w
    <3>1. CASE w[key].window = now
      BY <3>1, <2>1, <1>1, GateAssumption DEF Recent
    <3>2. CASE key \in DOMAIN windows /\ w[key] = windows[key]
      BY <3>2, <2>1 DEF Recent
    <3> QED BY <1>2, <3>1, <3>2
  <2>4. Recent(windows', now, swept')
    <3>1. CASE (operations + 1) % CleanupEvery = 0
      <4>1. swept' = now /\ now <= now
        BY <3>1, <1>1, <1>3, GateAssumption
      <4> QED BY <3>1, <4>1, <1>5, <2>2, <2>3, <1>1, GateAssumption DEF Recent
    <3>2. CASE (operations + 1) % CleanupEvery # 0
      BY <3>2, <1>3, <1>5, <2>1, <2>3 DEF Recent
    <3> QED BY <3>1, <3>2
  <2>5. ASSUME NEW j \in Kinds PROVE Fair(windows', now, granted', j)
    <3>g. \A x \in Clients : granted[x] \in [Kinds -> Nat]
      BY <1>0 DEF GateTypeOK
    <3>1. CASE j = k
      <4>1. \A x \in Clients \ {c} : granted'[x][k] = granted[x][k]
        BY <1>0, <1>3 DEF GateTypeOK
      <4>2. granted'[c][k] = granted[c][k] + (IF verdict = "allowed" THEN 1 ELSE 0)
        BY <1>0, <1>3 DEF GateTypeOK
      <4>3. granted'[c][k] = granted[c][k] + (IF n <= ClientLimit[k] /\ e + 1 <= GlobalLimit[k] THEN 1 ELSE 0)
        BY <4>2, <1>4
      <4>4. \A x \in Clients \ {c} : CountIn(windows', now, <<x, k>>) = CountIn(windows, now, <<x, k>>)
        BY <1>2, <1>5, GateAssumption
      <4>5. CountIn(windows', now, <<c, k>>) = n
        BY <1>2, <1>5
      <4>6. CountIn(windows', now, <<Everyone, k>>) = e + (IF n <= ClientLimit[k] THEN 1 ELSE 0)
        BY <1>2, <1>5
      <4>7. n = CountIn(windows, now, <<c, k>>) + 1 /\ e = CountIn(windows, now, <<Everyone, k>>)
        BY DEF n, e
      <4> QED BY <1>0, <2>1, <3>1, <4>1, <4>3, <4>4, <4>5, <4>6, <4>7, FairAllowed
    <3>2. CASE j # k
      <4>1. \A x \in Clients : granted'[x][j] = granted[x][j]
        BY <1>0, <1>3, <3>2 DEF GateTypeOK
      <4>2. \A x \in Clients \cup {Everyone} :
               CountIn(windows', now, <<x, j>>) = CountIn(windows, now, <<x, j>>)
        BY <1>2, <1>5, <3>2
      <4> QED BY <2>1, <4>1, <4>2, FairSame
    <3> QED BY <3>1, <3>2
  <2>6. Recent(windows', now', swept') /\ \A j \in Kinds : Fair(windows', now', granted', j)
    BY <1>3, <2>4, <2>5
  <2> QED BY <1>0, <2>6 DEF GateInv
<1> QED BY <1>6, <1>7

\* No count is of a window that only begins.
LEMMA GateClock ==
  ASSUME GateInv, NEW w \in 0..LastWindow, ClockMoves(w)
  PROVE  GateInv'
<1>1. /\ windows' = windows /\ now' = w /\ swept' = swept /\ operations' = operations
      /\ stepped' = (stepped \/ w < now) /\ w # now /\ ~stepped
      /\ granted' = [c \in Clients |-> [k \in Kinds |-> 0]]
  BY DEF ClockMoves
<1>2. GateTypeOK /\ now \in 0..LastWindow /\ swept \in -1..LastWindow
  BY DEF GateInv, GateTypeOK
<1>3. GateTypeOK'
  BY <1>1, <1>2 DEF GateTypeOK
<1>4. CASE stepped'
  BY <1>3, <1>4 DEF GateInv
<1>5. CASE ~stepped'
  <2>1. w > now
    <3>1. ~(w < now)
      BY <1>1, <1>5
    <3>2. w \in Int /\ now \in Int
      BY <1>2, GateAssumption
    <3> QED BY <1>1, <3>1, <3>2
  <2>2. Recent(windows, now, swept)
    BY <1>1 DEF GateInv
  <2>3. \A key \in DOMAIN windows : windows[key].window \in Int
    BY <1>2 DEF GateTypeOK
  <2>4. Recent(windows, w, swept) /\ \A key \in DOMAIN windows : windows[key].window < w
    BY <1>2, <2>1, <2>2, <2>3, GateAssumption DEF Recent
  <2>5. \A key : CountIn(windows, w, key) = 0
    BY <2>3, <2>4, GateAssumption DEF CountIn
  <2>6. ASSUME NEW k \in Kinds PROVE Fair(windows, w, granted', k)
    <3>0. ClientLimit[k] \in Nat /\ GlobalLimit[k] \in Nat
      BY GateAssumption
    <3>1. \A c \in Clients : Passed(windows, w, k)[c] = 0 /\ granted'[c][k] = 0
      BY <1>1, <2>5, <3>0 DEF Passed, Least
    <3>2. IsFiniteSet(Units(Passed(windows, w, k))) /\ SumOf(Passed(windows, w, k)) = 0
      BY <3>1, SumZero DEF Passed
    <3>3. IsFiniteSet(Units(Given(granted', k))) /\ SumOf(Given(granted', k)) = 0
      BY <3>1, SumZero DEF Given
    <3> QED BY <2>5, <3>0, <3>1, <3>2, <3>3 DEF Fair, Least
  <2> QED BY <1>1, <1>3, <2>4, <2>6 DEF GateInv
<1> QED BY <1>4, <1>5

LEMMA GateFirst ==
  ASSUME GateInit
  PROVE  GateInv
<1>1. DOMAIN windows = {} /\ now = 0 /\ swept = -1
  BY DEF GateInit
<1>2. GateTypeOK
  <2>1. DOMAIN windows \subseteq Keys /\ \A key \in DOMAIN windows : windows[key] \in Entry
    BY <1>1
  <2>2. operations \in Nat /\ stepped \in BOOLEAN
    BY DEF GateInit
  <2>4. now \in 0..LastWindow /\ swept \in -1..LastWindow
    BY <1>1, GateAssumption
  <2>3. granted \in [Clients -> [Kinds -> Nat]]
    BY DEF GateInit
  <2> QED BY <2>1, <2>2, <2>3, <2>4 DEF GateTypeOK, Entry
<1>3. Recent(windows, now, swept)
  BY <1>1 DEF Recent
<1>4. ASSUME NEW k \in Kinds PROVE Fair(windows, now, granted, k)
  <2>0. ClientLimit[k] \in Nat /\ GlobalLimit[k] \in Nat
    BY GateAssumption
  <2>1. \A key : CountIn(windows, now, key) = 0
    BY <1>1 DEF CountIn
  <2>2. \A c \in Clients : Passed(windows, now, k)[c] = 0 /\ granted[c][k] = 0
    BY <2>0, <2>1 DEF Passed, Least, GateInit
  <2>3. IsFiniteSet(Units(Passed(windows, now, k))) /\ SumOf(Passed(windows, now, k)) = 0
    BY <2>2, SumZero DEF Passed
  <2>4. IsFiniteSet(Units(Given(granted, k))) /\ SumOf(Given(granted, k)) = 0
    BY <2>2, SumZero DEF Given
  <2> QED BY <2>0, <2>1, <2>2, <2>3, <2>4 DEF Fair, Least
<1> QED BY <1>2, <1>3, <1>4 DEF GateInv

LEMMA GateProps == GateInv => GateTypeOK /\ GateSound /\ RefusalsAreFree
<1> SUFFICES ASSUME GateInv PROVE GateTypeOK /\ GateSound /\ RefusalsAreFree
  OBVIOUS
<1>1. GateTypeOK
  BY DEF GateInv
<1>2. ASSUME ~stepped, NEW k \in Kinds
      PROVE  /\ CountOf(windows, <<Everyone, k>>)
                  = SumOf([c \in Clients |-> Least(CountOf(windows, <<c, k>>), ClientLimit[k])])
             /\ Granted(k) = Least(CountOf(windows, <<Everyone, k>>), GlobalLimit[k])
             /\ \A c \in Clients : granted[c][k] <= ClientLimit[k]
  <2>1. Fair(windows, now, granted, k)
    BY <1>2 DEF GateInv
  <2>2. [c \in Clients |-> Least(CountOf(windows, <<c, k>>), ClientLimit[k])] = Passed(windows, now, k)
    BY CountOfIn DEF Passed
  <2>3. Granted(k) = SumOf(Given(granted, k))
    BY DEF Granted, Given
  <2>4. ASSUME NEW c \in Clients PROVE granted[c][k] <= ClientLimit[k]
    <3>1. granted[c][k] <= Least(CountIn(windows, now, <<c, k>>), ClientLimit[k])
      BY <2>1 DEF Fair, Passed
    <3>2. CountIn(windows, now, <<c, k>>) \in Nat /\ granted[c][k] \in Nat /\ ClientLimit[k] \in Nat
      BY <1>1, CountInType, GateAssumption DEF GateTypeOK, IsWindows, Entry
    <3> QED BY <3>1, <3>2 DEF Least
  <2> QED BY <2>1, <2>2, <2>3, <2>4, CountOfIn DEF Fair
<1>3. NothingStale
  <2> SUFFICES ASSUME ~stepped, NEW key \in DOMAIN windows
               PROVE  windows[key].window >= swept - 1
    BY DEF NothingStale
  <2>1. swept - 1 <= windows[key].window
    BY DEF GateInv, Recent
  <2>2. windows[key].window \in Int /\ swept \in Int
    BY <1>1, GateAssumption DEF GateTypeOK
  <2> QED BY <2>1, <2>2
<1> QED BY <1>1, <1>2, <1>3 DEF GateSound, GateHolds, RefusalsAreFree

-----------------------------------------------------------------------------
(* The counters.                                                             *)

\* A map of counters with room for max series, against what was counted: a series
\* has its whole count, or none because the map was full before it came.
Tallies(map, max, S, f) ==
  /\ DOMAIN map \subseteq S \cup {Overflow} /\ IsFiniteSet(DOMAIN map)
  /\ \A s \in DOMAIN map : map[s] \in Nat
  /\ Cardinality(DOMAIN map \ {Overflow}) <= max
  /\ \A s \in S : s \in DOMAIN map => map[s] = f[s]
  /\ \A s \in S : s \notin DOMAIN map /\ f[s] # 0 => Cardinality(DOMAIN map) >= max

LEMMA Tallied ==
  ASSUME NEW map, NEW max \in Nat, NEW S, Overflow \notin S, NEW f, NEW g,
         \A s \in S : f[s] \in Nat, Tallies(map, max, S, f), NEW x \in S,
         \A s \in S : g[s] = IF s = x THEN f[s] + 1 ELSE f[s],
         IsFiniteSet(Units(map))
  PROVE  LET m == Increment(map, x, max)
         IN /\ Tallies(m, max, S, g)
            /\ IsFiniteSet(Units(m)) /\ SumOf(m) = SumOf(map) + 1
<1> DEFINE D == DOMAIN map
           b == IF x \in D \/ Cardinality(D) < max THEN x ELSE Overflow
           m == Increment(map, x, max)
           E == DOMAIN m
<1>1. m = Plus(map, b)
  BY DEF Increment
<1>2. Raised(map, m, b)
  BY <1>1 DEF Plus, Raised
<1>3. E = D \cup {b} /\ \A s \in D \ {b} : m[s] = map[s]
  BY <1>2 DEF Raised
<1>4. /\ D \subseteq S \cup {Overflow} /\ IsFiniteSet(D) /\ Counts(map)
      /\ Cardinality(D \ {Overflow}) <= max
  BY DEF Tallies, Counts
<1>5. Cardinality(D) \in Nat /\ IsFiniteSet(E)
      /\ Cardinality(E) \in Nat /\ Cardinality(D) <= Cardinality(E)
  <2> HIDE DEF D, E, b
  <2>1. IsFiniteSet(E)
    BY <1>3, <1>4, FS_AddElement
  <2>2. D \subseteq E
    BY <1>3
  <2> QED BY <1>4, <2>1, <2>2, FS_Subset, FS_CardinalityType
<1>6. IsFiniteSet(Units(m)) /\ Counts(m) /\ SumOf(m) = SumOf(map) + 1
  BY <1>2, <1>4, SumRaised
<1>7. Cardinality(E \ {Overflow}) <= max
  <2>1. CASE x \notin D /\ Cardinality(D) < max
    <3>1. b = x
      BY <2>1
    <3> HIDE DEF D, E, b, m
    <3>2. E \ {Overflow} = (D \ {Overflow}) \cup {x} /\ x \notin D \ {Overflow}
      BY <1>3, <2>1, <3>1
    <3>3. IsFiniteSet(D \ {Overflow}) /\ Cardinality(D \ {Overflow}) <= Cardinality(D)
      BY <1>4, FS_Subset
    <3>4. Cardinality(E \ {Overflow}) = Cardinality(D \ {Overflow}) + 1
      BY <3>2, <3>3, FS_AddElement
    <3>5. Cardinality(D \ {Overflow}) \in Nat
      BY <3>3, FS_CardinalityType
    <3> QED BY <2>1, <3>3, <3>4, <3>5, <1>5
  <2>2. CASE ~(x \notin D /\ Cardinality(D) < max)
    <3>1. b \in D \/ b = Overflow
      BY <2>2
    <3>2. E \ {Overflow} = D \ {Overflow}
      BY <1>3, <3>1
    <3> QED BY <1>4, <3>2
  <2> QED BY <2>1, <2>2
<1>8. ASSUME NEW s \in S, s \in E PROVE m[s] = g[s]
  <2>1. CASE s = b
    <3>1. b = x /\ s # Overflow
      BY <2>1
    <3>2. CASE x \in D
      BY <2>1, <3>1, <3>2, <1>2 DEF Raised, Tallies
    <3>3. CASE x \notin D
      <4>1. Cardinality(D) < max
        BY <3>1, <3>3
      <4>2. f[x] = 0
        BY <3>3, <4>1, <1>5 DEF Tallies
      <4> QED BY <2>1, <3>1, <3>3, <4>2, <1>2 DEF Raised
    <3> QED BY <3>2, <3>3
  <2>2. CASE s # b
    <3>1. s \in D /\ m[s] = map[s]
      BY <2>2, <1>3, <1>8
    <3>2. s # x
      BY <2>2, <3>1
    <3> QED BY <3>1, <3>2 DEF Tallies
  <2> QED BY <2>1, <2>2
<1>9. ASSUME NEW s \in S, s \notin E, g[s] # 0 PROVE Cardinality(E) >= max
  <2>1. s \notin D /\ s # b
    BY <1>3, <1>9
  <2>2. Cardinality(D) >= max
    <3>1. CASE s = x
      BY <2>1, <3>1, <1>5
    <3>2. CASE s # x
      BY <2>1, <3>2, <1>9 DEF Tallies
    <3> QED BY <3>1, <3>2
  <2> HIDE DEF D, E
  <2> QED BY <2>2, <1>5
<1>10. E \subseteq S \cup {Overflow}
  BY <1>3, <1>4
<1> HIDE DEF m, E
<1> QED BY <1>5, <1>6, <1>7, <1>8, <1>9, <1>10 DEF Tallies, Counts, m, E
\* What finished of one route, and of each.
OfRoute(f, r) == [t \in Statuses |-> f[<<r, t>>]]
ByRoute(f) == [r \in Routes |-> SumOf(OfRoute(f, r))]

MetricsInv ==
  /\ finished \in [Routes \X Statuses -> Nat]
  /\ Tallies(requests, MaxSeries, Routes \X Statuses, finished)
  /\ Tallies(requestSeconds, MaxTimings, Routes, ByRoute(finished))
  /\ IsFiniteSet(Units(requests)) /\ IsFiniteSet(Units(requestSeconds)) /\ IsFiniteSet(Units(finished))
  /\ \A r \in Routes : IsFiniteSet(Units(OfRoute(finished, r)))
  /\ SumOf(requests) = SumOf(finished) /\ SumOf(requestSeconds) = SumOf(finished)

LEMMA SumType ==
  ASSUME NEW f, IsFiniteSet(Units(f))
  PROVE  SumOf(f) \in Nat
BY FS_CardinalityType DEF SumOf

\* One more response of a route and status.
OneMore(f, g, x) ==
  /\ f \in [Routes \X Statuses -> Nat] /\ g \in [Routes \X Statuses -> Nat]
  /\ \A s \in Routes \X Statuses : g[s] = IF s = x THEN f[s] + 1 ELSE f[s]

LEMMA Finished ==
  ASSUME NEW f, IsFiniteSet(Units(f)), \A r \in Routes : IsFiniteSet(Units(OfRoute(f, r))),
         NEW route \in Routes, NEW status \in Statuses,
         NEW g, OneMore(f, g, <<route, status>>)
  PROVE  /\ IsFiniteSet(Units(g)) /\ SumOf(g) = SumOf(f) + 1
         /\ \A r \in Routes : /\ IsFiniteSet(Units(OfRoute(g, r)))
                              /\ SumOf(OfRoute(g, r)) = IF r = route THEN SumOf(OfRoute(f, r)) + 1
                                                        ELSE SumOf(OfRoute(f, r))
<1> DEFINE x == <<route, status>>
<1>1. /\ x \in Routes \X Statuses
      /\ f \in [Routes \X Statuses -> Nat] /\ g \in [Routes \X Statuses -> Nat]
      /\ \A s \in Routes \X Statuses : g[s] = IF s = x THEN f[s] + 1 ELSE f[s]
  BY DEF OneMore
<1>2. Raised(f, g, x)
  BY <1>1 DEF Raised
<1>3. Counts(f)
  BY <1>1 DEF Counts
<1>4. IsFiniteSet(Units(g)) /\ SumOf(g) = SumOf(f) + 1
  BY <1>2, <1>3, SumRaised
<1>5. ASSUME NEW r \in Routes
      PROVE  /\ IsFiniteSet(Units(OfRoute(g, r)))
             /\ SumOf(OfRoute(g, r)) = IF r = route THEN SumOf(OfRoute(f, r)) + 1
                                       ELSE SumOf(OfRoute(f, r))
  <2> DEFINE p == OfRoute(f, r)
             q == OfRoute(g, r)
  <2>1. DOMAIN p = Statuses /\ DOMAIN q = Statuses /\ IsFiniteSet(Units(p))
    BY DEF OfRoute
  <2>2. Counts(p)
    BY <1>1 DEF Counts, OfRoute
  <2>3. \A t \in Statuses : q[t] = IF r = route /\ t = status THEN p[t] + 1 ELSE p[t]
    <3> TAKE t \in Statuses
    <3>1. q[t] = g[<<r, t>>] /\ p[t] = f[<<r, t>>] /\ <<r, t>> \in Routes \X Statuses
      BY DEF OfRoute
    <3>2. <<r, t>> = x <=> r = route /\ t = status
      OBVIOUS
    <3> QED BY <1>1, <3>1, <3>2
  <2> HIDE DEF p, q
  <2>4. CASE r = route
    <3>1. Raised(p, q, status)
      BY <2>1, <2>3, <2>4 DEF Raised
    <3>2. IsFiniteSet(Units(q)) /\ SumOf(q) = SumOf(p) + 1
      BY <2>1, <2>2, <3>1, SumRaised
    <3> QED BY <2>4, <3>2 DEF p, q
  <2>5. CASE r # route
    <3>1. Units(q) = Units(p) /\ SumOf(q) = SumOf(p)
      <4>1. \A t \in Statuses : q[t] = p[t]
        BY <2>3, <2>5
      <4> QED BY <2>1, <4>1, SumSame
    <3> QED BY <2>1, <2>5, <3>1 DEF p, q
  <2> QED BY <2>4, <2>5
<1> QED BY <1>1, <1>4, <1>5

LEMMA Observed ==
  ASSUME MetricsInv, NEW route \in Routes, NEW status \in Statuses, ObserveRequest(route, status)
  PROVE  MetricsInv'
<1> DEFINE x == <<route, status>>
           f == finished
           g == [f EXCEPT ![x] = f[x] + 1]
<1>1. /\ f \in [Routes \X Statuses -> Nat] /\ IsFiniteSet(Units(f))
      /\ \A r \in Routes : IsFiniteSet(Units(OfRoute(f, r)))
      /\ IsFiniteSet(Units(requests)) /\ IsFiniteSet(Units(requestSeconds))
      /\ SumOf(requests) = SumOf(f) /\ SumOf(requestSeconds) = SumOf(f)
  BY DEF MetricsInv
<1>2. /\ requests' = Increment(requests, x, MaxSeries)
      /\ requestSeconds' = Increment(requestSeconds, route, MaxTimings)
      /\ finished' = g
  BY DEF ObserveRequest
<1>g. OneMore(f, g, x)
  <2>1. g = [f EXCEPT ![x] = f[x] + 1] /\ f \in [Routes \X Statuses -> Nat]
    BY <1>1
  <2>2. x \in Routes \X Statuses
    OBVIOUS
  <2> HIDE DEF f, g, x
  <2> QED BY <2>1, <2>2 DEF OneMore
<1>3. /\ IsFiniteSet(Units(g)) /\ SumOf(g) = SumOf(f) + 1
      /\ \A r \in Routes : /\ IsFiniteSet(Units(OfRoute(g, r)))
                           /\ SumOf(OfRoute(g, r)) = IF r = route THEN SumOf(OfRoute(f, r)) + 1
                                                     ELSE SumOf(OfRoute(f, r))
  <2> HIDE DEF f, g
  <2> QED BY <1>1, <1>g, Finished
<1>4. Overflow \notin Routes \X Statuses /\ Overflow \notin Routes
      /\ MaxSeries \in Nat /\ MaxTimings \in Nat
  BY MetricsAssumption
<1>5. /\ Tallies(Increment(requests, x, MaxSeries), MaxSeries, Routes \X Statuses, g)
      /\ IsFiniteSet(Units(Increment(requests, x, MaxSeries)))
      /\ SumOf(Increment(requests, x, MaxSeries)) = SumOf(requests) + 1
  <2> DEFINE S == Routes \X Statuses
  <2>1. x \in S /\ Overflow \notin S /\ \A s \in S : f[s] \in Nat
    BY <1>1, <1>4
  <2>2. \A s \in S : g[s] = IF s = x THEN f[s] + 1 ELSE f[s]
    BY <1>g DEF OneMore
  <2>3. Tallies(requests, MaxSeries, S, f)
    BY DEF MetricsInv
  <2> HIDE DEF x, f, g, S
  <2>4. /\ Tallies(Increment(requests, x, MaxSeries), MaxSeries, S, g)
        /\ IsFiniteSet(Units(Increment(requests, x, MaxSeries)))
        /\ SumOf(Increment(requests, x, MaxSeries)) = SumOf(requests) + 1
    BY <1>1, <1>4, <2>1, <2>2, <2>3, Tallied
  <2> QED BY <2>4 DEF S
<1>6. /\ Tallies(Increment(requestSeconds, route, MaxTimings), MaxTimings, Routes, ByRoute(g))
      /\ IsFiniteSet(Units(Increment(requestSeconds, route, MaxTimings)))
      /\ SumOf(Increment(requestSeconds, route, MaxTimings)) = SumOf(requestSeconds) + 1
  <2> DEFINE F == ByRoute(f)
             G == ByRoute(g)
  <2>1. \A s \in Routes : F[s] \in Nat
    BY <1>1, SumType DEF ByRoute
  <2>2. \A s \in Routes : G[s] = IF s = route THEN F[s] + 1 ELSE F[s]
    BY <1>3 DEF ByRoute
  <2>3. Tallies(requestSeconds, MaxTimings, Routes, F)
    BY DEF MetricsInv
  <2> HIDE DEF F, G, x
  <2>4. /\ Tallies(Increment(requestSeconds, route, MaxTimings), MaxTimings, Routes, G)
        /\ IsFiniteSet(Units(Increment(requestSeconds, route, MaxTimings)))
        /\ SumOf(Increment(requestSeconds, route, MaxTimings)) = SumOf(requestSeconds) + 1
    BY <1>1, <1>4, <2>1, <2>2, <2>3, Tallied
  <2> QED BY <2>4 DEF G
<1>7. g \in [Routes \X Statuses -> Nat]
  BY <1>g DEF OneMore
<1> HIDE DEF x, f, g
<1> QED BY <1>1, <1>2, <1>3, <1>5, <1>6, <1>7 DEF MetricsInv

LEMMA MetricsFirst ==
  ASSUME MetricsInit
  PROVE  MetricsInv
<1>1. /\ DOMAIN requests = {} /\ DOMAIN requestSeconds = {}
      /\ finished = [s \in Routes \X Statuses |-> 0]
  BY DEF MetricsInit
<1>2. IsFiniteSet({}) /\ Cardinality({}) = 0 /\ MaxSeries \in Nat /\ MaxTimings \in Nat
  BY FS_EmptySet, MetricsAssumption
<1>3. /\ IsFiniteSet(Units(requests)) /\ SumOf(requests) = 0
      /\ IsFiniteSet(Units(requestSeconds)) /\ SumOf(requestSeconds) = 0
  BY <1>1, SumZero
<1>4. IsFiniteSet(Units(finished)) /\ SumOf(finished) = 0
  <2>1. \A s \in DOMAIN finished : finished[s] = 0
    BY <1>1
  <2> QED BY <2>1, SumZero
<1>5. \A r \in Routes : IsFiniteSet(Units(OfRoute(finished, r))) /\ SumOf(OfRoute(finished, r)) = 0
  <2> TAKE r \in Routes
  <2>1. \A t \in DOMAIN OfRoute(finished, r) : OfRoute(finished, r)[t] = 0
    BY <1>1 DEF OfRoute
  <2> QED BY <2>1, SumZero
<1>6. {} \ {Overflow} = {}
  OBVIOUS
<1>7. Tallies(requests, MaxSeries, Routes \X Statuses, finished)
  <2>1. \A s \in Routes \X Statuses : finished[s] = 0
    BY <1>1
  <2> QED BY <1>1, <1>2, <1>6, <2>1 DEF Tallies
<1>8. Tallies(requestSeconds, MaxTimings, Routes, ByRoute(finished))
  <2>1. \A r \in Routes : ByRoute(finished)[r] = 0
    BY <1>5 DEF ByRoute
  <2> QED BY <1>1, <1>2, <1>6, <2>1 DEF Tallies
<1> QED BY <1>1, <1>3, <1>4, <1>5, <1>7, <1>8 DEF MetricsInv

LEMMA Bounded ==
  ASSUME NEW map, NEW max \in Nat, NEW S, NEW f, Tallies(map, max, S, f)
  PROVE  Cardinality(DOMAIN map) <= max + 1
<1> DEFINE D == DOMAIN map
           E == D \ {Overflow}
<1>1. IsFiniteSet(D) /\ Cardinality(E) <= max
  BY DEF Tallies
<1> HIDE DEF D
<1>2. IsFiniteSet(E) /\ Cardinality(E) \in Nat
  BY <1>1, FS_Subset, FS_CardinalityType
<1>3. Cardinality(E \cup {Overflow}) = Cardinality(E) + 1 /\ IsFiniteSet(E \cup {Overflow})
  BY <1>2, FS_AddElement
<1>4. D \subseteq E \cup {Overflow}
  OBVIOUS
<1>5. Cardinality(D) <= Cardinality(E \cup {Overflow}) /\ Cardinality(D) \in Nat
  BY <1>1, <1>3, <1>4, FS_Subset, FS_CardinalityType
<1> HIDE DEF E
<1>6. Cardinality(D) <= max + 1
  BY <1>1, <1>2, <1>3, <1>5
<1> QED BY <1>6 DEF D

LEMMA MetricsProps == MetricsInv => CountersExact
<1> SUFFICES ASSUME MetricsInv PROVE CountersExact
  OBVIOUS
<1>1. Cardinality(DOMAIN requests) <= MaxSeries + 1
  BY Bounded, MetricsAssumption DEF MetricsInv
<1>2. Cardinality(DOMAIN requestSeconds) <= MaxTimings + 1
  BY Bounded, MetricsAssumption DEF MetricsInv
<1>3. \A s \in DOMAIN requests \ {Overflow} : requests[s] = finished[s]
  BY DEF MetricsInv, Tallies
<1>4. \A r \in DOMAIN requestSeconds \ {Overflow} :
        requestSeconds[r] = SumOf([t \in Statuses |-> finished[<<r, t>>]])
  BY DEF MetricsInv, Tallies, ByRoute, OfRoute
<1> QED BY <1>1, <1>2, <1>3, <1>4 DEF MetricsInv, CountersExact

-----------------------------------------------------------------------------
(* The process.                                                              *)

Requests == [route : Routes, at : {"free", "body", "work", "sent"}, status : Statuses]

\* What stands in the process's own variables.
ProcessTypeOK ==
  /\ phase \in {"listening", "closing", "exited"} /\ started \in {"running", "done", "failed"}
  /\ archive \in {"none", "open", "closed"} /\ handlers \subseteq Signals
  /\ code \in -1..2 /\ shutdowns \in Nat

\* A process that lives has no exit code, and one that closes was asked to.
ProcessInv ==
  /\ ProcessTypeOK /\ CleanExit
  /\ phase # "exited" => code = -1
  /\ phase = "closing" => shutdowns >= 1

GatewayInv ==
  /\ GateInv /\ MetricsInv /\ ProcessInv
  /\ req \in [Slots -> Requests] /\ arrived \in 0..MaxRequests

LEMMA Forms ==
  ASSUME NEW r \in Routes
  PROVE  /\ \A place \in {"free", "body", "work", "sent"} : At(r, place) \in Requests
         /\ \A status \in Statuses : Sent(r, status) \in Requests
         /\ Free \in Requests /\ Routed(r) \subseteq Requests
         /\ Sent(r, "refused") \in Requests /\ KindOf(r) \in Kinds
<1>1. /\ "page" \in Routes /\ "graphql" \in Routes /\ "ok" \in Statuses /\ "refused" \in Statuses
      /\ "http" \in Kinds /\ "graphql" \in Kinds
  BY GatewayAssumption
<1>2. /\ \A place \in {"free", "body", "work", "sent"} : At(r, place) \in Requests
      /\ \A status \in Statuses : Sent(r, status) \in Requests
      /\ Free \in Requests
  BY <1>1 DEF At, Sent, Free, Requests
<1>3. Routed(r) \subseteq Requests
  BY <1>1, <1>2 DEF Routed
<1> QED BY <1>1, <1>2, <1>3 DEF KindOf

\* A step of a request of a process that lives.
LEMMA Serving ==
  ASSUME ProcessInv, phase # "exited", UNCHANGED processVars
  PROVE  ProcessInv'
BY DEF ProcessInv, ProcessTypeOK, CleanExit, processVars

LEMMA GateKept ==
  ASSUME GateInv, UNCHANGED gateVars
  PROVE  GateInv'
BY DEF GateInv, GateTypeOK, gateVars

LEMMA MetricsKept ==
  ASSUME MetricsInv, UNCHANGED metricVars
  PROVE  MetricsInv'
BY DEF MetricsInv, metricVars

LEMMA ShutsDown ==
  ASSUME ProcessTypeOK, phase # "exited" => code = -1, phase = "closing" => shutdowns >= 1,
         phase # "exited", Shutdown, started' \in {"running", "done", "failed"},
         handlers' \subseteq Signals
  PROVE  ProcessInv'
<1>1. /\ shutdowns \in Nat /\ shutdowns' = shutdowns + 1
      /\ archive' \in {"none", "open", "closed"} /\ code = -1
      /\ phase \in {"listening", "closing"}
  BY DEF ProcessTypeOK, Shutdown
<1>2. CASE archive = "closed"
  <2>1. phase' = "exited" /\ code' = 1
    BY <1>2 DEF Shutdown, Exit
  <2> QED BY <1>1, <2>1 DEF ProcessInv, ProcessTypeOK, CleanExit
<1>3. CASE archive # "closed" /\ phase = "closing"
  <2>1. phase' = "exited" /\ code' = 0 /\ shutdowns' >= 2
    BY <1>1, <1>3 DEF Shutdown, Exit
  <2> QED BY <1>1, <2>1 DEF ProcessInv, ProcessTypeOK, CleanExit
<1>4. CASE archive # "closed" /\ phase # "closing"
  <2>1. phase' = "closing" /\ code' = -1
    BY <1>1, <1>4 DEF Shutdown, Exit
  <2> QED BY <1>1, <2>1 DEF ProcessInv, ProcessTypeOK, CleanExit
<1> QED BY <1>2, <1>3, <1>4

LEMMA GatewayFirst == GatewayInit => GatewayInv
<1> SUFFICES ASSUME GatewayInit PROVE GatewayInv
  OBVIOUS
<1>1. GateInv /\ MetricsInv
  BY GateFirst, MetricsFirst DEF GatewayInit
<1>2. ProcessInv
  BY DEF GatewayInit, ProcessInv, ProcessTypeOK, CleanExit
<1>3. Free \in Requests
  BY GatewayAssumption DEF Free, Requests
<1>4. req \in [Slots -> Requests] /\ arrived \in 0..MaxRequests
  BY <1>3, GatewayAssumption DEF GatewayInit
<1> QED BY <1>1, <1>2, <1>4 DEF GatewayInv

LEMMA GatewayNextInv == GatewayInv /\ [GatewayNext]_gatewayVars => GatewayInv'
<1> SUFFICES ASSUME GatewayInv, [GatewayNext]_gatewayVars PROVE GatewayInv'
  OBVIOUS
<1>0. /\ GateInv /\ MetricsInv /\ ProcessInv
      /\ req \in [Slots -> Requests] /\ arrived \in 0..MaxRequests
  BY DEF GatewayInv
<1>p. "page" \in Routes /\ "graphql" \in Routes /\ "ok" \in Statuses /\ "refused" \in Statuses
  BY GatewayAssumption
<1>1. ASSUME NEW s \in Slots, Lives, BodyEnds(s) \/ BodyTimeout(s) \/ Work(s) \/ Leaves(s)
      PROVE  GatewayInv'
  <2>1. UNCHANGED <<gateVars, metricVars, processVars, arrived>>
    BY <1>1 DEF BodyEnds, BodyTimeout, Work, Leaves, Advances
  <2>2. GateInv' /\ MetricsInv' /\ ProcessInv'
    BY <1>0, <1>1, <2>1, GateKept, MetricsKept, Serving DEF Lives
  <2>3. \E q \in Requests : req' = [req EXCEPT ![s] = q]
    <3>1. CASE BodyEnds(s)
      BY <1>p, <3>1, Forms DEF BodyEnds, Becomes
    <3>2. CASE BodyTimeout(s) \/ Leaves(s)
      BY <1>p, <3>2, Forms DEF BodyTimeout, Leaves, Becomes
    <3>3. CASE Work(s)
      <4>1. req[s].route \in Routes
        BY <1>0 DEF Requests
      <4> QED BY <4>1, <3>3, Forms DEF Work, Becomes
    <3> QED BY <1>1, <3>1, <3>2, <3>3
  <2>4. req' \in [Slots -> Requests] /\ arrived' = arrived
    BY <1>0, <2>1, <2>3
  <2> QED BY <1>0, <2>2, <2>4 DEF GatewayInv
<1>2. ASSUME NEW s \in Slots, Lives, Finish(s)
      PROVE  GatewayInv'
  <2>1. /\ ObserveRequest(req[s].route, req[s].status) /\ req' = [req EXCEPT ![s] = Free]
        /\ UNCHANGED <<gateVars, processVars, arrived>>
    BY <1>2 DEF Finish, Becomes
  <2>2. req[s].route \in Routes /\ req[s].status \in Statuses
    BY <1>0 DEF Requests
  <2>3. MetricsInv'
    BY <1>0, <2>1, <2>2, Observed
  <2>4. GateInv' /\ ProcessInv'
    BY <1>0, <1>2, <2>1, GateKept, Serving DEF Lives
  <2>5. req' \in [Slots -> Requests] /\ arrived' = arrived
    BY <1>0, <1>p, <2>1, Forms
  <2> QED BY <1>0, <2>3, <2>4, <2>5 DEF GatewayInv
<1>3. ASSUME NEW s \in Slots, Lives, Ungated(s)
      PROVE  GatewayInv'
  <2>1. /\ UNCHANGED <<gateVars, metricVars, processVars>>
        /\ arrived < MaxRequests /\ arrived' = arrived + 1
    BY <1>3 DEF Ungated, Arrive
  <2>2. GateInv' /\ MetricsInv' /\ ProcessInv'
    BY <1>0, <1>3, <2>1, GateKept, MetricsKept, Serving DEF Lives
  <2>3. req' \in [Slots -> Requests]
    BY <1>0, <1>p, <1>3, Forms DEF Ungated, Becomes
  <2>4. arrived' \in 0..MaxRequests
    BY <1>0, <2>1, GatewayAssumption
  <2> QED BY <2>2, <2>3, <2>4 DEF GatewayInv
<1>4. ASSUME NEW s \in Slots, NEW c \in Clients, NEW r \in Routes, Lives, Gated(s, c, r)
      PROVE  GatewayInv'
  <2>1. /\ UNCHANGED <<metricVars, processVars>>
        /\ arrived < MaxRequests /\ arrived' = arrived + 1
    BY <1>4 DEF Gated, Arrive
  <2>2. PICK verdict \in {"client", "global", "allowed"} :
          /\ Allow(c, KindOf(r), verdict)
          /\ \E q \in IF verdict = "allowed" THEN Routed(r) ELSE {Sent(r, "refused")} : Becomes(s, q)
    BY <1>4 DEF Gated
  <2>3. GateInv'
    BY <1>0, <2>2, Forms, GateAllowed
  <2>4. MetricsInv' /\ ProcessInv'
    BY <1>0, <1>4, <2>1, MetricsKept, Serving DEF Lives
  <2>5. \E q \in Requests : Becomes(s, q)
    BY <2>2, Forms
  <2>6. req' \in [Slots -> Requests]
    BY <1>0, <2>5 DEF Becomes
  <2>7. arrived' \in 0..MaxRequests
    BY <1>0, <2>1, GatewayAssumption
  <2> QED BY <2>3, <2>4, <2>6, <2>7 DEF GatewayInv
<1>5. ASSUME NEW w \in 0..LastWindow, Lives, ClockMoves(w),
             UNCHANGED <<metricVars, processVars, req, arrived>>
      PROVE  GatewayInv'
  <2>1. GateInv' /\ MetricsInv' /\ ProcessInv'
    BY <1>0, <1>5, GateClock, MetricsKept, Serving DEF Lives
  <2> QED BY <1>0, <1>5, <2>1 DEF GatewayInv
<1>6. ASSUME NEW outcome \in {"done", "failed"}, StartupEnds(outcome)
      PROVE  GatewayInv'
  <2>1. /\ phase # "exited" /\ started' = outcome /\ handlers' = handlers
        /\ UNCHANGED <<gateVars, metricVars, req, arrived>>
    BY <1>6 DEF StartupEnds
  <2>2. GateInv' /\ MetricsInv'
    BY <1>0, <2>1, GateKept, MetricsKept
  <2>3. CASE outcome = "failed"
    <3>1. Shutdown
      BY <1>6, <2>3 DEF StartupEnds
    <3>2. handlers' \subseteq Signals
      BY <1>0, <2>1 DEF ProcessInv, ProcessTypeOK
    <3>3. ProcessInv'
      BY <1>0, <2>1, <3>1, <3>2, ShutsDown DEF ProcessInv
    <3> QED BY <1>0, <2>1, <2>2, <3>3 DEF GatewayInv
  <2>4. CASE outcome = "done"
    <3>1. UNCHANGED <<phase, archive, code, shutdowns>>
      BY <1>6, <2>4 DEF StartupEnds
    <3>2. ProcessInv'
      BY <1>0, <2>1, <3>1 DEF ProcessInv, ProcessTypeOK, CleanExit
    <3> QED BY <1>0, <2>1, <2>2, <3>2 DEF GatewayInv
  <2> QED BY <2>3, <2>4
<1>7. ASSUME NEW sig \in Signals, Signal(sig)
      PROVE  GatewayInv'
  <2>1. /\ phase # "exited" /\ started' = started /\ handlers' = handlers \ {sig}
        /\ UNCHANGED <<gateVars, metricVars, req, arrived>>
    BY <1>7 DEF Signal
  <2>2. GateInv' /\ MetricsInv'
    BY <1>0, <2>1, GateKept, MetricsKept
  <2>3. CASE sig \in handlers
    <3>1. Shutdown
      BY <1>7, <2>3 DEF Signal
    <3>2. handlers' \subseteq Signals /\ started' \in {"running", "done", "failed"}
      BY <1>0, <2>1 DEF ProcessInv, ProcessTypeOK
    <3>3. ProcessInv'
      BY <1>0, <2>1, <3>1, <3>2, ShutsDown DEF ProcessInv
    <3> QED BY <1>0, <2>1, <2>2, <3>3 DEF GatewayInv
  <2>4. CASE sig \notin handlers
    <3>1. phase' = "exited" /\ code' = 2 /\ UNCHANGED <<archive, shutdowns>>
      BY <1>7, <2>4 DEF Signal, Exit
    <3>2. ProcessInv'
      BY <1>0, <2>1, <3>1 DEF ProcessInv, ProcessTypeOK, CleanExit
    <3> QED BY <1>0, <2>1, <2>2, <3>2 DEF GatewayInv
  <2> QED BY <2>3, <2>4
<1>8. ASSUME CloseDone \/ TimerFires
      PROVE  GatewayInv'
  <2>1. /\ phase' = "exited"
        /\ UNCHANGED <<gateVars, metricVars, req, started, archive, handlers, arrived, shutdowns>>
        /\ code' = 1 \/ (code' = 0 /\ \A s \in Slots : ~Busy(s))
    BY <1>8 DEF CloseDone, TimerFires, Stopped, Exit
  <2>2. GateInv' /\ MetricsInv'
    BY <1>0, <2>1, GateKept, MetricsKept
  <2>3. CleanExit'
    BY <2>1 DEF CleanExit, Busy
  <2>4. ProcessInv'
    BY <1>0, <2>1, <2>3 DEF ProcessInv, ProcessTypeOK
  <2> QED BY <1>0, <2>1, <2>2, <2>4 DEF GatewayInv
<1>9. ASSUME UNCHANGED gatewayVars
      PROVE  GatewayInv'
  <2>1. UNCHANGED <<gateVars, metricVars, processVars, req, arrived>>
    BY <1>9 DEF gatewayVars
  <2>2. GateInv' /\ MetricsInv'
    BY <1>0, <2>1, GateKept, MetricsKept
  <2>3. ProcessInv'
    BY <1>0, <2>1 DEF ProcessInv, ProcessTypeOK, CleanExit, Busy, processVars
  <2> QED BY <1>0, <2>1, <2>2, <2>3 DEF GatewayInv
<1> QED BY <1>1, <1>2, <1>3, <1>4, <1>5, <1>6, <1>7, <1>8, <1>9 DEF GatewayNext

LEMMA GatewayProps ==
  GatewayInv => GateSound /\ RefusalsAreFree /\ ReportsSound
<1> SUFFICES ASSUME GatewayInv PROVE GateSound /\ RefusalsAreFree /\ ReportsSound
  OBVIOUS
<1>1. GateTypeOK /\ GateSound /\ RefusalsAreFree /\ CountersExact
  BY GateProps, MetricsProps DEF GatewayInv
<1>2. GatewayTypeOK /\ CleanExit
  BY <1>1 DEF GatewayInv, ProcessInv, ProcessTypeOK, MetricsInv, GatewayTypeOK, Requests
<1> QED BY <1>1, <1>2 DEF ReportsSound

\* Within a window of the clock no client, and not all of them together, get more
\* requests past the gate (limits.js, RateGate.allow) than their limit, whoever is
\* within both gets all it asks for, and the cleanup leaves no key of a window long
\* past, whatever the limits and whatever else the process serves.
THEOREM GateCorrect == GatewaySpec => []GateSound
<1>1. GatewaySpec => []GatewayInv
  BY GatewayFirst, GatewayNextInv, PTL DEF GatewaySpec
<1> QED BY <1>1, GatewayProps, PTL

\* What the gate refuses one client it does not count against the others.
THEOREM RefusalsCorrect == GatewaySpec => []RefusalsAreFree
<1>1. GatewaySpec => []GatewayInv
  BY GatewayFirst, GatewayNextInv, PTL DEF GatewaySpec
<1> QED BY <1>1, GatewayProps, PTL

\* The process's reports about its requests are true: an exit code 0 after one call
\* of shutdown (server.js) means no accepted request was abandoned, and the bounded
\* maps of metrics.js count every response that finished exactly once.
THEOREM ReportsCorrect == GatewaySpec => []ReportsSound
<1>1. GatewaySpec => []GatewayInv
  BY GatewayFirst, GatewayNextInv, PTL DEF GatewaySpec
<1> QED BY <1>1, GatewayProps, PTL
=============================================================================
