------------------------------ MODULE ApiKeys ------------------------------
(* Paid API keys: the key file, the runs of its manager                      *)
(* (src/scripts/api-key.mjs) and the server that holds a copy of it          *)
(* (src/src/api-access.js).  A manager run reads the file, changes its copy, *)
(* writes a temporary file and renames it; two runs may overlap.  The server *)
(* reads the file at a SIGHUP and installs what it read when the read has    *)
(* ended; two such reads may overlap too.                                    *)
EXTENDS Integers, Sequences

CONSTANTS Ids,         \* key identifiers
          Runs,        \* manager runs at a time, named by their process id
          MaxReloads,  \* reloads in progress at a time (bound)
          None,        \* no record
          Rpm,         \* requestsPerMinute of every key
          MaxSecrets   \* secrets ever made (bound)

VARIABLES
  file,     \* the key file: a record, or None, per id
  tmp,      \* process ids whose temporary file exists
  run,      \* per run: the document it is about to save, and what it will print
  records,  \* ApiAccess.records
  quotas,   \* ApiAccess.quotas: count of the current minute, None when absent
  reloads,  \* the reloads in progress, in the order in which they read the file
  secrets,  \* secrets made so far; a secret is a number, its digest itself
  \* History.
  valid,    \* per id the secret the last finished run told its operator, or None
  retired,  \* secrets that were in the file and are not valid any more
  dead,     \* of these, the ones a finished reload has read as gone
  served,   \* requests served per id in this minute, counted up to Rpm + 1
  lost,     \* a run renamed over a change it had not read
  swapped   \* a reload installed what it had read before an installed one did

fileVars == <<file, tmp, run, secrets, valid, retired, lost>>
serverVars == <<records, quotas, reloads, dead, served, swapped>>
vars == <<fileVars, serverVars>>

Secrets == 1..MaxSecrets
Record == [hash : Secrets, enabled : BOOLEAN]

ASSUME KeysAssumption ==
  /\ None \notin Runs \cup Ids \cup Nat \cup Record
  /\ Rpm \in Nat \ {0} /\ MaxSecrets \in Nat /\ MaxReloads \in Nat

Document == [Ids -> Record \cup {None}]
Empty == [i \in Ids |-> None]
Idle == [doc |-> None, id |-> None, secret |-> None, stale |-> FALSE]

Init ==
  /\ file = Empty /\ tmp = {} /\ run = [p \in Runs |-> Idle]
  /\ records = Empty /\ quotas = Empty /\ reloads = <<>>
  /\ secrets = 0
  /\ valid = Empty /\ retired = {} /\ dead = {} /\ served = [i \in Ids |-> 0]
  /\ lost = FALSE /\ swapped = FALSE

-----------------------------------------------------------------------------
(* The key manager.                                                          *)

\* documentAt: the file as this run finds it.
DocumentLost == Empty  \* mutant: every failure to read counts as a missing file
DocumentAt == file

\* main up to save: the change is refused (the run ends without a trace) or made
\* on the run's own copy.
Begin(p, i, rec) ==
  /\ run[p] = Idle
  /\ run' = [run EXCEPT ![p] = [doc |-> [DocumentAt EXCEPT ![i] = rec],
                                id |-> i, stale |-> FALSE,
                                secret |-> IF rec.enabled THEN rec.hash ELSE None]]
  /\ UNCHANGED <<file, tmp, valid, retired, lost, serverVars>>

Create(p, i) ==
  /\ secrets < MaxSecrets
  /\ DocumentAt[i] = None
  /\ secrets' = secrets + 1
  /\ Begin(p, i, [hash |-> secrets + 1, enabled |-> TRUE])

Rotate(p, i) ==
  /\ secrets < MaxSecrets
  /\ DocumentAt[i] # None
  /\ secrets' = secrets + 1
  /\ Begin(p, i, [hash |-> secrets + 1, enabled |-> TRUE])

RevokeNothing(p, i) ==  \* mutant: the flag is not written
  /\ DocumentAt[i] # None
  /\ UNCHANGED secrets
  /\ run[p] = Idle
  /\ run' = [run EXCEPT ![p] = [doc |-> DocumentAt, id |-> i, stale |-> FALSE, secret |-> None]]
  /\ UNCHANGED <<file, tmp, valid, retired, lost, serverVars>>
Revoke(p, i) ==
  /\ DocumentAt[i] # None
  /\ UNCHANGED secrets
  /\ Begin(p, i, [DocumentAt[i] EXCEPT !.enabled = FALSE])

\* save up to the rename.  The temporary file is named after the process and must
\* not exist; a run that fails or is killed here leaves it behind.
Write(p) ==
  /\ run[p] # Idle /\ p \notin tmp
  /\ tmp' = tmp \cup {p}
  /\ UNCHANGED <<file, run, secrets, valid, retired, lost, serverVars>>
Abandon(p) ==
  /\ run[p] # Idle
  /\ run' = [run EXCEPT ![p] = Idle]
  /\ UNCHANGED <<file, tmp, secrets, valid, retired, lost, serverVars>>

\* The rename, after which the run prints its secret or the revocation.
Rename(p) ==
  /\ run[p] # Idle /\ p \in tmp
  /\ file' = run[p].doc
  /\ tmp' = tmp \ {p}
  /\ run' = [q \in Runs |-> IF q = p \/ run[q] = Idle THEN Idle
                             ELSE [run[q] EXCEPT !.stale = TRUE]]
  /\ lost' = (lost \/ run[p].stale)
  /\ valid' = [valid EXCEPT ![run[p].id] = run[p].secret]
  /\ retired' = retired \cup ({valid[run[p].id]} \ {None})
  /\ UNCHANGED <<secrets, serverVars>>

-----------------------------------------------------------------------------
(* The server.                                                               *)

\* reload, up to the end of its read.  The rename is atomic: a read sees one
\* whole document.
ReadKeyFile ==
  /\ Len(reloads) < MaxReloads
  /\ reloads' = Append(reloads, [doc |-> file, gone |-> retired, stale |-> FALSE])
  /\ UNCHANGED <<records, quotas, dead, served, swapped, fileVars>>

QuotasCleared(doc) == Empty  \* mutant: a reload starts every quota again
\* The rest of reload: the quotas of the ids that stay are kept.
KeptQuotas(doc) == [i \in Ids |-> IF doc[i] = None THEN None ELSE quotas[i]]
Install(k) ==
  /\ records' = reloads[k].doc
  /\ quotas' = KeptQuotas(reloads[k].doc)
  /\ dead' = dead \cup reloads[k].gone
  /\ swapped' = (swapped \/ reloads[k].stale)
  /\ reloads' = [j \in 1..(k - 1) |-> [reloads[j] EXCEPT !.stale = TRUE]]
                \o SubSeq(reloads, k + 1, Len(reloads))
  /\ UNCHANGED <<served, fileVars>>

\* _recordFor: a presented secret is a key while its record is enabled.
HashOnly(s, i) == records[i] # None /\ records[i].hash = s  \* mutant: enabled is not read
Admits(s, i) == records[i] # None /\ records[i].hash = s /\ records[i].enabled

\* authorize with a credential: _recordFor, then _consume.  A refusal, 401 or 429,
\* changes nothing.
Used(i) == IF quotas[i] = None THEN 0 ELSE quotas[i]
AuthorizeLate(s) ==  \* mutant: off by one at the quota
  \E i \in Ids :
    /\ Admits(s, i)
    /\ Used(i) <= Rpm
    /\ quotas' = [quotas EXCEPT ![i] = Used(i) + 1]
    /\ served' = [served EXCEPT ![i] = IF @ > Rpm THEN @ ELSE @ + 1]
    /\ UNCHANGED <<records, reloads, dead, swapped, fileVars>>
Authorize(s) ==
  \E i \in Ids :
    /\ Admits(s, i)
    /\ Used(i) < Rpm
    /\ quotas' = [quotas EXCEPT ![i] = Used(i) + 1]
    /\ served' = [served EXCEPT ![i] = IF @ > Rpm THEN @ ELSE @ + 1]
    /\ UNCHANGED <<records, reloads, dead, swapped, fileVars>>

\* A minute ends: quotas of an earlier window count as absent.
Minute ==
  /\ quotas' = Empty
  /\ served' = [i \in Ids |-> 0]
  /\ UNCHANGED <<records, reloads, dead, swapped, fileVars>>

Next ==
  \/ \E p \in Runs, i \in Ids : Create(p, i) \/ Rotate(p, i) \/ Revoke(p, i)
  \/ \E p \in Runs : Write(p) \/ Abandon(p) \/ Rename(p)
  \/ ReadKeyFile
  \/ \E k \in 1..Len(reloads) : Install(k)
  \/ \E s \in 1..secrets : Authorize(s)
  \/ Minute

Spec == Init /\ [][Next]_vars

-----------------------------------------------------------------------------
(* Properties.                                                               *)

\* Every variable has its type.
TypeOK ==
  /\ file \in Document /\ records \in Document
  /\ tmp \subseteq Runs
  /\ run \in [Runs -> [doc : Document \cup {None}, id : Ids \cup {None},
                       secret : Secrets \cup {None}, stale : BOOLEAN]]
  /\ quotas \in [Ids -> (1..Rpm) \cup {None}]
  /\ reloads \in Seq([doc : Document, gone : SUBSET Secrets, stale : BOOLEAN])
  /\ secrets \in 0..MaxSecrets
  /\ valid \in [Ids -> Secrets \cup {None}]
  /\ retired \subseteq Secrets /\ dead \subseteq Secrets
  /\ served \in [Ids -> 0..(Rpm + 1)]
  /\ lost \in BOOLEAN /\ swapped \in BOOLEAN

\* What an operator was told is in the file: a secret that was printed stays
\* usable until a later run rotates or revokes it, whatever other runs fail half
\* way in between; unless a run renames over a change it has not read.
ToldIsStored ==
  ~lost => \A i \in Ids : valid[i] # None => file[i] = [hash |-> valid[i], enabled |-> TRUE]

\* Together: the key file is a document that holds what operators were told.
FileSound == TypeOK /\ ToldIsStored

\* Rotating and revoking take effect: after a reload that began when a secret was
\* no longer valid, no request is admitted with it, for good; unless a change was
\* lost or an older read installed last.
RetiredRefused == ~lost /\ ~swapped => \A s \in dead, i \in Ids : ~Admits(s, i)

\* Within a minute an id is served at most its quota, across rotations and reloads;
\* unless a change was lost or an older read installed last.
QuotaHeld == ~lost /\ ~swapped => \A i \in Ids : served[i] <= Rpm
=============================================================================
