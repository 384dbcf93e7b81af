----------------------------- MODULE RelayPool -----------------------------
(* The pool of relays (src/src/rpc.js) between two awaits: verification,     *)
(* probes and block reads whose calls end one by one while the relays move.  *)
(* A chain is a sequence of blocks, its first block the genesis; a call ends *)
(* with what the relay serves at that moment, or fails when it is down.      *)
EXTENDS Integers, Sequences, FiniteSets, FiniteSetsExt

CONSTANTS Relays, Blocks, Chains,
          Starts,      \* what the relays may serve at first: functions to Chains
          Configured,  \* expectedGenesisHash as configured: a block, or None
          None,
          ReadHeight,  \* the height that is read
          MaxMoves     \* moves of relays (bound)

ASSUME PoolAssumption ==
  /\ IsFiniteSet(Relays)
  /\ None \notin Blocks \cup Relays /\ Configured \in Blocks \cup {None}
  /\ Starts \subseteq [Relays -> Chains] /\ Chains \subseteq Seq(Blocks) \ {<<>>} /\ ReadHeight \in Nat /\ MaxMoves \in Nat

VARIABLES
  chain, up,                   \* what each relay serves, and whether it answers
  enabled, verified, healthy,  \* the flags of each relay
  genesisOf,                   \* relay.genesisHash
  pinned,                      \* expectedGenesisHash
  ready,                       \* _verified
  result,                      \* _probeResult
  fresh,                       \* the result is younger than probeTtlMs
  probe,                       \* the verification or probe in progress
  read,                        \* the block read in progress, or its outcome
  moves,
  \* History.
  still,    \* no relay changed its chain during the probe in progress
  alone,    \* no call of the reader ended during the probe in progress
  moved     \* a relay changed its chain since the reader asked the current one

relayVars == <<chain, up>>
flagVars == <<enabled, verified, healthy, genesisOf>>
poolVars == <<pinned, ready, result, fresh>>
vars == <<relayVars, flagVars, poolVars, probe, read, moves, still, alone, moved>>

Trusted(r) == enabled[r] /\ verified[r]
Candidates == {r \in Relays : Trusted(r)}
Height(c) == Len(c) - 1
BlockAt(r, h) == IF h <= Height(chain[r]) THEN chain[r][h + 1] ELSE None

NoHeights == [r \in Relays |-> -1]
NoDigests == [r \in Relays |-> None]
ProbeIdle == [at |-> "idle", waiting |-> {}, heights |-> NoHeights, digests |-> NoDigests]
ReadIdle == [at |-> "idle", relay |-> None, left |-> {}, body |-> None, digest |-> None, asked |-> {}]

Init ==
  /\ chain \in Starts /\ up = [r \in Relays |-> TRUE]
  /\ enabled = [r \in Relays |-> TRUE] /\ verified = [r \in Relays |-> FALSE]
  /\ healthy = [r \in Relays |-> FALSE] /\ genesisOf = [r \in Relays |-> None]
  /\ pinned = Configured /\ ready = FALSE /\ result = None /\ fresh = FALSE
  /\ probe = ProbeIdle /\ read = ReadIdle /\ moves = 0
  /\ still = TRUE /\ alone = TRUE /\ moved = FALSE

\* The continuation of the last answer runs before any other event.
Settling == (probe.at # "idle" /\ probe.waiting = {}) \/ read.at = "done"

-----------------------------------------------------------------------------
(* _verifyRelay.                                                             *)

Enter(at, waiting) == probe' = [probe EXCEPT !.at = at, !.waiting = waiting]
Answered(r) == probe' = [probe EXCEPT !.waiting = @ \ {r}]

WrongIdentityNever(r) == FALSE  \* mutant: the genesis is not compared
WrongIdentity(r) == pinned \notin {None, chain[r][1]}

\* The three calls of one relay end together here; when one fails, a late answer
\* of the other two may leave the relay marked healthy.
VerifyAnswer(r) ==
  /\ probe.at \in {"verifyAll", "verify"} /\ r \in probe.waiting /\ up[r]
  /\ genesisOf' = [genesisOf EXCEPT ![r] = chain[r][1]]
  /\ enabled' = [enabled EXCEPT ![r] = @ /\ ~WrongIdentity(r)]
  /\ verified' = [verified EXCEPT ![r] = ~WrongIdentity(r)]
  /\ healthy' = [healthy EXCEPT ![r] = ~WrongIdentity(r)]
  /\ Answered(r)
  /\ UNCHANGED <<relayVars, poolVars, read, moves, still, alone, moved>>
VerifyFails(r) ==
  /\ probe.at \in {"verifyAll", "verify"} /\ r \in probe.waiting /\ ~up[r]
  /\ verified' = [verified EXCEPT ![r] = FALSE]
  /\ \E late \in BOOLEAN : healthy' = [healthy EXCEPT ![r] = late]
  /\ Answered(r)
  /\ UNCHANGED <<relayVars, enabled, genesisOf, poolVars, read, moves, still, alone, moved>>

-----------------------------------------------------------------------------
(* verifyRelays, which goes on with a forced probe.                          *)

VerifyRelays ==
  /\ probe.at = "idle"
  /\ Enter("verifyAll", Relays)
  /\ UNCHANGED <<relayVars, flagVars, poolVars, read, moves, still, alone, moved>>

EndProbeKept ==  \* mutant: what a probe has heard is not dropped
  probe' = [probe EXCEPT !.at = "idle"] /\ still' = TRUE /\ alone' = TRUE
EndProbe == probe' = ProbeIdle /\ still' = TRUE /\ alone' = TRUE
Abort ==
  /\ EndProbe
  /\ UNCHANGED <<relayVars, flagVars, poolVars, read, moves, moved>>

\* Without a configured genesis the first valid relay gives it; relays of another
\* genesis are quarantined.
PendingAtBoot == {}  \* mutant: a relay that was down at boot is not tried again
Pending == {r \in Relays : enabled[r] /\ ~verified[r]}
PinFirst ==
  /\ probe.at = "verifyAll" /\ probe.waiting = {}
  /\ \E g \in IF pinned # None THEN {pinned} ELSE {genesisOf[r] : r \in Candidates} :
       LET wrong == {r \in Candidates : genesisOf[r] # g}
           kept == Candidates \ wrong
       IN /\ kept # {}
          /\ enabled' = [r \in Relays |-> enabled[r] /\ r \notin wrong]
          /\ verified' = [r \in Relays |-> verified[r] /\ r \notin wrong]
          /\ healthy' = [r \in Relays |-> healthy[r] /\ r \notin wrong]
          /\ pinned' = g
          /\ Enter("verify", Pending)
  /\ ready' = TRUE /\ fresh' = FALSE
  /\ UNCHANGED <<relayVars, genesisOf, result, read, moves, still, alone, moved>>
NoneValid == probe.at = "verifyAll" /\ probe.waiting = {} /\ Candidates = {} /\ Abort

-----------------------------------------------------------------------------
(* probe.                                                                    *)

\* A result that is young enough is returned as it is.
Probe ==
  /\ probe.at = "idle" /\ ready
  /\ ~(result # None /\ fresh)
  /\ Enter("verify", Pending)
  /\ UNCHANGED <<relayVars, flagVars, poolVars, read, moves, still, alone, moved>>

AskHeights ==
  /\ probe.at = "verify" /\ probe.waiting = {} /\ Candidates # {}
  /\ Enter("heights", Candidates)
  /\ UNCHANGED <<relayVars, flagVars, poolVars, read, moves, still, alone, moved>>
NoneVerified == probe.at = "verify" /\ probe.waiting = {} /\ Candidates = {} /\ Abort

HeightAnswer(r) ==
  /\ probe.at = "heights" /\ r \in probe.waiting
  /\ healthy' = [healthy EXCEPT ![r] = up[r]]
  /\ probe' = [probe EXCEPT !.waiting = @ \ {r},
                            !.heights[r] = IF up[r] THEN Height(chain[r]) ELSE -1]
  /\ UNCHANGED <<relayVars, enabled, verified, genesisOf, poolVars, read, moves, still, alone, moved>>

Heard == {r \in Relays : probe.heights[r] # -1}
CommonOf(S) == Min({probe.heights[r] : r \in S})
AskDigests ==
  /\ probe.at = "heights" /\ probe.waiting = {} /\ Cardinality(Heard) >= 2
  /\ Enter("digests", Heard)
  /\ UNCHANGED <<relayVars, flagVars, poolVars, read, moves, still, alone, moved>>
NoneReachable == probe.at = "heights" /\ probe.waiting = {} /\ Heard = {} /\ Abort

\* A relay that has no block at the common height any more counts as failed.
DigestAnswer(r) ==
  /\ probe.at = "digests" /\ r \in probe.waiting
  /\ LET hash == IF up[r] THEN BlockAt(r, CommonOf(Heard)) ELSE None
     IN /\ healthy' = [healthy EXCEPT ![r] = hash # None]
        /\ probe' = [probe EXCEPT !.waiting = @ \ {r},
                                  !.digests[r] = hash]
  /\ UNCHANGED <<relayVars, enabled, verified, genesisOf, poolVars, read, moves, still, alone, moved>>

\* The end of probe: only relays that are still healthy count, as the flags are now.
Compared == {r \in Relays : probe.digests[r] # None}
Hashes == {probe.digests[r] : r \in Compared}
VerdictFirst ==  \* mutant: the hashes are not compared
  IF Cardinality(Compared) < 2 THEN "unknown" ELSE "agree"
Verdict == IF Cardinality(Compared) < 2 THEN "unknown"
           ELSE IF Cardinality(Hashes) = 1 THEN "agree" ELSE "differ"
DegradedAlone(active) == Cardinality(active) < 2  \* mutant: two sources are enough
Degraded(active) == ~(Cardinality(active) >= 2 /\ Verdict = "agree")
Conclude ==
  LET active == {r \in Heard : healthy[r]}
  IN /\ probe.waiting = {}
     /\ probe.at = "digests" \/ (probe.at = "heights" /\ Cardinality(Heard) = 1)
     /\ EndProbe
     /\ IF active = {} THEN UNCHANGED <<result, fresh>>
        ELSE /\ result' = [active |-> active,
                           best |-> Max({probe.heights[r] : r \in active}),
                           common |-> CommonOf(IF Cardinality(active) < 2 THEN active ELSE Heard),
                           verdict |-> Verdict, degraded |-> Degraded(active)]
             /\ fresh' = TRUE
     /\ UNCHANGED <<relayVars, flagVars, pinned, ready, read, moves, moved>>

\* probeTtlMs passes.
Expires == fresh /\ fresh' = FALSE /\ UNCHANGED <<relayVars, flagVars, pinned, ready, result, probe, read, moves, still, alone, moved>>

-----------------------------------------------------------------------------
(* blockWithDigest, and every other request: calls to candidates, in turn.   *)

Ask(r, left) ==
  /\ read' = [at |-> "asked", relay |-> r, left |-> left, body |-> None, digest |-> None,
              asked |-> {"body", "digest"}]
  /\ moved' = FALSE
GiveUp == read' = ReadIdle /\ moved' = FALSE

Read ==
  /\ read.at = "idle"
  /\ \E r \in Candidates : Ask(r, Candidates \ {r})
  /\ UNCHANGED <<relayVars, flagVars, poolVars, probe, moves, still, alone>>

\* A failed call ends the pair; the next candidate is asked for both again.
KeepHalf ==  \* mutant: what the failed relay has answered is kept
  IF read.left = {} THEN GiveUp
  ELSE \E r \in read.left :
         /\ read' = [read EXCEPT !.relay = r, !.left = @ \ {r}]
         /\ UNCHANGED moved
NextCandidate ==
  IF read.left = {} THEN GiveUp ELSE \E r \in read.left : Ask(r, read.left \ {r})

ReadEnds(call) ==
  /\ read.at = "asked" /\ call \in read.asked
  /\ alone' = (probe.at = "idle")
  /\ healthy' = [healthy EXCEPT ![read.relay] = up[read.relay]]
  /\ LET block == BlockAt(read.relay, ReadHeight)
         got == [read EXCEPT !.body = IF call = "body" THEN block ELSE @,
                             !.digest = IF call = "digest" THEN block ELSE @,
                             !.asked = @ \ {call}]
     IN IF ~up[read.relay] THEN NextCandidate
        ELSE IF got.asked # {} THEN read' = got /\ UNCHANGED moved
        ELSE IF None \in {got.body, got.digest} THEN NextCandidate
        ELSE read' = [got EXCEPT !.at = "done", !.left = {}] /\ UNCHANGED moved
  /\ UNCHANGED <<relayVars, enabled, verified, genesisOf, poolVars, probe, moves, still>>

Delivered ==
  /\ read.at = "done"
  /\ read' = ReadIdle /\ moved' = FALSE
  /\ UNCHANGED <<relayVars, flagVars, poolVars, probe, moves, still, alone>>

-----------------------------------------------------------------------------
(* The relays.                                                               *)

Moves ==
  /\ moves < MaxMoves
  /\ moves' = moves + 1
  /\ UNCHANGED <<flagVars, poolVars, probe, read, alone>>
Reorganises(r) ==
  Moves /\ \E c \in Chains \ {chain[r]} : chain' = [chain EXCEPT ![r] = c] /\ UNCHANGED up
        /\ still' = (probe.at = "idle") /\ moved' = (read.at = "asked")
Flips(r) == Moves /\ up' = [up EXCEPT ![r] = ~@] /\ UNCHANGED <<chain, still, moved>>

Continue == PinFirst \/ NoneValid \/ AskHeights \/ NoneVerified \/ AskDigests \/ NoneReachable \/ Conclude
Answer(r) == VerifyAnswer(r) \/ VerifyFails(r) \/ HeightAnswer(r) \/ DigestAnswer(r)
\* The indexer's tick: verify until that succeeds once, then probe again and again; a
\* busy reader does not keep it from its turn.
Tick == Continue \/ (\E r \in Relays : Answer(r)) \/ Expires \/ Probe \/ (~ready /\ VerifyRelays)
Next ==
  \/ Continue \/ Delivered
  \/ /\ ~Settling
     /\ \/ \E r \in Relays : Answer(r) \/ Reorganises(r) \/ Flips(r)
        \/ VerifyRelays \/ Probe \/ Expires
        \/ Read \/ \E call \in {"body", "digest"} : ReadEnds(call)

Spec == Init /\ [][Next]_vars /\ WF_vars(Tick)

-----------------------------------------------------------------------------
(* Properties.                                                               *)

\* Every variable has its type.
TypeOK ==
  /\ chain \in [Relays -> Chains] /\ up \in [Relays -> BOOLEAN]
  /\ enabled \in [Relays -> BOOLEAN] /\ verified \in [Relays -> BOOLEAN]
  /\ healthy \in [Relays -> BOOLEAN] /\ genesisOf \in [Relays -> Blocks \cup {None}]
  /\ pinned \in Blocks \cup {None} /\ ready \in BOOLEAN /\ fresh \in BOOLEAN
  /\ probe.at \in {"idle", "verifyAll", "verify", "heights", "digests"}
  /\ probe.waiting \subseteq Relays /\ (probe.at = "idle" => probe = ProbeIdle)
  /\ read.at \in {"idle", "asked", "done"} /\ read.asked \subseteq {"body", "digest"}
  /\ moves \in 0..MaxMoves /\ still \in BOOLEAN /\ alone \in BOOLEAN /\ moved \in BOOLEAN

\* Once the identity is known, no relay is asked for data that showed another one
\* when it was verified, whether it joined at once or later.
PinnedOnly == pinned # None => \A r \in Candidates : genesisOf[r] = pinned

\* Together: only relays that are known to be of the pinned identity are used.
PoolSound == TypeOK /\ PinnedOnly

\* A block is paired with its own digest, however its calls failed over, unless a
\* relay changed its chain between the two answers.
Paired == read.at = "done" /\ ~moved => read.body = read.digest

\* The words of a result: two of its sources disagree on the common block.
Disagree(active, h) ==
  \E r, s \in active : None \notin {BlockAt(r, h), BlockAt(s, h)} /\ BlockAt(r, h) # BlockAt(s, h)

\* A result that is not degraded has been cross-checked: while the relays stood
\* still, two of them serve the same block at the common height.
CrossChecked ==
  [][result' # result /\ still /\ ~result'.degraded =>
       \E r, s \in Relays : r # s /\ BlockAt(r, result'.common) = BlockAt(s, result'.common)
                             /\ BlockAt(r, result'.common) # None]_vars

\* Two active relays on different branches are always noticed, while the relays
\* stood still and no request of the API met them during the probe.
ForkNoticed ==
  [][result' # result /\ still /\ alone /\ Disagree(result'.active, result'.common) =>
       result'.verdict = "differ"]_vars

\* Together: a result says neither more nor less than its probe has compared.
ResultHonest == CrossChecked /\ ForkNoticed

\* When the relays answer again, each that is not quarantined is verified and
\* healthy in the end, also one that was down when the process started.
Recovers ==
  <>[](\A r \in Relays : up[r])
    => <>[](\A r \in Relays : enabled[r] => Trusted(r) /\ healthy[r])
=============================================================================
