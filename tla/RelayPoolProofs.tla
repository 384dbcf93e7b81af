-------------------------- MODULE RelayPoolProofs --------------------------
(* What the pool reports and pairs, for any relays, chains and number of      *)
(* moves: the calls of a probe and of a block read may end in any order.      *)
EXTENDS RelayPool, FiniteSetTheorems, TLAPS

Reads == [at : {"idle", "asked", "done"}, relay : Relays \cup {None}, left : SUBSET Relays,
          body : Blocks \cup {None}, digest : Blocks \cup {None}, asked : SUBSET {"body", "digest"}]

\* The records of the two activities, and what a read has while it is under way.
Shape ==
  /\ probe = [at |-> probe.at, waiting |-> probe.waiting,
               heights |-> probe.heights, digests |-> probe.digests]
  /\ probe.heights \in [Relays -> Int] /\ probe.digests = [r \in Relays |-> probe.digests[r]]
  /\ read \in Reads
  /\ read.at = "asked" => read.relay \in Relays

\* What has been heard is what the relays serve, while they stand still; nothing
\* is heard before it is asked for.
HeardTrue ==
  /\ probe.at \in {"verifyAll", "verify"} => probe.heights = NoHeights /\ probe.digests = NoDigests
  /\ probe.at = "heights" => probe.digests = NoDigests
  /\ probe.at = "digests" =>
       /\ still => \A r \in Relays : probe.digests[r] # None =>
                     probe.digests[r] = BlockAt(r, CommonOf(Heard))
       /\ alone => \A r \in Heard \ probe.waiting : healthy[r] => probe.digests[r] # None

\* What a read has got is what its relay serves, unless that changed its chain.
HalfRead ==
  read.at = "asked" /\ ~moved =>
    /\ "body" \in read.asked \/ read.body = BlockAt(read.relay, ReadHeight)
    /\ "digest" \in read.asked \/ read.digest = BlockAt(read.relay, ReadHeight)

IInv == TypeOK /\ Shape /\ PinnedOnly /\ HeardTrue /\ HalfRead /\ Paired

-----------------------------------------------------------------------------

LEMMA ServesBlocks ==
  ASSUME TypeOK, NEW r \in Relays, NEW h \in Int, h >= 0
  PROVE  /\ chain[r] \in Seq(Blocks) /\ chain[r][1] \in Blocks /\ Height(chain[r]) \in Nat
         /\ BlockAt(r, h) \in Blocks \cup {None}
BY PoolAssumption DEF TypeOK, BlockAt, Height

LEMMA InvInit == Init => IInv
<1> SUFFICES ASSUME Init PROVE IInv
  OBVIOUS
<1>1. TypeOK
  <2>1. /\ probe = ProbeIdle /\ probe.at = "idle" /\ probe.waiting = {}
        /\ read.at = "idle" /\ read.asked = {}
    BY DEF Init, ProbeIdle, ReadIdle
  <2>2. chain \in [Relays -> Chains] /\ moves \in 0..MaxMoves
    BY PoolAssumption DEF Init
  <2> QED BY <2>1, <2>2, PoolAssumption DEF Init, TypeOK
<1>2. Shape
  BY DEF Init, Shape, Reads, ProbeIdle, ReadIdle, NoHeights, NoDigests
<1>3. PinnedOnly /\ HeardTrue /\ HalfRead /\ Paired
  BY DEF Init, PinnedOnly, HeardTrue, HalfRead, Paired, Candidates, Trusted, ProbeIdle, ReadIdle
<1> QED BY <1>1, <1>2, <1>3 DEF IInv

-----------------------------------------------------------------------------
(* The steps, grouped by the part of the state they change.                  *)

LEMMA StepCases ==
  ASSUME [Next]_vars
  PROVE  \/ \E r \in Relays : VerifyAnswer(r)
         \/ \E r \in Relays : VerifyFails(r)
         \/ \E r \in Relays : HeightAnswer(r)
         \/ \E r \in Relays : DigestAnswer(r)
         \/ PinFirst \/ NoneValid \/ AskHeights \/ NoneVerified \/ AskDigests
         \/ NoneReachable \/ Conclude \/ VerifyRelays \/ Probe \/ Expires
         \/ Read \/ Delivered
         \/ \E call \in {"body", "digest"} : ReadEnds(call)
         \/ \E r \in Relays : Reorganises(r) /\ read.at # "done"
         \/ \E r \in Relays : Flips(r)
         \/ UNCHANGED vars
BY DEF Next, Continue, Answer, Settling

\* Every variable keeps its type, and the two records their shape: in four parts.
FlagsType ==
  /\ enabled \in [Relays -> BOOLEAN] /\ verified \in [Relays -> BOOLEAN]
  /\ healthy \in [Relays -> BOOLEAN] /\ genesisOf \in [Relays -> Blocks \cup {None}]
ProbeType ==
  /\ probe = [at |-> probe.at, waiting |-> probe.waiting,
              heights |-> probe.heights, digests |-> probe.digests]
  /\ probe.at \in {"idle", "verifyAll", "verify", "heights", "digests"}
  /\ probe.waiting \subseteq Relays /\ (probe.at = "idle" => probe = ProbeIdle)
  /\ probe.heights \in [Relays -> Int] /\ probe.digests = [r \in Relays |-> probe.digests[r]]
ReadType == read \in Reads /\ (read.at = "asked" => read.relay \in Relays)
RestType ==
  /\ chain \in [Relays -> Chains] /\ up \in [Relays -> BOOLEAN]
  /\ pinned \in Blocks \cup {None} /\ ready \in BOOLEAN /\ fresh \in BOOLEAN
  /\ moves \in 0..MaxMoves /\ still \in BOOLEAN /\ alone \in BOOLEAN /\ moved \in BOOLEAN

LEMMA TypeParts == TypeOK /\ Shape <=> FlagsType /\ ProbeType /\ ReadType /\ RestType
BY DEF TypeOK, Shape, FlagsType, ProbeType, ReadType, RestType, Reads

LEMMA ExceptBoolean ==
  ASSUME NEW f \in [Relays -> BOOLEAN], NEW r \in Relays, NEW b \in BOOLEAN
  PROVE  [f EXCEPT ![r] = b] \in [Relays -> BOOLEAN]
OBVIOUS

LEMMA FlagsStep ==
  ASSUME IInv, [Next]_vars
  PROVE  FlagsType'
<1>0. FlagsType /\ TypeOK /\ ProbeType /\ ReadType
  BY TypeParts DEF IInv
<1> USE <1>0
<1>1. CASE \E r \in Relays : VerifyAnswer(r)
  <2> PICK r \in Relays : VerifyAnswer(r)
    BY <1>1
  <2>1. chain[r][1] \in Blocks /\ WrongIdentity(r) \in BOOLEAN
    BY ServesBlocks, PoolAssumption DEF WrongIdentity
  <2> HIDE DEF WrongIdentity
  <2>2. (enabled[r] /\ ~WrongIdentity(r)) \in BOOLEAN
    OBVIOUS
  <2>3. genesisOf' \in [Relays -> Blocks \cup {None}]
    BY <2>1 DEF VerifyAnswer, FlagsType
  <2>4. enabled' \in [Relays -> BOOLEAN]
    BY <2>2, ExceptBoolean DEF VerifyAnswer, FlagsType
  <2>5. verified' \in [Relays -> BOOLEAN] /\ healthy' \in [Relays -> BOOLEAN]
    BY <2>1, ExceptBoolean DEF VerifyAnswer, FlagsType
  <2> QED BY <2>3, <2>4, <2>5 DEF FlagsType
<1>2. CASE \E r \in Relays : VerifyFails(r)
  BY <1>2 DEF VerifyFails, FlagsType
<1>3. CASE \E r \in Relays : HeightAnswer(r)
  BY <1>3 DEF HeightAnswer, FlagsType, TypeOK
<1>4. CASE \E r \in Relays : DigestAnswer(r)
  <2> PICK r \in Relays : DigestAnswer(r)
    BY <1>4
  <2> DEFINE hash == IF up[r] THEN BlockAt(r, CommonOf(Heard)) ELSE None
  <2>1. healthy' = [healthy EXCEPT ![r] = hash # None] /\ UNCHANGED <<enabled, verified, genesisOf>>
    BY DEF DigestAnswer
  <2> HIDE DEF hash
  <2> QED BY <2>1, ExceptBoolean DEF FlagsType
<1>5. CASE PinFirst
  BY <1>5 DEF PinFirst, FlagsType
<1>6. CASE \E call \in {"body", "digest"} : ReadEnds(call)
  <2>1. healthy' = [healthy EXCEPT ![read.relay] = up[read.relay]] /\ UNCHANGED <<enabled, verified, genesisOf>>
        /\ read.relay \in Relays
    BY <1>6 DEF ReadEnds, ReadType
  <2> QED BY <2>1 DEF FlagsType, TypeOK
<1>7. CASE UNCHANGED flagVars
  BY <1>7 DEF FlagsType, flagVars
<1>8. \/ \E r \in Relays : VerifyAnswer(r) \/ VerifyFails(r) \/ HeightAnswer(r) \/ DigestAnswer(r)
      \/ PinFirst \/ \E call \in {"body", "digest"} : ReadEnds(call)
      \/ UNCHANGED flagVars
  BY StepCases DEF NoneValid, AskHeights, NoneVerified, AskDigests, NoneReachable, Conclude,
     VerifyRelays, Probe, Expires, Read, Delivered, Reorganises, Flips, Moves, Abort, vars
<1> QED BY <1>1, <1>2, <1>3, <1>4, <1>5, <1>6, <1>7, <1>8

LEMMA ProbeStep ==
  ASSUME IInv, [Next]_vars
  PROVE  ProbeType'
<1>0. ProbeType /\ TypeOK
  BY TypeParts DEF IInv
<1> USE <1>0 DEF Enter, Answered
<1>1. CASE \E r \in Relays : VerifyAnswer(r) \/ VerifyFails(r)
  BY <1>1 DEF VerifyAnswer, VerifyFails, ProbeType
<1>2. CASE \E r \in Relays : HeightAnswer(r)
  <2> PICK r \in Relays : HeightAnswer(r)
    BY <1>2
  <2> DEFINE height == IF up[r] THEN Height(chain[r]) ELSE -1
  <2>1. height \in Int
    BY ServesBlocks
  <2>2. probe' = [probe EXCEPT !.waiting = probe.waiting \ {r}, !.heights[r] = height] /\ probe.at = "heights"
    BY DEF HeightAnswer
  <2> HIDE DEF height
  <2> QED BY <2>1, <2>2 DEF ProbeType
<1>3. CASE \E r \in Relays : DigestAnswer(r)
  <2> PICK r \in Relays : DigestAnswer(r)
    BY <1>3
  <2> DEFINE hash == IF up[r] THEN BlockAt(r, CommonOf(Heard)) ELSE None
  <2>1. probe' = [probe EXCEPT !.waiting = probe.waiting \ {r}, !.digests[r] = hash] /\ probe.at = "digests"
    BY DEF DigestAnswer
  <2> HIDE DEF hash
  <2> QED BY <2>1 DEF ProbeType
<1>4. CASE PinFirst
  BY <1>4 DEF PinFirst, Pending, ProbeType
<1>5. CASE EndProbe
  BY <1>5 DEF EndProbe, ProbeType, ProbeIdle, NoHeights, NoDigests
<1>6. CASE AskHeights \/ AskDigests \/ VerifyRelays \/ Probe
  BY <1>6 DEF AskHeights, AskDigests, VerifyRelays, Probe, Pending, Candidates, Heard, ProbeType
<1>7. CASE UNCHANGED probe
  BY <1>7 DEF ProbeType
<1>8. \/ \E r \in Relays : VerifyAnswer(r) \/ VerifyFails(r) \/ HeightAnswer(r) \/ DigestAnswer(r)
      \/ PinFirst \/ EndProbe \/ AskHeights \/ AskDigests \/ VerifyRelays \/ Probe
      \/ UNCHANGED probe
  BY StepCases DEF NoneValid, NoneVerified, NoneReachable, Conclude, Expires, Read, Delivered,
     ReadEnds, Reorganises, Flips, Moves, Abort, vars
<1> QED BY <1>1, <1>2, <1>3, <1>4, <1>5, <1>6, <1>7, <1>8

LEMMA ReadTypeStep ==
  ASSUME IInv, [Next]_vars
  PROVE  ReadType'
<1>0. ReadType /\ TypeOK
  BY TypeParts DEF IInv
<1> USE <1>0
<1>1. CASE \E call \in {"body", "digest"} : ReadEnds(call)
  <2> PICK call \in {"body", "digest"} : ReadEnds(call)
    BY <1>1
  <2> DEFINE block == BlockAt(read.relay, ReadHeight)
             got == [read EXCEPT !.body = IF call = "body" THEN block ELSE read.body,
                                 !.digest = IF call = "digest" THEN block ELSE read.digest,
                                 !.asked = read.asked \ {call}]
  <2>1. read.relay \in Relays /\ block \in Blocks \cup {None}
    BY ServesBlocks, PoolAssumption DEF ReadEnds, ReadType
  <2>2. NextCandidate \/ read' = got \/ read' = [got EXCEPT !.at = "done", !.left = {}]
    BY DEF ReadEnds
  <2>3. NextCandidate => ReadType'
    BY DEF NextCandidate, GiveUp, Ask, ReadType, Reads, ReadIdle
  <2> HIDE DEF block
  <2>4. got \in Reads /\ got.relay = read.relay /\ [got EXCEPT !.at = "done", !.left = {}] \in Reads
        /\ [got EXCEPT !.at = "done", !.left = {}].at = "done"
    BY <2>1 DEF ReadType, Reads
  <2> HIDE DEF got
  <2> QED BY <2>1, <2>2, <2>3, <2>4 DEF ReadType
<1>2. CASE Read \/ Delivered
  BY <1>2 DEF Read, Delivered, Ask, ReadType, Reads, ReadIdle, Candidates
<1>3. CASE UNCHANGED read
  BY <1>3 DEF ReadType
<1>4. \/ \E call \in {"body", "digest"} : ReadEnds(call)
      \/ Read \/ Delivered \/ UNCHANGED read
  BY StepCases DEF VerifyAnswer, VerifyFails, HeightAnswer, DigestAnswer, PinFirst, NoneValid,
     AskHeights, NoneVerified, AskDigests, NoneReachable, Conclude, VerifyRelays, Probe, Expires,
     Reorganises, Flips, Moves, Abort, vars
<1> QED BY <1>1, <1>2, <1>3, <1>4

LEMMA RestStep ==
  ASSUME IInv, [Next]_vars
  PROVE  RestType'
<1>0. RestType /\ FlagsType
  BY TypeParts DEF IInv
<1> USE <1>0 DEF relayVars, poolVars
<1>1. CASE PinFirst
  <2>1. \E g \in IF pinned # None THEN {pinned} ELSE {genesisOf[r] : r \in Candidates} : pinned' = g
    BY <1>1 DEF PinFirst
  <2>2. pinned' \in Blocks \cup {None}
    BY <2>1 DEF RestType, FlagsType, Candidates
  <2>3. UNCHANGED <<chain, up, moves, still, alone, moved>> /\ ready' = TRUE /\ fresh' = FALSE
    BY <1>1 DEF PinFirst
  <2> QED BY <2>2, <2>3 DEF RestType
<1>2. CASE Conclude
  BY <1>2 DEF Conclude, EndProbe, RestType
<1>3. CASE \E call \in {"body", "digest"} : ReadEnds(call)
  <2>1. UNCHANGED <<chain, up, pinned, ready, fresh, moves, still>> /\ alone' \in BOOLEAN
    BY <1>3 DEF ReadEnds
  <2>2. moved' \in BOOLEAN
    BY <1>3 DEF ReadEnds, NextCandidate, GiveUp, Ask, RestType
  <2> QED BY <2>1, <2>2 DEF RestType
<1>4. CASE \E r \in Relays : Reorganises(r) \/ Flips(r)
  <2>1. PICK r \in Relays : Reorganises(r) \/ Flips(r)
    BY <1>4
  <2>2. chain' \in [Relays -> Chains] /\ still' \in BOOLEAN /\ moved' \in BOOLEAN
    BY <2>1 DEF Reorganises, Flips, RestType
  <2>3. up' \in [Relays -> BOOLEAN]
    BY <2>1, ExceptBoolean DEF Reorganises, Flips, RestType
  <2>4. moves' \in 0..MaxMoves /\ UNCHANGED <<pinned, ready, fresh, alone>>
    BY <2>1, PoolAssumption DEF Reorganises, Flips, Moves, RestType
  <2> QED BY <2>2, <2>3, <2>4 DEF RestType
<1>5. CASE Read \/ Delivered \/ Expires
  BY <1>5 DEF Read, Delivered, Expires, Ask, RestType
<1>6. CASE Abort
  BY <1>6 DEF Abort, EndProbe, RestType
<1>7. CASE UNCHANGED <<chain, up, pinned, ready, fresh, moves, still, alone, moved>>
  BY <1>7 DEF RestType
<1>8. \/ PinFirst \/ Conclude \/ \E call \in {"body", "digest"} : ReadEnds(call)
      \/ \E r \in Relays : Reorganises(r) \/ Flips(r)
      \/ Read \/ Delivered \/ Expires \/ Abort
      \/ UNCHANGED <<chain, up, pinned, ready, fresh, moves, still, alone, moved>>
  BY StepCases DEF VerifyAnswer, VerifyFails, HeightAnswer, DigestAnswer, NoneValid,
     AskHeights, NoneVerified, AskDigests, NoneReachable, VerifyRelays, Probe, vars
<1> QED BY <1>1, <1>2, <1>3, <1>4, <1>5, <1>6, <1>7, <1>8

LEMMA TypeStep ==
  ASSUME IInv, [Next]_vars
  PROVE  TypeOK' /\ Shape'
<1>1. (FlagsType /\ ProbeType /\ ReadType /\ RestType)'
  BY FlagsStep, ProbeStep, ReadTypeStep, RestStep
<1>2. TypeOK'
  BY <1>1 DEF TypeOK, FlagsType, ProbeType, ReadType, RestType, Reads, ProbeIdle, NoHeights, NoDigests
<1>3. Shape'
  BY <1>1 DEF Shape, ProbeType, ReadType
<1> QED BY <1>2, <1>3

\* A relay becomes a candidate only with the genesis that is pinned, and whoever
\* had another one when the pin was set is quarantined with that step.
LEMMA PinnedStep ==
  ASSUME IInv, [Next]_vars
  PROVE  PinnedOnly'
<1> USE DEF IInv, TypeOK, PinnedOnly, Candidates, Trusted, relayVars, flagVars, poolVars
<1>1. CASE \E r \in Relays : VerifyAnswer(r)
  <2> PICK r \in Relays : VerifyAnswer(r)
    BY <1>1
  <2>1. \A s \in Relays \ {r} : /\ enabled'[s] = enabled[s] /\ verified'[s] = verified[s]
                                /\ genesisOf'[s] = genesisOf[s]
    BY DEF VerifyAnswer
  <2>2. verified'[r] => pinned \in {None, chain[r][1]}
    BY DEF VerifyAnswer, WrongIdentity
  <2>3. genesisOf'[r] = chain[r][1] /\ pinned' = pinned
    BY DEF VerifyAnswer
  <2> QED BY <2>1, <2>2, <2>3
<1>2. CASE \E r \in Relays : VerifyFails(r)
  BY <1>2 DEF VerifyFails
<1>3. CASE PinFirst
  BY <1>3 DEF PinFirst
<1>4. CASE UNCHANGED <<enabled, verified, genesisOf, pinned>>
  BY <1>4
<1>5. \/ \E r \in Relays : VerifyAnswer(r)
      \/ \E r \in Relays : VerifyFails(r)
      \/ PinFirst
      \/ UNCHANGED <<enabled, verified, genesisOf, pinned>>
  BY StepCases DEF HeightAnswer, DigestAnswer, NoneValid, AskHeights, NoneVerified, AskDigests,
       NoneReachable, Conclude, VerifyRelays, Probe, Expires, Read, Delivered, ReadEnds,
       Reorganises, Flips, Moves, Abort, vars
<1> QED BY <1>1, <1>2, <1>3, <1>4, <1>5

\* What the probe has heard stays true of relays that stand still.
LEMMA HeardStep ==
  ASSUME IInv, [Next]_vars
  PROVE  HeardTrue'
<1> USE DEF IInv, TypeOK, Shape, relayVars, flagVars, poolVars, Enter, Answered
<1>1. CASE \E r \in Relays : VerifyAnswer(r)
  BY <1>1 DEF VerifyAnswer, HeardTrue
<1>2. CASE \E r \in Relays : VerifyFails(r)
  BY <1>2 DEF VerifyFails, HeardTrue
<1>3. CASE \E r \in Relays : HeightAnswer(r)
  BY <1>3 DEF HeightAnswer, HeardTrue
<1>4. CASE \E r \in Relays : DigestAnswer(r)
  <2> PICK r \in Relays : DigestAnswer(r)
    BY <1>4
  <2>1. /\ probe.at = "digests" /\ probe'.at = "digests" /\ chain' = chain
        /\ UNCHANGED <<still, alone>> /\ probe'.heights = probe.heights
        /\ probe'.waiting = probe.waiting \ {r}
    BY DEF DigestAnswer
  <2>2. Heard' = Heard /\ CommonOf(Heard)' = CommonOf(Heard)
    BY <2>1 DEF Heard, CommonOf
  <2>3. \A s \in Relays : \A h : BlockAt(s, h)' = BlockAt(s, h)
    BY <2>1 DEF BlockAt
  <2> DEFINE hash == IF up[r] THEN BlockAt(r, CommonOf(Heard)) ELSE None
  <2>4. /\ probe'.digests = [probe.digests EXCEPT ![r] = hash]
        /\ healthy' = [healthy EXCEPT ![r] = hash # None]
    BY DEF DigestAnswer
  <2>5. ASSUME still', NEW s \in Relays, probe'.digests[s] # None
        PROVE  probe'.digests[s] = BlockAt(s, CommonOf(Heard))'
    <3>1. CASE s = r
      BY <3>1, <2>4, <2>5, <2>2, <2>3
    <3>2. CASE s # r
      BY <3>2, <2>4, <2>5, <2>2, <2>3, <2>1 DEF HeardTrue
    <3> QED BY <3>1, <3>2
  <2>6. ASSUME alone', NEW s \in Heard' \ probe'.waiting, healthy'[s]
        PROVE  probe'.digests[s] # None
    <3> s \in Relays
      BY DEF Heard
    <3>1. CASE s = r
      BY <3>1, <2>4, <2>6
    <3>2. CASE s # r
      BY <3>2, <2>4, <2>6, <2>1, <2>2 DEF HeardTrue
    <3> QED BY <3>1, <3>2
  <2> QED BY <2>1, <2>5, <2>6 DEF HeardTrue
<1>5. CASE PinFirst
  <2>1. \E at, waiting : at = "verify" /\ probe' = [probe EXCEPT !.at = at, !.waiting = waiting]
    BY <1>5 DEF PinFirst
  <2>2. probe'.at = "verify" /\ probe'.heights = probe.heights /\ probe'.digests = probe.digests
    BY <2>1
  <2>3. probe.at = "verifyAll"
    BY <1>5 DEF PinFirst
  <2> QED BY <2>2, <2>3 DEF HeardTrue, NoHeights, NoDigests
<1>6. CASE NoneValid \/ NoneVerified \/ NoneReachable \/ Conclude
  BY <1>6 DEF NoneValid, NoneVerified, NoneReachable, Conclude, Abort, EndProbe, ProbeIdle, HeardTrue
<1>7. CASE AskHeights \/ VerifyRelays \/ Probe
  <2>1. probe'.heights = probe.heights /\ probe'.digests = probe.digests
    BY <1>7 DEF AskHeights, VerifyRelays, Probe
  <2>2. CASE AskHeights
    BY <2>1, <2>2 DEF AskHeights, HeardTrue
  <2>3. CASE VerifyRelays \/ Probe
    <3>1. probe = ProbeIdle /\ probe'.at \in {"verifyAll", "verify"}
      BY <2>3 DEF VerifyRelays, Probe
    <3> QED BY <2>1, <3>1 DEF HeardTrue, ProbeIdle
  <2> QED BY <1>7, <2>2, <2>3
<1>8. CASE AskDigests
  BY <1>8 DEF AskDigests, HeardTrue, NoDigests, Heard
<1>9. CASE \E call \in {"body", "digest"} : ReadEnds(call)
  <2>1. UNCHANGED <<chain, probe, still>> /\ alone' = (probe.at = "idle")
    BY <1>9 DEF ReadEnds
  <2> QED BY <2>1 DEF HeardTrue, Heard, CommonOf, BlockAt
<1>10. CASE \E r \in Relays : Reorganises(r) /\ read.at # "done"
  <2>1. UNCHANGED <<probe, healthy, alone>> /\ still' = (probe.at = "idle")
    BY <1>10 DEF Reorganises, Moves
  <2> QED BY <2>1 DEF HeardTrue, Heard
<1>11. CASE UNCHANGED <<chain, probe, still, alone, healthy>>
  BY <1>11 DEF HeardTrue, Heard, CommonOf, BlockAt
<1>12. ASSUME Expires \/ Read \/ Delivered \/ (\E r \in Relays : Flips(r)) \/ UNCHANGED vars
       PROVE  UNCHANGED <<chain, probe, still, alone, healthy>>
  BY <1>12 DEF Expires, Read, Delivered, Flips, Moves, vars
<1> QED BY <1>1, <1>2, <1>3, <1>4, <1>5, <1>6, <1>7, <1>8, <1>9, <1>10, <1>11, <1>12, StepCases

\* Each half of a read is what its relay serves; when a call fails both halves are
\* asked of the next candidate.
LEMMA ReadStep ==
  ASSUME IInv, [Next]_vars
  PROVE  HalfRead' /\ Paired'
<1> USE DEF IInv, TypeOK, Shape, Reads, relayVars, flagVars, poolVars
<1>1. CASE \E call \in {"body", "digest"} : ReadEnds(call)
  <2> PICK call \in {"body", "digest"} : ReadEnds(call)
    BY <1>1
  <2> DEFINE block == BlockAt(read.relay, ReadHeight)
             got == [read EXCEPT !.body = IF call = "body" THEN block ELSE @,
                                 !.digest = IF call = "digest" THEN block ELSE @,
                                 !.asked = @ \ {call}]
  <2>1. read.at = "asked" /\ chain' = chain /\ read.relay \in Relays
    BY DEF ReadEnds
  <2>2. \A r, h : BlockAt(r, h)' = BlockAt(r, h)
    BY <2>1 DEF BlockAt
  <2>3. \/ NextCandidate
        \/ got.asked # {} /\ read' = got /\ UNCHANGED moved
        \/ got.asked = {} /\ read' = [got EXCEPT !.at = "done", !.left = {}] /\ UNCHANGED moved
    BY DEF ReadEnds
  <2>4. CASE NextCandidate
    BY <2>4 DEF NextCandidate, GiveUp, Ask, ReadIdle, HalfRead, Paired
  <2>5. ~moved => /\ "body" \in got.asked \/ got.body = block
                  /\ "digest" \in got.asked \/ got.digest = block
    BY <2>1 DEF HalfRead
  <2>6. CASE got.asked # {} /\ read' = got /\ UNCHANGED moved
    <3>1. got.at = "asked" /\ got.relay = read.relay
      BY <2>1
    <3> HIDE DEF got
    <3> QED BY <2>6, <2>5, <2>2, <3>1 DEF HalfRead, Paired
  <2>7. CASE got.asked = {} /\ read' = [got EXCEPT !.at = "done", !.left = {}] /\ UNCHANGED moved
    <3>1. read'.at = "done" /\ read'.body = got.body /\ read'.digest = got.digest
      BY <2>7
    <3> HIDE DEF got
    <3> QED BY <2>7, <2>5, <3>1 DEF HalfRead, Paired
  <2> QED BY <2>3, <2>4, <2>6, <2>7
<1>2. CASE Read \/ Delivered
  BY <1>2 DEF Read, Delivered, Ask, ReadIdle, HalfRead, Paired
<1>3. CASE \E r \in Relays : Reorganises(r) /\ read.at # "done"
  <2>1. read' = read /\ moved' = (read.at = "asked") /\ read.at # "done"
    BY <1>3 DEF Reorganises, Moves
  <2> QED BY <2>1 DEF HalfRead, Paired
<1>4. CASE UNCHANGED <<chain, read, moved>>
  BY <1>4 DEF HalfRead, Paired, BlockAt
<1>5. ASSUME \/ \E r \in Relays : VerifyAnswer(r)
             \/ \E r \in Relays : VerifyFails(r)
             \/ \E r \in Relays : HeightAnswer(r)
             \/ \E r \in Relays : DigestAnswer(r)
             \/ PinFirst \/ NoneValid \/ AskHeights \/ NoneVerified \/ AskDigests
             \/ NoneReachable \/ Conclude \/ VerifyRelays \/ Probe \/ Expires
             \/ \E r \in Relays : Flips(r)
             \/ UNCHANGED vars
      PROVE  UNCHANGED <<chain, read, moved>>
  BY <1>5 DEF VerifyAnswer, VerifyFails, HeightAnswer, DigestAnswer, PinFirst, NoneValid, AskHeights,
       NoneVerified, AskDigests, NoneReachable, Conclude, VerifyRelays, Probe, Expires, Flips,
       Moves, Abort, vars
<1> QED BY <1>1, <1>2, <1>3, <1>4, <1>5, StepCases

LEMMA InvStep == IInv /\ [Next]_vars => IInv'
BY TypeStep, PinnedStep, HeardStep, ReadStep DEF IInv

LEMMA Invariance == Spec => []IInv
BY InvInit, InvStep, PTL DEF Spec

\* Only relays known to be of the pinned identity are used (rpc.js: _verifyRelay,
\* verifyRelays), for any relays and however often they change their chains.
THEOREM PoolCorrect == Spec => []PoolSound
<1>1. IInv => PoolSound
  BY DEF IInv, PoolSound
<1> QED BY <1>1, Invariance, PTL

\* A block is paired with its own digest (rpc.js: blockWithDigest), for any relays.
THEOREM PairedCorrect == Spec => []Paired
<1>1. IInv => Paired
  BY DEF IInv
<1> QED BY <1>1, Invariance, PTL

-----------------------------------------------------------------------------
(* What a result says.                                                       *)

LEMMA TwoElements ==
  ASSUME NEW S, IsFiniteSet(S)
  PROVE  /\ Cardinality(S) \in Nat
         /\ Cardinality(S) >= 2 <=> \E x, y \in S : x # y
<1>1. Cardinality(S) \in Nat
  BY FS_CardinalityType
<1>2. CASE S = {}
  BY <1>2, FS_EmptySet
<1>3. CASE S # {}
  <2> PICK x \in S : TRUE
    BY <1>3
  <2>1. IsFiniteSet(S \ {x}) /\ Cardinality(S \ {x}) = Cardinality(S) - 1
    BY FS_RemoveElement
  <2>2. Cardinality(S \ {x}) \in Nat /\ (Cardinality(S \ {x}) = 0 <=> S \ {x} = {})
    BY <2>1, FS_EmptySet, FS_CardinalityType
  <2>3. S \ {x} = {} <=> ~ \E y, z \in S : y # z
    OBVIOUS
  <2> QED BY <1>1, <2>1, <2>2, <2>3
<1> QED BY <1>2, <1>3

\* The sets a verdict counts are finite.
LEMMA CountedFinite ==
  /\ IsFiniteSet(Heard) /\ IsFiniteSet(Compared) /\ IsFiniteSet(Hashes)
  /\ \A S : S \subseteq Heard => IsFiniteSet(S)
<1>1. Heard \subseteq Relays /\ Compared \subseteq Relays
  BY DEF Heard, Compared
<1>2. \A S : S \subseteq Relays => IsFiniteSet(S)
  BY FS_Subset, PoolAssumption
<1> DEFINE f == [r \in Compared |-> probe.digests[r]]
<1>3. f \in Surjection(Compared, Hashes)
  BY DEF Surjection, Hashes
<1>4. IsFiniteSet(Hashes)
  BY <1>1, <1>2, <1>3, FS_Surjection
<1> QED BY <1>1, <1>2, <1>4

\* Before the digests are asked for, nothing has been compared.
LEMMA NothingCompared ==
  ASSUME IInv, probe.at = "heights"
  PROVE  Verdict = "unknown"
<1>1. Compared = {}
  BY DEF IInv, HeardTrue, NoDigests, Compared
<1> QED BY <1>1, FS_EmptySet DEF Verdict

\* A result is written by Conclude, and says what the probe has compared.
LEMMA ResultWritten ==
  ASSUME IInv, [Next]_vars, result' # result, NEW active, active = {r \in Heard : healthy[r]}
  PROVE  /\ probe.waiting = {}
         /\ probe.at = "digests" \/ (probe.at = "heights" /\ Cardinality(Heard) = 1)
         /\ result'.active = active /\ result'.verdict = Verdict /\ result'.degraded = Degraded(active)
         /\ result'.common = CommonOf(IF Cardinality(active) < 2 THEN active ELSE Heard)
<1>1. Conclude
  BY StepCases DEF VerifyAnswer, VerifyFails, HeightAnswer, DigestAnswer, PinFirst, NoneValid,
     AskHeights, NoneVerified, AskDigests, NoneReachable, VerifyRelays, Probe, Expires, Read,
     Delivered, ReadEnds, Reorganises, Flips, Moves, Abort, poolVars, vars
<1> QED BY <1>1 DEF Conclude

LEMMA CrossStep ==
  ASSUME IInv, [Next]_vars, result' # result, still, ~result'.degraded
  PROVE  \E r, s \in Relays : r # s /\ BlockAt(r, result'.common) = BlockAt(s, result'.common)
                               /\ BlockAt(r, result'.common) # None
<1> DEFINE active == {r \in Heard : healthy[r]}
<1>1. active \subseteq Heard /\ IsFiniteSet(active) /\ Cardinality(active) \in Nat
  BY CountedFinite, TwoElements
<1>2. ~Degraded(active) /\ result'.common = CommonOf(IF Cardinality(active) < 2 THEN active ELSE Heard)
      /\ (probe.at = "digests" \/ probe.at = "heights")
  BY ResultWritten
<1>3. Cardinality(active) >= 2 /\ Verdict = "agree"
  BY <1>2 DEF Degraded
<1>4. result'.common = CommonOf(Heard)
  BY <1>1, <1>2, <1>3
<1>5. probe.at = "digests"
  BY <1>2, <1>3, NothingCompared
<1>6. Cardinality(Compared) >= 2 /\ Cardinality(Hashes) = 1
  BY <1>3, CountedFinite, TwoElements DEF Verdict
<1>7. PICK r, s \in Compared : r # s
  BY <1>6, CountedFinite, TwoElements
<1>8. probe.digests[r] = probe.digests[s]
  BY <1>6, CountedFinite, TwoElements DEF Hashes
<1>9. /\ r \in Relays /\ probe.digests[r] # None /\ probe.digests[r] = BlockAt(r, CommonOf(Heard))
      /\ s \in Relays /\ probe.digests[s] = BlockAt(s, CommonOf(Heard))
  BY <1>5 DEF IInv, HeardTrue, Compared
<1> QED BY <1>4, <1>7, <1>8, <1>9

LEMMA ForkStep ==
  ASSUME IInv, [Next]_vars, result' # result, still, alone, Disagree(result'.active, result'.common)
  PROVE  result'.verdict = "differ"
<1> DEFINE active == {r \in Heard : healthy[r]}
<1>1. active \subseteq Heard /\ IsFiniteSet(active) /\ IsFiniteSet(Heard)
  BY CountedFinite
<1>2. /\ result'.active = active /\ result'.verdict = Verdict /\ probe.waiting = {}
      /\ probe.at = "digests" \/ (probe.at = "heights" /\ Cardinality(Heard) = 1)
      /\ result'.common = CommonOf(IF Cardinality(active) < 2 THEN active ELSE Heard)
  BY ResultWritten
<1> DEFINE h == result'.common
<1>3. PICK r, s \in active : /\ None \notin {BlockAt(r, h), BlockAt(s, h)}
                             /\ BlockAt(r, h) # BlockAt(s, h)
  BY <1>2 DEF Disagree
<1>4. Cardinality(active) >= 2 /\ Cardinality(active) \in Nat /\ Cardinality(Heard) >= 2
  BY <1>1, <1>3, TwoElements
<1>5. h = CommonOf(Heard) /\ probe.at = "digests"
  BY <1>1, <1>2, <1>4, TwoElements
<1>6. /\ r \in Relays /\ probe.digests[r] # None /\ probe.digests[r] = BlockAt(r, h)
      /\ s \in Relays /\ probe.digests[s] # None /\ probe.digests[s] = BlockAt(s, h)
  BY <1>2, <1>5 DEF IInv, HeardTrue, Heard
<1>7. r \in Compared /\ s \in Compared /\ r # s /\ probe.digests[r] # probe.digests[s]
  BY <1>3, <1>6 DEF Compared
<1>8. Cardinality(Compared) >= 2 /\ Cardinality(Compared) \in Nat
  BY <1>7, CountedFinite, TwoElements
<1>9. Cardinality(Hashes) >= 2 /\ Cardinality(Hashes) \in Nat
  <2>1. probe.digests[r] \in Hashes /\ probe.digests[s] \in Hashes
    BY <1>7 DEF Hashes
  <2> QED BY <2>1, <1>7, CountedFinite, TwoElements
<1> QED BY <1>2, <1>8, <1>9 DEF Verdict

\* A probe (rpc.js: probe) says neither more nor less than it has compared, for any
\* relays: two sources stand behind a result that is not degraded, and a fork among
\* the active relays is noticed.
THEOREM ResultCorrect == Spec => ResultHonest
<1>1. IInv /\ [Next]_vars => [result' # result /\ still /\ ~result'.degraded =>
         \E r, s \in Relays : r # s /\ BlockAt(r, result'.common) = BlockAt(s, result'.common)
                               /\ BlockAt(r, result'.common) # None]_vars
  BY CrossStep
<1>2. IInv /\ [Next]_vars => [result' # result /\ still /\ alone /\ Disagree(result'.active, result'.common) =>
         result'.verdict = "differ"]_vars
  BY ForkStep
<1> QED BY <1>1, <1>2, Invariance, PTL DEF Spec, ResultHonest, CrossChecked, ForkNoticed

=============================================================================
