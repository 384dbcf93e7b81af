------------------------------ MODULE Metrics ------------------------------
(* The request counters of src/src/metrics.js.  The maps hold a bounded      *)
(* number of series; what does not fit is counted under one more.            *)
EXTENDS Sums

CONSTANTS Routes, Statuses,
          Overflow,              \* the series for all others
          MaxSeries, MaxTimings  \* bounds of the two maps

ASSUME MetricsAssumption ==
  Overflow \notin Routes \cup (Routes \X Statuses) /\ MaxSeries \in Nat /\ MaxTimings \in Nat

VARIABLES
  requests,        \* Metrics.requests, by route and status
  requestSeconds,  \* the counts of Metrics.requestSeconds, by route
  finished         \* history: responses finished, by route and status

metricVars == <<requests, requestSeconds, finished>>

MetricsInit ==
  /\ requests = [s \in {} |-> 0] /\ requestSeconds = [s \in {} |-> 0]
  /\ finished = [s \in Routes \X Statuses |-> 0]

Plus(map, key) ==
  [x \in DOMAIN map \cup {key} |-> IF x # key THEN map[x] ELSE IF x \in DOMAIN map THEN map[x] + 1 ELSE 1]
\* _increment: a series keeps its place for good, a new one needs room.
IncrementLate(map, key, max) ==  \* mutant: the room is checked after the series is added
  LET bounded == IF key \in DOMAIN map \/ Cardinality(DOMAIN map) <= max THEN key ELSE Overflow
  IN Plus(map, bounded)
Increment(map, key, max) ==
  LET bounded == IF key \in DOMAIN map \/ Cardinality(DOMAIN map) < max THEN key ELSE Overflow
  IN Plus(map, bounded)

ObserveRequest(route, status) ==
  /\ requests' = Increment(requests, <<route, status>>, MaxSeries)
  /\ requestSeconds' = Increment(requestSeconds, route, MaxTimings)
  /\ finished' = [finished EXCEPT ![<<route, status>>] = @ + 1]

-----------------------------------------------------------------------------
\* Every response that finished is counted once in both maps; a series that has a
\* place of its own counts all of its responses; neither map outgrows its bound.
CountersExact ==
  /\ SumOf(requests) = SumOf(finished)
  /\ SumOf(requestSeconds) = SumOf(finished)
  /\ \A s \in DOMAIN requests \ {Overflow} : requests[s] = finished[s]
  /\ \A r \in DOMAIN requestSeconds \ {Overflow} :
       requestSeconds[r] = SumOf([t \in Statuses |-> finished[<<r, t>>]])
  /\ Cardinality(DOMAIN requests) <= MaxSeries + 1
  /\ Cardinality(DOMAIN requestSeconds) <= MaxTimings + 1
=============================================================================
