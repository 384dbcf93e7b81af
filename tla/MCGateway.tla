----------------------------- MODULE MCGateway -----------------------------
EXTENDS Gateway
CONSTANTS a, b

TheRoutes == {"api", "graphql", "page"}
TheStatuses == {"ok", "refused"}
One == [k \in {"http", "graphql"} |-> 1]

\* The clock meets neither the counters nor the life of the process: it moves
\* only while they stand at their beginning.
ClockApart ==
  now # 0 \/ stepped =>
    phase = "listening" /\ started = "running" /\ archive = "none" /\ DOMAIN requests = {}
=============================================================================
