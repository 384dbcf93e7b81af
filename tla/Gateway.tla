------------------------------ MODULE Gateway ------------------------------
(* The HTTP side of one process (src/src/server.js): what becomes of each    *)
(* request, from the rate gate to the counters, and how the process stops.   *)
(* Routes are "api", "graphql" and "page" (everything else); the statuses    *)
(* are two classes, 2xx "ok" and the rest "refused".                         *)
EXTENDS RateGate, Metrics

CONSTANTS Slots,        \* connections with a request at a time
          MaxRequests,  \* requests ever (bound)
          Signals

ASSUME GatewayAssumption ==
  /\ {"http", "graphql"} \subseteq Kinds
  /\ {"page", "graphql"} \subseteq Routes /\ {"ok", "refused"} \subseteq Statuses
  /\ MaxRequests \in Nat

VARIABLES
  req,       \* per slot the request: its route, where it stands, its status
  phase,     \* "listening", "closing", "exited"
  started,   \* startRuntime: "running", "done", "failed"
  archive,   \* "none", "open", "closed"
  handlers,  \* signals whose handler has not run
  arrived,   \* requests so far
  code,      \* the exit code, -1 while the process lives
  shutdowns  \* history: calls of shutdown

processVars == <<phase, started, archive, handlers, code, shutdowns>>
gatewayVars == <<gateVars, metricVars, processVars, req, arrived>>

Free == [route |-> "page", at |-> "free", status |-> "ok"]
At(r, place) == [route |-> r, at |-> place, status |-> "ok"]
Sent(r, status) == [route |-> r, at |-> "sent", status |-> status]
Busy(s) == req[s] # Free

GatewayInit ==
  /\ GateInit /\ MetricsInit
  /\ req = [s \in Slots |-> Free] /\ arrived = 0
  /\ phase = "listening" /\ started = "running" /\ archive \in {"none", "open"}
  /\ handlers = Signals /\ code = -1 /\ shutdowns = 0

-----------------------------------------------------------------------------
(* Requests.                                                                 *)

KindOf(r) == IF r = "graphql" THEN "graphql" ELSE "http"
Becomes(s, r) == req' = [req EXCEPT ![s] = r]

\* After the gate, up to the first await.  A graphql request needs a key
\* (authorizeApi, rejected or not), a network and a POST, then waits for its
\* body; an api request may do without a key, and needs a network that is live;
\* a page is answered at once (OPTIONS, healthz, networks) or read from disk.
Routed(r) ==
  CASE r = "graphql" -> {At(r, "body"), Sent(r, "refused")}
    [] r = "api" -> {At(r, "work"), Sent(r, "refused")}
    [] OTHER -> {At(r, "work"), Sent(r, "ok"), Sent(r, "refused")}

\* handleRequest.  A malformed URL and /metrics do not reach the gate.
Arrive(s) ==
  /\ phase = "listening" /\ ~Busy(s) /\ arrived < MaxRequests
  /\ arrived' = arrived + 1
  /\ UNCHANGED <<metricVars, processVars>>
Ungated(s) ==
  /\ Arrive(s)
  /\ \E status \in {"ok", "refused"} : Becomes(s, Sent("page", status))
  /\ UNCHANGED gateVars
Gated(s, c, r) ==
  /\ Arrive(s)
  /\ \E verdict \in {"client", "global", "allowed"} :
       /\ Allow(c, KindOf(r), verdict)
       /\ \E q \in IF verdict = "allowed" THEN Routed(r) ELSE {Sent(r, "refused")} : Becomes(s, q)

Advances(s) == UNCHANGED <<gateVars, metricVars, processVars, arrived>>

\* readBody ends, with a body for execute, too late for a network that is not live
\* any more, or past its limit; or requestTimeout closes the connection.
BodyEnds(s) ==
  /\ req[s].at = "body"
  /\ \E q \in {At("graphql", "work"), Sent("graphql", "refused")} : Becomes(s, q)
  /\ Advances(s)
NoTimeout(s) == FALSE  \* mutant: no requestTimeout
BodyTimeout(s) ==
  /\ req[s].at = "body"
  /\ Becomes(s, Free)
  /\ Advances(s)

\* handleRest, executeGraphql or readFile ends; an error becomes an answer too.
Work(s) ==
  /\ req[s].at = "work"
  /\ \E status \in Statuses : Becomes(s, Sent(req[s].route, status))
  /\ Advances(s)

\* The response is out ("finish"), or the client leaves first.
Finish(s) ==
  /\ req[s].at = "sent"
  /\ ObserveRequest(req[s].route, req[s].status)
  /\ Becomes(s, Free)
  /\ UNCHANGED <<gateVars, processVars, arrived>>
Leaves(s) ==
  /\ Busy(s)
  /\ Becomes(s, Free)
  /\ Advances(s)

-----------------------------------------------------------------------------
(* The process.                                                              *)

Exit(c) == phase' = "exited" /\ code' = c

\* shutdown.  Closing the archive a second time throws, which ends the process; a
\* server that does not listen any more is not waited for.
ShutdownAtOnce ==  \* mutant: the process does not wait for open requests
  /\ shutdowns' = shutdowns + 1
  /\ archive' = IF archive = "open" THEN "closed" ELSE archive
  /\ Exit(0)
Shutdown ==
  /\ shutdowns' = shutdowns + 1
  /\ archive' = IF archive = "open" THEN "closed" ELSE archive
  /\ CASE archive = "closed" -> Exit(1)
       [] archive # "closed" /\ phase = "closing" -> Exit(0)
       [] OTHER -> phase' = "closing" /\ UNCHANGED code

StartupEnds(outcome) ==
  /\ phase # "exited" /\ started = "running"
  /\ started' = outcome
  /\ IF outcome = "failed" THEN Shutdown ELSE UNCHANGED <<phase, archive, code, shutdowns>>
  /\ UNCHANGED <<gateVars, metricVars, req, handlers, arrived>>

\* A handler runs once; the same signal again has its default effect.
Signal(sig) ==
  /\ phase # "exited"
  /\ handlers' = handlers \ {sig}
  /\ IF sig \in handlers THEN Shutdown ELSE Exit(2) /\ UNCHANGED <<archive, shutdowns>>
  /\ UNCHANGED <<gateVars, metricVars, started, req, arrived>>

Stopped(c) ==
  /\ Exit(c)
  /\ UNCHANGED <<gateVars, metricVars, req, started, archive, handlers, arrived, shutdowns>>
CloseDone ==
  /\ phase = "closing" /\ \A s \in Slots : ~Busy(s)
  /\ Stopped(0)
TimerWaits ==  \* mutant: the timer waits for the requests too
  /\ phase = "closing" /\ \A s \in Slots : ~Busy(s)
  /\ Stopped(1)
TimerFires ==
  /\ phase = "closing"
  /\ Stopped(1)

Lives == phase # "exited"
Progress(s) == Lives /\ (BodyTimeout(s) \/ Work(s))
GatewayNext ==
  \/ /\ Lives
     /\ \/ \E s \in Slots : BodyEnds(s) \/ BodyTimeout(s) \/ Work(s) \/ Finish(s) \/ Leaves(s)
        \/ \E s \in Slots : Ungated(s) \/ \E c \in Clients, r \in Routes : Gated(s, c, r)
        \/ /\ \E w \in 0..LastWindow : ClockMoves(w)
           /\ UNCHANGED <<metricVars, processVars, req, arrived>>
  \/ \E outcome \in {"done", "failed"} : StartupEnds(outcome)
  \/ \E sig \in Signals : Signal(sig)
  \/ CloseDone \/ TimerFires

GatewaySpec ==
  /\ GatewayInit /\ [][GatewayNext]_gatewayVars
  /\ WF_gatewayVars(TimerFires) /\ \A s \in Slots : WF_gatewayVars(Progress(s))

-----------------------------------------------------------------------------
(* Properties.                                                               *)

\* Every variable has its type.
GatewayTypeOK ==
  /\ GateTypeOK
  /\ req \in [Slots -> [route : Routes, at : {"free", "body", "work", "sent"}, status : Statuses]]
  /\ phase \in {"listening", "closing", "exited"} /\ started \in {"running", "done", "failed"}
  /\ archive \in {"none", "open", "closed"} /\ handlers \subseteq Signals
  /\ arrived \in 0..MaxRequests /\ code \in -1..2 /\ shutdowns \in Nat
  /\ finished \in [Routes \X Statuses -> Nat]

\* A process asked to stop once reports success only after every request it had
\* accepted was answered or given up by its client.
CleanExit == code = 0 /\ shutdowns = 1 => \A s \in Slots : ~Busy(s)

\* Together: what the process reports about its requests, by its exit code and by
\* its counters, is what became of them.
ReportsSound == GatewayTypeOK /\ CleanExit /\ CountersExact

\* Every request is answered, or dropped, in the end, whatever the client sends or
\* withholds, unless the process stops.
Answered == \A s \in Slots : req[s].at \in {"body", "work"} ~> req[s].at \in {"free", "sent"} \/ ~Lives

\* A process asked to stop does, though a client may never read its response.
StopsInTime == phase = "closing" ~> phase = "exited"
=============================================================================
