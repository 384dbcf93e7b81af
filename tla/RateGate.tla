------------------------------ MODULE RateGate ------------------------------
(* The process-wide request limiter (src/src/limits.js): fixed windows, one  *)
(* count per client and one for everyone, per class of request.              *)
EXTENDS Sums

CONSTANTS Clients, Kinds, Everyone,  \* Everyone stands for the global key
          ClientLimit, GlobalLimit,  \* functions on Kinds
          CleanupEvery,              \* operations between two cleanups
          LastWindow                 \* the clock stays within 0..LastWindow (bound)

ASSUME GateAssumption ==
  /\ Everyone \notin Clients /\ CleanupEvery \in Nat \ {0} /\ LastWindow \in Nat
  /\ ClientLimit \in [Kinds -> Nat \ {0}] /\ GlobalLimit \in [Kinds -> Nat \ {0}]

VARIABLES
  windows,     \* RateGate.windows
  operations,  \* RateGate.operations
  now,         \* the window of the wall clock
  \* History.
  granted,     \* requests admitted in window now, per client and kind
  swept,       \* the window of the last cleanup, -1 before the first
  stepped      \* the clock has stepped back

gateVars == <<windows, operations, now, granted, swept, stepped>>

Keys == (Clients \cup {Everyone}) \X Kinds
CountOf(w, key) == IF key \in DOMAIN w /\ w[key].window = now THEN w[key].count ELSE 0

GateInit ==
  /\ windows = [key \in {} |-> 0] /\ operations = 0 /\ now = 0
  /\ granted = [c \in Clients |-> [k \in Kinds |-> 0]] /\ swept = -1 /\ stepped = FALSE

BumpFromZero(w, key) ==  \* mutant: the first request of a window is not counted
  [x \in DOMAIN w \cup {key} |->
     IF x = key THEN [window |-> now, count |-> IF key \in DOMAIN w THEN CountOf(w, key) + 1 ELSE 0]
     ELSE w[x]]
Bump(w, key) ==
  [x \in DOMAIN w \cup {key} |->
     IF x = key THEN [window |-> now, count |-> CountOf(w, key) + 1] ELSE w[x]]

\* _cleanup drops the keys of windows that ended before the last one.
SweepNever(w) == w  \* mutant: nothing is dropped
Sweep(w) ==
  IF (operations + 1) % CleanupEvery = 0
    THEN [key \in {x \in DOMAIN w : w[x].window >= now - 1} |-> w[key]] ELSE w

\* allow: the client is counted first, everyone only when it is within its limit.
CountedGlobalFirst(c, k) ==  \* mutant: a refused client uses up the global allowance
  Bump(Bump(windows, <<Everyone, k>>), <<c, k>>)
Counted(c, k) ==
  LET own == Bump(windows, <<c, k>>)
  IN IF CountOf(own, <<c, k>>) <= ClientLimit[k] THEN Bump(own, <<Everyone, k>>) ELSE own
VerdictClientOnly(w, c, k) ==  \* mutant: nobody looks at everyone's count
  IF CountOf(w, <<c, k>>) > ClientLimit[k] THEN "client" ELSE "allowed"
Verdict(w, c, k) ==
  IF CountOf(w, <<c, k>>) > ClientLimit[k] THEN "client"
  ELSE IF CountOf(w, <<Everyone, k>>) > GlobalLimit[k] THEN "global" ELSE "allowed"
Allow(c, k, verdict) ==
  /\ verdict = Verdict(Counted(c, k), c, k)
  /\ windows' = Sweep(Counted(c, k))
  /\ operations' = operations + 1
  /\ swept' = IF operations' % CleanupEvery = 0 THEN now ELSE swept
  /\ granted' = [granted EXCEPT ![c][k] = granted[c][k] + IF verdict = "allowed" THEN 1 ELSE 0]
  /\ UNCHANGED <<now, stepped>>

\* The wall clock enters another window; it may be set back (once: bound).
ClockMoves(w) ==
  /\ w # now /\ ~stepped
  /\ now' = w
  /\ granted' = [c \in Clients |-> [k \in Kinds |-> 0]]
  /\ stepped' = (stepped \/ w < now)
  /\ UNCHANGED <<windows, operations, swept>>

-----------------------------------------------------------------------------
Least(a, b) == IF a < b THEN a ELSE b
Granted(k) == SumOf([c \in Clients |-> granted[c][k]])

\* Every variable has its type.
GateTypeOK ==
  /\ DOMAIN windows \subseteq Keys
  /\ \A key \in DOMAIN windows : windows[key] \in [window : 0..LastWindow, count : Nat \ {0}]
  /\ operations \in Nat /\ now \in 0..LastWindow /\ swept \in -1..LastWindow
  /\ granted \in [Clients -> [Kinds -> Nat]] /\ stepped \in BOOLEAN

\* What one abusive address is refused does not count against everybody else;
\* unless the clock was set back.
RefusalsAreFree ==
  ~stepped => \A k \in Kinds :
    CountOf(windows, <<Everyone, k>>)
      = SumOf([c \in Clients |-> Least(CountOf(windows, <<c, k>>), ClientLimit[k])])

\* Within a window no client, and not all of them together, get more than their
\* limit, and whoever is within both limits got all it asked for; unless the
\* clock was set back.
GateHolds ==
  ~stepped => \A k \in Kinds :
    /\ Granted(k) = Least(CountOf(windows, <<Everyone, k>>), GlobalLimit[k])
    /\ \A c \in Clients : granted[c][k] <= ClientLimit[k]

\* A cleanup leaves only keys of its own window and the one before, so the map
\* holds what CleanupEvery requests of two windows can add; unless the clock was
\* set back.
NothingStale ==
  ~stepped => \A key \in DOMAIN windows : windows[key].window >= swept - 1

\* Together: the limits hold, and the map they are kept in does not grow.
GateSound == GateHolds /\ NothingStale
=============================================================================
