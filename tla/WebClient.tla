----------------------------- MODULE WebClient -----------------------------
(* One open page of the explorer (web/app.js): its feed socket, the status    *)
(* poll, and the calls of its views in flight, while networks mine blocks and *)
(* the reader navigates and switches networks.  A step is the code between    *)
(* two awaits or callbacks.  A list of blocks is known by its heights; a page *)
(* of another view, or of older blocks, is not live and is called "other".    *)
(* Calls that fail and the reload after a reset are left out.                 *)
EXTENDS Integers, Sequences, FiniteSets

CONSTANTS Nets,      \* the networks
          TopHeight, \* highest block of any network (bound)
          Mining,    \* networks whose head moves and whose indexer is not always ready (bound)
          PageSize,  \* rows of a list
          MaxCalls,  \* calls in flight (bound; equal ones count once)
          MaxRoutes  \* navigations and switches (bound)

Views == {"overview", "blocks", "other"}
Heights == 0..TopHeight

ASSUME WebAssumption ==
  /\ TopHeight \in Nat /\ Mining \subseteq Nets
  /\ PageSize \in Nat \ {0} /\ {MaxRoutes, MaxCalls} \subseteq Nat \ {0}

VARIABLES
  tip,      \* net -> indexed height at the server
  node,     \* net -> nodeHeight, the head the indexer read last
  ready,    \* net -> sync.ready, false while a tick is under way and after it failed
  wire,     \* blocks broadcast to this page and not yet received
  open,     \* WS_OPEN
  dropped,  \* wsDropped
  NET, ROUTE_ID,
  view,     \* what route() rendered last
  hooks,    \* the view is committed and its live hooks are registered
  rows,     \* <<net, height>> of each row of its list
  patched,  \* patchedHtml of that list: the heights last patched in, {} if none
  top,      \* ovState.tip, or the page's data-tip-height, -1 when unset
  height,   \* ovState.height
  busy,     \* ovState.busy
  stale,    \* staleTicks
  unready,  \* LAST_STATUS says that the server was not ready
  calls,    \* in flight: what a call is for, its net, its route, its answer
  seen,     \* TURNSTILE.seenHeight
  turns,    \* quarter turns of the rotor
  counted   \* history: the blocks those were made for

serverVars == <<tip, node, ready, wire>>
pollVars == <<stale, unready>>
socketVars == <<open, dropped>>
pageVars == <<view, hooks, rows, patched, top, height, busy>>
turnVars == <<seen, turns, counted>>
vars == <<serverVars, socketVars, NET, ROUTE_ID, pageVars, pollVars, calls, turnVars>>

Kinds == Views \cup {"refresh", "light", "poll"}  \* a view: its first list
Highest(S) == IF S = {} THEN -1 ELSE CHOOSE h \in S : \A k \in S : k <= h

\* Of an answer a list has the blocks up to indexed, a status all three.
NoAnswer == [indexed |-> -1, node |-> -1, ready |-> FALSE]
Reply(kind, n) ==
  IF kind \in {"poll", "overview"} THEN [indexed |-> tip[n], node |-> node[n], ready |-> ready[n]]
  ELSE [NoAnswer EXCEPT !.indexed = tip[n]]

\* api(path), which reads NET when it is called.
Call(kind, net, id) == [kind |-> kind, net |-> net, id |-> id, answer |-> NoAnswer]
Poll == Call("poll", NET, 0)
Make(new) == calls' = calls \cup new /\ Cardinality(calls') <= MaxCalls

\* The newest blocks up to t.
Page(t) == {h \in 0..t : h > t - PageSize}

-----------------------------------------------------------------------------
(* The turnstile counts a block's flow once, by height.                      *)

CountAgain(S) == {h \in S : h >= seen}  \* mutant: the last block is not guarded
Unseen(S) == {h \in S : h > seen}

recordTurnstileBlocks(net, S) ==
  /\ seen' = Highest(S \cup {seen})
  /\ turns' = turns + Cardinality(Unseen(S))
  /\ counted' = counted \cup {<<net, h>> : h \in Unseen(S)}

-----------------------------------------------------------------------------
(* Routes.                                                                   *)

Init ==
  /\ tip = [n \in Nets |-> 0] /\ node = tip /\ ready = [n \in Nets |-> TRUE] /\ wire = <<>>
  /\ open = FALSE /\ dropped = FALSE
  /\ NET \in Nets /\ ROUTE_ID = 1
  /\ view \in Views
  /\ hooks = FALSE /\ rows = {} /\ patched = {} /\ top = -1 /\ height = -1 /\ busy = FALSE
  /\ stale = 0 /\ unready = FALSE
  /\ calls = {Call(view, NET, 1)}
  /\ seen = -1 /\ turns = 0 /\ counted = {}

\* route(): the view is cleared, liveReset() forgets its hooks and state, and
\* its data is asked for.
route(v) ==
  /\ ROUTE_ID < MaxRoutes /\ ROUTE_ID' = ROUTE_ID + 1
  /\ view' = v
  /\ hooks' = FALSE /\ rows' = {} /\ patched' = {} /\ top' = -1 /\ height' = -1 /\ busy' = FALSE

hashchange ==
  /\ \E v \in Views \ {view} : route(v) /\ Make({Call(v, NET, ROUTE_ID + 1)})
  /\ UNCHANGED <<serverVars, socketVars, NET, pollVars, turnVars>>

\* LAST_STATUS is forgotten; the socket to the old network is closed without its
\* onclose.  The poll that follows the rendered view is one of PollTimer's.
switchNet ==
  /\ \E n \in Nets \ {NET} :
       /\ NET' = n /\ route(view) /\ Make({Call(view, n, ROUTE_ID + 1)})
  /\ unready' = FALSE /\ open' = FALSE /\ wire' = <<>>
  /\ UNCHANGED <<tip, node, ready, dropped, stale, turnVars>>

-----------------------------------------------------------------------------
(* Calls land.                                                               *)

\* The server answers from what it has indexed.
Answer(c) ==
  /\ c.answer = NoAnswer
  /\ calls' = (calls \ {c}) \cup {[c EXCEPT !.answer = Reply(c.kind, c.net)]}
  /\ UNCHANGED <<serverVars, socketVars, NET, ROUTE_ID, pageVars, pollVars, turnVars>>

Lands(c, kinds) == c.kind \in kinds /\ c.answer # NoAnswer
Listed(c) == Page(c.answer.indexed)

\* setView commits only for the current route, a refresh only to the state it is of.
AnyRoute(c) == TRUE  \* mutant: no route token
Current(c) == c.id = ROUTE_ID

ShowList(c) ==
  /\ rows' = {<<c.net, h>> : h \in Listed(c)}
  /\ top' = Highest(Listed(c))

\* patchHtml compares with what was patched in last, not with the table, whose feed
\* rows came later: the same list again, its ages still the same, changes nothing.
MaySkip(c) == patched = Listed(c)
PatchList(c) ==
  /\ patched' = Listed(c)
  /\ ShowList(c) \/ (MaySkip(c) /\ top' = Highest(patched) /\ UNCHANGED rows)

\* renderOverview, which keeps the status and seeds the turnstile before setView,
\* and renderBlocks.
RenderLands(c) ==
  /\ Lands(c, Views)
  /\ IF c.kind = "overview"
     THEN recordTurnstileBlocks(c.net, Listed(c)) /\ unready' = ~c.answer.ready
     ELSE UNCHANGED <<turnVars, unready>>
  /\ IF Current(c) /\ view # "other"
     THEN ShowList(c) /\ patched' = {} /\ hooks' = TRUE /\ height' = c.answer.node /\ busy' = FALSE /\ UNCHANGED view
     ELSE UNCHANGED pageVars
  /\ calls' = calls \ {c}
  /\ UNCHANGED <<serverVars, socketVars, NET, ROUTE_ID, stale>>

StaysBusy(c) ==  \* mutant: a refresh that lands does not clear busy
  /\ Lands(c, {"refresh", "light"})
  /\ calls' = calls \ {c}
  /\ UNCHANGED <<serverVars, socketVars, NET, ROUTE_ID, pageVars, pollVars, turnVars>>

\* refreshBlocksLatest and refreshOverviewData, whose light form leaves the tables.
RefreshLands(c) ==
  /\ Lands(c, {"refresh", "light"})
  /\ IF Current(c)
     THEN /\ IF c.kind = "refresh" THEN PatchList(c) ELSE UNCHANGED <<rows, patched, top>>
          /\ IF view = "overview" THEN recordTurnstileBlocks(c.net, Listed(c))
             ELSE UNCHANGED turnVars
          /\ busy' = FALSE /\ UNCHANGED <<view, hooks, height>>
     ELSE UNCHANGED <<pageVars, turnVars>>
  /\ calls' = calls \ {c}
  /\ UNCHANGED <<serverVars, socketVars, NET, ROUTE_ID, pollVars>>

\* A live list that is behind a server that is ready is reloaded at the second such
\* poll, or at once without the feed; any view when the server has become ready.
NeverBehind(c) == FALSE  \* mutant: polls do not compare
Behind(c) == c.answer.ready /\ hooks /\ view = "blocks" /\ top < c.answer.indexed
BecameReady(c) == unready /\ c.answer.ready

\* updateOverview first asks for its data again when the node's chain moved, and for
\* the tables when they are behind the index, ready or not; one refresh at a time.
Moved(c) == hooks /\ view = "overview" /\ c.answer.node # height

PollLands(c) ==
  /\ Lands(c, {"poll"})
  /\ LET ticks == IF Behind(c) THEN stale + 1 ELSE 0
         reload == hooks /\ (BecameReady(c) \/ (Behind(c) /\ (~open \/ ticks >= 2)))
     IN
       /\ unready' = ~c.answer.ready
       /\ height' = IF Moved(c) THEN c.answer.node ELSE height
       /\ busy' = (busy \/ Moved(c) \/ (reload /\ view = "overview"))
       /\ stale' = IF reload THEN 0 ELSE ticks
       /\ calls' = (calls \ {c}) \cup
            IF Moved(c) /\ ~busy
            THEN {Call(IF top < c.answer.indexed THEN "refresh" ELSE "light", NET, ROUTE_ID)}
            ELSE IF reload /\ ~busy THEN {Call("refresh", NET, ROUTE_ID)} ELSE {}
  /\ UNCHANGED <<serverVars, socketVars, NET, ROUTE_ID, view, hooks, rows, patched, top, turnVars>>

\* setInterval(pollStatus, 5000): one such poll at a time (bound).
PollTimer ==
  /\ \A c \in calls : c.kind # "poll"
  /\ Make({Poll})
  /\ UNCHANGED <<serverVars, socketVars, NET, ROUTE_ID, pageVars, pollVars, turnVars>>

-----------------------------------------------------------------------------
(* The feed.                                                                 *)

\* prependLiveBlock, or the overview's onBlock: not a row that is already there.
PrependAny(h) == hooks  \* mutant: rows may come twice, or below others
Prepends(h) == hooks /\ h > top
Capped(all) == {r \in all : Cardinality({q \in all : q[2] > r[2]}) < PageSize}

onmessage ==
  /\ wire # <<>>
  /\ LET h == Head(wire) IN
       /\ recordTurnstileBlocks(NET, {h})
       /\ IF Prepends(h)
          THEN /\ top' = h
               /\ rows' = Capped(rows \cup {<<NET, h>>})
          ELSE UNCHANGED <<rows, top>>
  /\ Make({Poll})
  /\ wire' = Tail(wire)
  /\ UNCHANGED <<tip, node, ready, socketVars, NET, ROUTE_ID, view, hooks, patched, height, busy, pollVars>>

\* After a drop the view's data is patched in place, unless its refresh is busy.
onopen ==
  /\ ~open /\ open' = TRUE /\ dropped' = FALSE
  /\ IF ~dropped THEN UNCHANGED <<calls, busy>>
     ELSE /\ Make({Poll} \cup IF hooks /\ ~busy THEN {Call("refresh", NET, ROUTE_ID)} ELSE {})
          /\ busy' = (hooks /\ view = "overview")
  /\ UNCHANGED <<serverVars, NET, ROUTE_ID, view, hooks, rows, patched, top, height, pollVars, turnVars>>

onclose ==
  /\ open /\ open' = FALSE /\ dropped' = TRUE /\ wire' = <<>>
  /\ UNCHANGED <<tip, node, ready, NET, ROUTE_ID, pageVars, pollVars, calls, turnVars>>

pageAndCalls == <<socketVars, NET, ROUTE_ID, pageVars, pollVars, calls, turnVars>>

\* A tick of network n's indexer reads a higher head;
ReadHead(n) ==
  /\ n \in Mining /\ node[n] < TopHeight /\ node' = [node EXCEPT ![n] = @ + 1]
  /\ UNCHANGED <<tip, ready, wire, pageAndCalls>>

\* is not ready while it verifies and indexes, nor after it failed or halted;
NotReady(n) ==
  /\ n \in Mining /\ ready[n] /\ ready' = [ready EXCEPT ![n] = FALSE]
  /\ UNCHANGED <<tip, node, wire, pageAndCalls>>

\* commits a block, which its hub sends to open sockets unless it lags far behind;
Index(n) ==
  /\ ~ready[n] /\ tip[n] < node[n]
  /\ tip' = [tip EXCEPT ![n] = @ + 1]
  /\ \/ open /\ n = NET /\ wire' = Append(wire, tip[n] + 1)
     \/ UNCHANGED wire
  /\ UNCHANGED <<node, ready, pageAndCalls>>

\* and is ready again once all is in.
Ready(n) ==
  /\ ~ready[n] /\ tip[n] = node[n] /\ ready' = [ready EXCEPT ![n] = TRUE]
  /\ UNCHANGED <<tip, node, wire, pageAndCalls>>

Land(c) == RenderLands(c) \/ RefreshLands(c) \/ PollLands(c)
Next == \/ hashchange \/ switchNet \/ PollTimer \/ \E c \in calls : Answer(c) \/ Land(c)
        \/ onmessage \/ onopen \/ onclose \/ \E n \in Nets : ReadHead(n) \/ NotReady(n) \/ Index(n) \/ Ready(n)

\* Calls are answered, answers land, and the poll timer fires for ever; the feed owes nothing.
Spec == /\ Init /\ [][Next]_vars /\ WF_vars(PollTimer)
        /\ \A k \in Kinds : /\ WF_vars(\E c \in calls : c.kind = k /\ Answer(c))
                            /\ WF_vars(\E c \in calls : c.kind = k /\ Land(c))

-----------------------------------------------------------------------------
(* Properties.                                                               *)

\* Every variable has its type; a refresh that is busy has a call in flight.
TypeOK ==
  /\ tip \in [Nets -> Heights] /\ node \in [Nets -> Heights] /\ ready \in [Nets -> BOOLEAN]
  /\ wire \in Seq(Heights) /\ {open, dropped, hooks, busy, unready} \subseteq BOOLEAN
  /\ NET \in Nets /\ ROUTE_ID \in 1..MaxRoutes /\ view \in Views
  /\ rows \subseteq Nets \X Heights /\ patched \subseteq Heights /\ {top, height, seen} \subseteq Heights \cup {-1}
  /\ stale \in 0..1 /\ turns \in Nat
  /\ calls \subseteq [kind : Kinds, net : Nets, id : 0..MaxRoutes,
                    answer : [indexed : Heights \cup {-1}, node : Heights \cup {-1}, ready : BOOLEAN]]
  /\ busy => \E c \in calls : c.id = ROUTE_ID /\ c.kind \in {"refresh", "light"}

\* A list shows blocks of the selected network only, whatever calls and messages
\* of an earlier view or network still arrive; and no more than a page of them.
PageIsCurrent == /\ \A r \in rows : r[1] = NET
                 /\ Cardinality(rows) <= PageSize

\* The list's top row is the tip the page works with (the test for "already shown"
\* and "behind"), in every order of events, lists and polls; the row is newer only
\* where patchHtml skipped the list that set the tip.
TopIsTop == LET shown == Highest({r[2] : r \in rows})
            IN hooks => top = shown \/ (top < shown /\ top = Highest(patched))

\* Together: the page is a page of the selected network, ordered by its tip.
PageSound == TypeOK /\ PageIsCurrent /\ TopIsTop

\* A block that arrives over the feed and in reconciling lists turns the rotor only once
\* (app.js, seenHeight).
CountedOnce == turns = Cardinality(counted)

\* The latest-blocks page catches up with the server, also after lists that were
\* read earlier arrived later, and without the feed: once the reader stays there,
\* no block is mined and polls find the server ready again and again, it shows the
\* tip.
PolledReady == \E c \in calls : c.kind = "poll" /\ c.net = NET /\ c.answer.ready
CatchesUp == (<>[](view = "blocks") /\ []<>PolledReady)
             => <>[](top = tip[NET] /\ <<NET, top>> \in rows)
=============================================================================
