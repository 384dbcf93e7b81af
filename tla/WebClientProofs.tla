-------------------------- MODULE WebClientProofs --------------------------
(* What a page shows and counts, for any networks, page size and number of    *)
(* calls in flight, in every order in which events and answers arrive.        *)
EXTENDS WebClient, FiniteSetTheorems, WellFoundedInduction, TLAPS

Shown == Highest({r[2] : r \in rows})

\* A call of the current route is of the selected network, and a refresh of it was
\* asked for by a committed view; no answer is ahead of the server.
CallsOfRoute ==
  \A c \in calls :
    /\ c.id <= ROUTE_ID /\ c.answer.indexed <= tip[c.net]
    /\ c.answer # NoAnswer => c.answer.indexed \in Heights
    /\ c.id = ROUTE_ID => c.net = NET /\ (c.kind \in {"refresh", "light"} => hooks)

\* The feed delivers each block once, upward.
FeedUpward ==
  /\ tip \in [Nets -> Heights]
  /\ \A i \in 1..Len(wire) : wire[i] <= tip[NET]
  /\ \A i, j \in 1..Len(wire) : i < j => wire[i] < wire[j]

\* A list is of the selected network and not ahead of the server; where patchHtml
\* may skip a list, the feed still owes only blocks above the newest row.
RowsOfNet ==
  /\ IsFiniteSet(rows) /\ Cardinality(rows) <= PageSize
  /\ \A r \in rows : r \in {NET} \X Heights /\ r[2] <= tip[NET]
  /\ ~hooks => rows = {} /\ patched = {}
  /\ hooks => /\ rows # {}
              /\ patched = {} => top = Shown
              /\ patched # {} => /\ IsFiniteSet(patched) /\ Highest(patched) <= Shown
                                 /\ top = Shown \/ top = Highest(patched)
                                 /\ Highest(patched) < Shown => \A i \in 1..Len(wire) : Shown < wire[i]

\* No height is counted above the last one seen.
CountedSeen ==
  /\ IsFiniteSet(counted) /\ turns = Cardinality(counted)
  /\ \A q \in counted : q \in Nets \X Heights /\ q[2] <= seen

IInv == TypeOK /\ CallsOfRoute /\ FeedUpward /\ RowsOfNet /\ CountedSeen

-----------------------------------------------------------------------------
(* Sets of heights.                                                          *)

LEMMA HighestIs ==
  ASSUME NEW S \in SUBSET Int, NEW h \in S, \A k \in S : k <= h
  PROVE  Highest(S) = h
<1>1. \A x \in S : (\A k \in S : k <= x) => x = h
  OBVIOUS
<1>2. S # {} /\ \E x \in S : \A k \in S : k <= x
  OBVIOUS
<1> DEFINE best == CHOOSE x \in S : \A k \in S : k <= x
<1>3. best \in S /\ \A k \in S : k <= best
  BY <1>2
<1>4. best = h
  <2> HIDE DEF best
  <2> QED BY <1>1, <1>3
<1> QED BY <1>2, <1>4 DEF Highest

LEMMA HasHighest ==
  ASSUME NEW S \in SUBSET Int, IsFiniteSet(S), S # {}
  PROVE  Highest(S) \in S /\ \A k \in S : k <= Highest(S)
<1> DEFINE above(h) == {k \in S : k > h}
           T == {above(h) : h \in S}
<1>1. IsWellFoundedOn(StrictSubsetOrdering(S), SUBSET S)
  BY FS_StrictSubsetOrderingWellFounded, FS_FiniteSubsetsOfFinite
<1>2. T \subseteq SUBSET S /\ T # {}
  OBVIOUS
<1>3. PICK x \in T : \A y \in T : ~(<<y, x>> \in StrictSubsetOrdering(S))
  <2> HIDE DEF T
  <2> QED BY <1>1, <1>2, WFMin
<1>4. PICK h \in S : x = above(h)
  OBVIOUS
<1>5. ASSUME NEW k \in S, k > h PROVE FALSE
  <2>1. above(k) \in T
    OBVIOUS
  <2>2. k \in Int /\ h \in Int /\ \A j \in S : j \in Int
    OBVIOUS
  <2>3. \A j \in S : j > k => j > h
    BY <1>5, <2>2
  <2>4. above(k) \subseteq above(h) /\ k \in above(h) /\ k \notin above(k)
    <3>1. above(k) \subseteq above(h)
      BY <2>3
    <3>2. k \in above(h)
      BY <1>5
    <3>3. k \notin above(k)
      BY <2>2
    <3> QED BY <3>1, <3>2, <3>3
  <2>5. <<above(k), x>> \in StrictSubsetOrdering(S)
    BY <1>4, <2>4 DEF StrictSubsetOrdering
  <2> HIDE DEF T
  <2> QED BY <1>3, <2>1, <2>5
<1>6. \A k \in S : k <= h
  BY <1>5
<1> QED BY <1>6, HighestIs

LEMMA HeightsFinite ==
  /\ Heights \subseteq Int /\ IsFiniteSet(Heights)
  /\ \A S : S \subseteq Heights \cup {-1} => IsFiniteSet(S) /\ S \subseteq Int
<1>1. IsFiniteSet(Heights) /\ Heights \subseteq Int
  BY FS_Interval, WebAssumption DEF Heights
<1>2. IsFiniteSet(Heights \cup {-1})
  BY <1>1, FS_AddElement
<1>3. ASSUME NEW S, S \subseteq Heights \cup {-1} PROVE IsFiniteSet(S) /\ S \subseteq Int
  <2>1. IsFiniteSet(S)
    BY <1>2, <1>3, FS_Subset
  <2> QED BY <1>1, <1>3, <2>1
<1> QED BY <1>1, <1>3

LEMMA PageFacts ==
  ASSUME NEW t \in Heights
  PROVE  /\ Page(t) \subseteq Heights /\ Page(t) \subseteq 0..t /\ t \in Page(t)
         /\ IsFiniteSet(Page(t)) /\ Highest(Page(t)) = t
         /\ Cardinality(Page(t)) \in Nat /\ Cardinality(Page(t)) <= PageSize
<1> USE WebAssumption
<1>1. Page(t) \subseteq Heights /\ Page(t) \subseteq 0..t /\ t \in Page(t)
  BY DEF Page, Heights
<1>2. Highest(Page(t)) = t
  <2> Page(t) \in SUBSET Int /\ \A k \in Page(t) : k <= t
    BY DEF Page
  <2> QED BY <1>1, HighestIs
<1>3. IsFiniteSet(Page(t)) /\ Cardinality(Page(t)) \in Nat
  BY <1>1, HeightsFinite, FS_CardinalityType
<1> DEFINE low == t - PageSize + 1
<1>4. low \in Int /\ t \in Int /\ low <= t /\ t - low + 1 = PageSize
  BY DEF Heights
<1>5. Page(t) \subseteq low..t
  BY DEF Page, Heights
<1> HIDE DEF low
<1>6. IsFiniteSet(low..t) /\ Cardinality(low..t) = PageSize
  <2>1. IsFiniteSet(low..t) /\ Cardinality(low..t) = IF low > t THEN 0 ELSE t - low + 1
    BY <1>4, FS_Interval
  <2> QED BY <1>4, <2>1
<1>7. Cardinality(Page(t)) <= Cardinality(low..t)
  BY <1>5, <1>6, FS_Subset
<1> QED BY <1>1, <1>2, <1>3, <1>6, <1>7

\* A list of one network has as many rows as heights.
Tag(n, S) == {<<n, h>> : h \in S}

LEMMA Tagged ==
  ASSUME NEW n, NEW S, IsFiniteSet(S)
  PROVE  /\ IsFiniteSet(Tag(n, S)) /\ Cardinality(Tag(n, S)) = Cardinality(S)
         /\ {r[2] : r \in Tag(n, S)} = S
<1> DEFINE R == Tag(n, S)
           f == [h \in S |-> <<n, h>>]
<1>1. f \in Surjection(S, R)
  BY DEF Surjection, Tag
<1>2. f \in Injection(S, R)
  BY DEF Injection, IsInjective, Tag
<1>3. IsFiniteSet(R) /\ Cardinality(R) = Cardinality(S)
  <2> HIDE DEF f, R
  <2> QED BY <1>1, <1>2, FS_Surjection
<1>4. {r[2] : r \in R} = S
  <2>1. \A h \in S : <<n, h>> \in R /\ <<n, h>>[2] = h
    BY DEF Tag
  <2>2. \A r \in R : r[2] \in S
    BY DEF Tag
  <2> HIDE DEF R
  <2> QED BY <2>1, <2>2
<1> QED BY <1>3, <1>4

\* A capped list keeps its newest row and has at most a page of them.
LEMMA CappedFacts ==
  ASSUME NEW n, NEW all, IsFiniteSet(all), all \subseteq {n} \X Heights
  PROVE  /\ Capped(all) \subseteq all /\ IsFiniteSet(Capped(all))
         /\ Cardinality(Capped(all)) <= PageSize
         /\ \A r \in all : (\A q \in all : q[2] <= r[2]) => r \in Capped(all)
<1> USE WebAssumption, HeightsFinite
<1>1. Capped(all) \subseteq all /\ IsFiniteSet(Capped(all))
  BY FS_Subset DEF Capped
<1>2. ASSUME NEW r \in all, \A q \in all : q[2] <= r[2]
      PROVE  r \in Capped(all)
  <2>1. {q \in all : q[2] > r[2]} = {}
    BY <1>2
  <2> QED BY <2>1, FS_EmptySet DEF Capped
<1>3. CASE Capped(all) = {}
  BY <1>1, <1>2, <1>3, FS_EmptySet
<1>4. CASE Capped(all) # {}
  <2> DEFINE C == Capped(all)
             below(r) == {q \in C : q[2] < r[2]}
             T == {below(r) : r \in C}
  <2>1. IsWellFoundedOn(StrictSubsetOrdering(C), SUBSET C)
    BY <1>1, FS_StrictSubsetOrderingWellFounded, FS_FiniteSubsetsOfFinite
  <2>2. T \subseteq SUBSET C /\ T # {}
    <3>1. PICK r \in C : TRUE
      BY <1>4
    <3>2. below(r) \in T
      BY <3>1
    <3>3. \A p \in C : below(p) \in SUBSET C
      OBVIOUS
    <3> HIDE DEF C
    <3> QED BY <3>2, <3>3
  <2>3. PICK x \in T : \A y \in T : ~(<<y, x>> \in StrictSubsetOrdering(C))
    <3> HIDE DEF T, C
    <3> QED BY <2>1, <2>2, WFMin
  <2>4. PICK r \in C : x = below(r)
    OBVIOUS
  <2>5. ASSUME NEW q \in C, q[2] < r[2] PROVE FALSE
    <3>1. q[2] \in Int /\ r[2] \in Int /\ \A p \in C : p[2] \in Int
      BY <1>1
    <3>2. below(q) \in T /\ below(q) \subseteq below(r) /\ q \in below(r) /\ q \notin below(q)
      BY <2>5, <3>1
    <3>3. <<below(q), x>> \in StrictSubsetOrdering(C)
      BY <2>4, <3>2 DEF StrictSubsetOrdering
    <3> QED BY <2>3, <3>2, <3>3
  <2>6. C \ {r} \subseteq {q \in all : q[2] > r[2]}
    <3> SUFFICES ASSUME NEW q \in C, q # r PROVE q \in all /\ q[2] > r[2]
      OBVIOUS
    <3>1. q \in {n} \X Heights /\ r \in {n} \X Heights /\ q \in all
      BY <1>1
    <3>2. q[2] # r[2] /\ q[2] \in Int /\ r[2] \in Int
      BY <3>1
    <3> QED BY <2>5, <3>1, <3>2
  <2>7. IsFiniteSet({q \in all : q[2] > r[2]})
        /\ Cardinality({q \in all : q[2] > r[2]}) \in Nat
        /\ Cardinality({q \in all : q[2] > r[2]}) < PageSize
    BY FS_Subset, FS_CardinalityType DEF Capped
  <2>8. Cardinality(C \ {r}) \in Nat /\ Cardinality(C \ {r}) = Cardinality(C) - 1 /\ Cardinality(C) \in Nat
    BY <1>1, FS_RemoveElement, FS_CardinalityType
  <2>9. Cardinality(C \ {r}) <= Cardinality({q \in all : q[2] > r[2]})
    BY <2>6, <2>7, FS_Subset
  <2>10. Cardinality(C) <= PageSize
    <3> HIDE DEF C
    <3> QED BY <2>7, <2>8, <2>9
  <2> QED BY <1>1, <1>2, <2>10
<1> QED BY <1>3, <1>4

-----------------------------------------------------------------------------
(* Steps.                                                                    *)

AnswerType == [indexed : Heights \cup {-1}, node : Heights \cup {-1}, ready : BOOLEAN]
CallType == [kind : Kinds, net : Nets, id : 0..MaxRoutes, answer : AnswerType]

\* Nothing moves but the head a server has read and whether it is ready.
Idle == UNCHANGED <<tip, wire, pageAndCalls>>

LEMMA StepCases ==
  ASSUME [Next]_vars
  PROVE  \/ hashchange \/ switchNet \/ PollTimer
         \/ \E c \in calls : Answer(c)
         \/ \E c \in calls : RenderLands(c)
         \/ \E c \in calls : RefreshLands(c)
         \/ \E c \in calls : PollLands(c)
         \/ onmessage \/ onopen \/ onclose \/ \E n \in Nets : Index(n)
         \/ Idle
<1>1. \A n \in Nets : ReadHead(n) \/ NotReady(n) \/ Ready(n) => Idle
  BY DEF ReadHead, NotReady, Ready, Idle
<1>2. UNCHANGED vars => Idle
  BY DEF vars, serverVars, Idle, pageAndCalls
<1> QED BY <1>1, <1>2 DEF Next, Land

\* What the servers' heads are.
LEMMA ServerStep ==
  ASSUME IInv, [Next]_vars
  PROVE  node' \in [Nets -> Heights] /\ ready' \in [Nets -> BOOLEAN]
<1> USE WebAssumption
<1>0. node \in [Nets -> Heights] /\ ready \in [Nets -> BOOLEAN]
  BY DEF IInv, TypeOK
<1>1. ASSUME NEW n \in Nets, ReadHead(n) PROVE node' \in [Nets -> Heights] /\ ready' = ready
  <2>1. node[n] + 1 \in Heights /\ node' = [node EXCEPT ![n] = node[n] + 1] /\ ready' = ready
    BY <1>0, <1>1 DEF ReadHead, Heights
  <2> QED BY <1>0, <2>1
<1>2. ASSUME NEW n \in Nets, NotReady(n) \/ Ready(n) PROVE node' = node /\ ready' \in [Nets -> BOOLEAN]
  BY <1>0, <1>2 DEF NotReady, Ready
<1>3. \/ UNCHANGED <<node, ready>>
      \/ \E n \in Nets : ReadHead(n)
      \/ \E n \in Nets : NotReady(n) \/ Ready(n)
  BY DEF Next, Land, hashchange, switchNet, PollTimer, Answer, RenderLands, RefreshLands, PollLands,
     onmessage, onopen, onclose, Index, serverVars, vars
<1> QED BY <1>0, <1>1, <1>2, <1>3

LEMMA NewCall ==
  ASSUME NEW k, NEW n, NEW i
  PROVE  /\ Call(k, n, i).kind = k /\ Call(k, n, i).net = n /\ Call(k, n, i).id = i
         /\ Call(k, n, i).answer = NoAnswer /\ NoAnswer.indexed = -1 /\ NoAnswer \in AnswerType
         /\ k \in Kinds /\ n \in Nets /\ i \in 0..MaxRoutes => Call(k, n, i) \in CallType
BY DEF Call, CallType, AnswerType, NoAnswer

LEMMA InvInit == Init => IInv
<1> SUFFICES ASSUME Init PROVE IInv
  OBVIOUS
<1> USE WebAssumption DEF Init
<1>1. {Call(view, NET, 1)} \subseteq CallType
  BY NewCall DEF Kinds
<1>2. TypeOK
  <2>1. NET \in Nets /\ tip \in [Nets -> Heights] /\ node \in [Nets -> Heights] /\ ready \in [Nets -> BOOLEAN]
    BY DEF Heights
  <2>4. wire \in Seq(Heights)
    OBVIOUS
  <2>5. {open, dropped, hooks, busy, unready} \subseteq BOOLEAN
    OBVIOUS
  <2>6. stale \in 0..1
    OBVIOUS
  <2>2. ROUTE_ID \in 1..MaxRoutes /\ view \in Views /\ {top, height, seen} \subseteq Heights \cup {-1}
    BY DEF Views
  <2>3. calls \subseteq CallType
    BY <1>1
  <2> QED BY <2>1, <2>2, <2>3, <2>4, <2>5, <2>6 DEF TypeOK, CallType, AnswerType
<1>3. CallsOfRoute
  BY NewCall DEF CallsOfRoute, Heights, Views
<1>4. FeedUpward /\ RowsOfNet
  BY FS_EmptySet DEF FeedUpward, RowsOfNet, Heights
<1>5. CountedSeen
  BY FS_EmptySet DEF CountedSeen
<1> QED BY <1>2, <1>3, <1>4, <1>5 DEF IInv

\* What calls a step may make and drop.
LEMMA CallSteps ==
  ASSUME IInv, [Next]_vars
  PROVE  /\ calls' \subseteq CallType
         /\ CallsOfRoute'
         /\ busy' \in BOOLEAN
         /\ busy' => \E c \in calls' : c.id = ROUTE_ID' /\ c.kind \in {"refresh", "light"}
<1> USE WebAssumption DEF IInv
<1>0. /\ calls \subseteq CallType /\ NET \in Nets /\ ROUTE_ID \in 1..MaxRoutes /\ view \in Views
      /\ hooks \in BOOLEAN /\ busy \in BOOLEAN /\ tip \in [Nets -> Heights]
      /\ busy => \E c \in calls : c.id = ROUTE_ID /\ c.kind \in {"refresh", "light"}
  BY DEF TypeOK, CallType, AnswerType, FeedUpward
<1>1. ASSUME NEW v \in Views, NEW n \in Nets, ROUTE_ID < MaxRoutes, ROUTE_ID' = ROUTE_ID + 1, busy' = FALSE,
             NET' = n, tip' = tip,
             calls' \subseteq calls \cup {Call(v, n, ROUTE_ID + 1)}
      PROVE  calls' \subseteq CallType /\ CallsOfRoute'
  <2>1. Call(v, n, ROUTE_ID + 1) \in CallType 
    BY <1>0, <1>1, NewCall DEF Kinds
  <2>2. v \notin {"refresh", "light"}
    BY DEF Views
  <2>3. ASSUME NEW c \in calls'
        PROVE  /\ c.id <= ROUTE_ID' /\ c.answer.indexed <= tip'[c.net]
               /\ c.answer # NoAnswer => c.answer.indexed \in Heights
               /\ c.id = ROUTE_ID' => c.net = NET' /\ (c.kind \in {"refresh", "light"} => hooks')
    <3>1. CASE c \in calls
      <4>1. c.id <= ROUTE_ID /\ c.answer.indexed <= tip[c.net] /\ (c.answer # NoAnswer => c.answer.indexed \in Heights) /\ c.id \in 0..MaxRoutes
        BY <1>0, <3>1 DEF CallsOfRoute, CallType
      <4> QED BY <1>0, <1>1, <4>1
    <3>2. CASE c = Call(v, n, ROUTE_ID + 1)
      BY <1>0, <1>1, <2>2, <3>2, NewCall DEF Heights
    <3> QED BY <1>1, <3>1, <3>2
  <2> QED BY <1>0, <1>1, <2>1, <2>3 DEF CallsOfRoute
<1>2. CASE hashchange
  <2>1. PICK v \in Views \ {view} : route(v) /\ Make({Call(v, NET, ROUTE_ID + 1)})
    BY <1>2 DEF hashchange
  <2> QED BY <1>0, <1>1, <1>2, <2>1 DEF hashchange, route, Make, serverVars
<1>3. CASE switchNet
  <2>1. PICK n \in Nets \ {NET} : NET' = n /\ route(view)
           /\ Make({Call(view, n, ROUTE_ID + 1)})
    BY <1>3 DEF switchNet
  <2> QED BY <1>0, <1>1, <1>3, <2>1 DEF switchNet, route, Make
\* The other steps stay on their route; they may make a poll, or a refresh of it.
<1>4. ASSUME UNCHANGED <<NET, ROUTE_ID>>, hooks => hooks',
             tip' \in [Nets -> Heights], \A n \in Nets : tip[n] <= tip'[n],
             \A d \in calls' : d \in calls \/
               /\ d \in CallType /\ d.answer = NoAnswer
               /\ d.id = 0 \/ (d.id = ROUTE_ID /\ d.net = NET /\ (d.kind \in {"refresh", "light"} => hooks'))
      PROVE  calls' \subseteq CallType /\ CallsOfRoute'
  <2>1. ASSUME NEW c \in calls'
        PROVE  /\ c.id <= ROUTE_ID' /\ c.answer.indexed <= tip'[c.net]
               /\ c.answer # NoAnswer => c.answer.indexed \in Heights
               /\ c.id = ROUTE_ID' => c.net = NET' /\ (c.kind \in {"refresh", "light"} => hooks')
    <3>0. c \in CallType /\ c.net \in Nets /\ tip'[c.net] \in Heights
      BY <1>0, <1>4 DEF CallType
    <3>1. CASE c \in calls
      <4>1. c.id <= ROUTE_ID /\ c.answer.indexed <= tip[c.net] /\ (c.answer # NoAnswer => c.answer.indexed \in Heights)
            /\ (c.id = ROUTE_ID => c.net = NET /\ (c.kind \in {"refresh", "light"} => hooks))
        BY <3>1 DEF CallsOfRoute
      <4>2. tip[c.net] \in Int /\ tip'[c.net] \in Int /\ c.answer.indexed \in Int /\ tip[c.net] <= tip'[c.net]
        BY <1>0, <1>4, <3>0 DEF Heights, CallType, AnswerType
      <4> QED BY <1>4, <4>1, <4>2
    <3>2. CASE c \notin calls
      <4>1. /\ c.answer = NoAnswer /\ NoAnswer.indexed = -1
            /\ c.id = 0 \/ (c.id = ROUTE_ID /\ c.net = NET /\ (c.kind \in {"refresh", "light"} => hooks'))
        BY <1>4, <3>2, NewCall
      <4> QED BY <1>0, <1>4, <3>0, <4>1 DEF Heights
    <3> QED BY <3>1, <3>2
  <2> QED BY <1>0, <1>4, <2>1 DEF CallsOfRoute
<1>5. Poll \in CallType /\ Poll.id = 0 /\ Poll.answer = NoAnswer /\ Poll.net = NET /\ Poll.kind = "poll"
  BY <1>0, NewCall DEF Poll, Kinds
<1>6. \A k \in {"refresh", "light"} :
        /\ Call(k, NET, ROUTE_ID) \in CallType /\ Call(k, NET, ROUTE_ID).id = ROUTE_ID
        /\ Call(k, NET, ROUTE_ID).net = NET /\ Call(k, NET, ROUTE_ID).answer = NoAnswer
        /\ Call(k, NET, ROUTE_ID).kind = k
  BY <1>0, NewCall DEF Kinds
<1>7. \A n \in Nets : -1 <= tip[n] /\ tip[n] <= tip[n]
  BY <1>0 DEF Heights
<1>8. CASE PollTimer
  <2>1. calls' = calls \cup {Poll} /\ UNCHANGED <<tip, NET, ROUTE_ID, hooks, busy>>
    BY <1>8 DEF PollTimer, Make, serverVars, pageVars
  <2>2. calls' \subseteq CallType /\ CallsOfRoute'
    BY <1>0, <1>4, <1>5, <1>7, <2>1
  <2> QED BY <1>0, <2>1, <2>2
<1>9. ASSUME NEW c \in calls, Answer(c)
      PROVE  /\ calls' \subseteq CallType /\ CallsOfRoute' /\ busy' \in BOOLEAN
             /\ busy' => \E d \in calls' : d.id = ROUTE_ID' /\ d.kind \in {"refresh", "light"}
  <2> DEFINE rep == Reply(c.kind, c.net)
             ans == [c EXCEPT !.answer = rep]
  <2>1. calls' = (calls \ {c}) \cup {ans} /\ UNCHANGED <<tip, NET, ROUTE_ID, hooks, busy>>
    BY <1>9 DEF Answer, serverVars, pageVars
  <2>2. c \in CallType /\ c.net \in Nets /\ tip[c.net] \in Heights
    BY <1>0 DEF CallType
  <2>7. rep \in AnswerType /\ rep.indexed = tip[c.net]
    BY <1>0, <2>2 DEF Reply, NoAnswer, AnswerType, TypeOK
  <2> HIDE DEF rep
  <2>3. ans \in CallType /\ ans.id = c.id /\ ans.net = c.net /\ ans.kind = c.kind /\ ans.answer.indexed = tip[c.net]
    BY <2>2, <2>7 DEF CallType
  <2> HIDE DEF ans
  <2>4. ASSUME NEW d \in calls'
        PROVE  /\ d.id <= ROUTE_ID' /\ d.answer.indexed <= tip'[d.net]
               /\ d.answer # NoAnswer => d.answer.indexed \in Heights
               /\ d.id = ROUTE_ID' => d.net = NET' /\ (d.kind \in {"refresh", "light"} => hooks')
    <3>1. CASE d \in calls
      BY <2>1, <3>1 DEF CallsOfRoute
    <3>2. CASE d = ans
      BY <1>7, <2>1, <2>2, <2>3, <3>2 DEF CallsOfRoute
    <3> QED BY <2>1, <3>1, <3>2
  <2>5. CallsOfRoute' /\ calls' \subseteq CallType
    BY <1>0, <2>1, <2>3, <2>4 DEF CallsOfRoute
  <2>6. busy => \E d \in calls' : d.id = ROUTE_ID /\ d.kind \in {"refresh", "light"}
    BY <1>0, <2>1, <2>3
  <2> QED BY <1>0, <2>1, <2>5, <2>6
<1>10. ASSUME NEW c \in calls, RenderLands(c)
       PROVE  /\ calls' \subseteq CallType /\ CallsOfRoute' /\ busy' \in BOOLEAN
              /\ busy' => \E d \in calls' : d.id = ROUTE_ID' /\ d.kind \in {"refresh", "light"}
  <2>1. /\ calls' = calls \ {c} /\ UNCHANGED <<tip, NET, ROUTE_ID>> /\ c.kind \in Views
        /\ (hooks' = hooks \/ hooks' = TRUE) /\ (busy' = FALSE \/ busy' = busy)
    BY <1>10 DEF RenderLands, Lands, serverVars, pageVars
  <2>2. hooks => hooks'
    BY <1>10 DEF RenderLands, pageVars
  <2>3. calls' \subseteq CallType /\ CallsOfRoute'
    BY <1>0, <1>4, <1>7, <2>1, <2>2
  <2>4. busy' => \E d \in calls' : d.id = ROUTE_ID' /\ d.kind \in {"refresh", "light"}
    BY <1>0, <2>1 DEF Views
  <2> QED BY <1>0, <2>1, <2>3, <2>4
<1>11. ASSUME NEW c \in calls, RefreshLands(c)
       PROVE  /\ calls' \subseteq CallType /\ CallsOfRoute' /\ busy' \in BOOLEAN
              /\ busy' => \E d \in calls' : d.id = ROUTE_ID' /\ d.kind \in {"refresh", "light"}
  <2>1. calls' = calls \ {c} /\ UNCHANGED <<tip, NET, ROUTE_ID, hooks>>
    BY <1>11 DEF RefreshLands, serverVars, pageVars
  <2>2. calls' \subseteq CallType /\ CallsOfRoute'
    BY <1>0, <1>4, <1>7, <2>1
  <2>3. busy' = FALSE \/ (busy' = busy /\ c.id # ROUTE_ID)
    BY <1>11 DEF RefreshLands, pageVars, Current
  <2>4. busy' => \E d \in calls' : d.id = ROUTE_ID' /\ d.kind \in {"refresh", "light"}
    BY <1>0, <2>1, <2>3
  <2> QED BY <1>0, <2>2, <2>3, <2>4
<1>12. ASSUME NEW c \in calls, PollLands(c)
       PROVE  /\ calls' \subseteq CallType /\ CallsOfRoute' /\ busy' \in BOOLEAN
              /\ busy' => \E d \in calls' : d.id = ROUTE_ID' /\ d.kind \in {"refresh", "light"}
  <2>1. /\ c.kind = "poll" /\ UNCHANGED <<tip, NET, ROUTE_ID, hooks>>
        /\ busy' = (busy \/ Moved(c)) \/ (hooks /\ busy' = TRUE)
        /\ \/ hooks /\ \E k \in {"refresh", "light"} : calls' = (calls \ {c}) \cup {Call(k, NET, ROUTE_ID)}
           \/ calls' = calls \ {c} /\ (busy \/ busy' = FALSE)
    <3> DEFINE reload == hooks /\ (BecameReady(c) \/ (Behind(c) /\ (~open \/ (IF Behind(c) THEN stale + 1 ELSE 0) >= 2)))
               again == Call(IF top < c.answer.indexed THEN "refresh" ELSE "light", NET, ROUTE_ID)
    <3>1. /\ c.kind = "poll" /\ UNCHANGED <<tip, NET, ROUTE_ID, hooks>>
          /\ busy' = (busy \/ Moved(c) \/ (reload /\ view = "overview"))
          /\ calls' = (calls \ {c}) \cup (IF Moved(c) /\ ~busy THEN {again}
                                        ELSE IF reload /\ ~busy THEN {Call("refresh", NET, ROUTE_ID)} ELSE {})
      BY <1>12 DEF PollLands, Lands, serverVars
    <3>2. (Moved(c) => hooks) /\ (reload => hooks) /\ Moved(c) \in BOOLEAN
      BY DEF Moved
    <3>3. \E k \in {"refresh", "light"} : again = Call(k, NET, ROUTE_ID)
      OBVIOUS
    <3> HIDE DEF reload, again
    <3> QED BY <1>0, <3>1, <3>2, <3>3
  <2>4. CASE calls' = calls \ {c} /\ (busy \/ busy' = FALSE)
    <3>1. calls' \subseteq CallType /\ CallsOfRoute'
      BY <1>0, <1>4, <1>7, <2>1, <2>4
    <3>2. busy' \in BOOLEAN
      BY <1>0, <2>1 DEF Moved
    <3>3. busy' => \E d \in calls' : d.id = ROUTE_ID' /\ d.kind \in {"refresh", "light"}
      BY <1>0, <2>1, <2>4
    <3> QED BY <3>1, <3>2, <3>3
  <2>5. ASSUME NEW k \in {"refresh", "light"}, hooks,
               calls' = (calls \ {c}) \cup {Call(k, NET, ROUTE_ID)}
        PROVE  /\ calls' \subseteq CallType /\ CallsOfRoute' /\ busy' \in BOOLEAN
               /\ busy' => \E d \in calls' : d.id = ROUTE_ID' /\ d.kind \in {"refresh", "light"}
    <3>1. calls' \subseteq CallType /\ CallsOfRoute'
      BY <1>0, <1>4, <1>6, <1>7, <2>1, <2>5
    <3>2. busy' \in BOOLEAN
      BY <1>0, <2>1 DEF Moved
    <3>3. Call(k, NET, ROUTE_ID) \in calls'
      BY <2>5
    <3> QED BY <1>6, <2>1, <3>1, <3>2, <3>3
  <2> QED BY <2>1, <2>4, <2>5
<1>13. CASE onmessage
  <2>1. calls' = calls \cup {Poll} /\ UNCHANGED <<tip, NET, ROUTE_ID, hooks, busy>>
    BY <1>13 DEF onmessage, Make
  <2>2. calls' \subseteq CallType /\ CallsOfRoute'
    BY <1>0, <1>4, <1>5, <1>7, <2>1
  <2> QED BY <1>0, <2>1, <2>2
<1>14. CASE onopen
  <2>1. UNCHANGED <<tip, NET, ROUTE_ID, hooks>>
    BY <1>14 DEF onopen, serverVars
  <2>2. \/ calls' = calls /\ busy' = busy
        \/ /\ busy' = (hooks /\ view = "overview")
           /\ \/ hooks /\ ~busy /\ calls' = calls \cup ({Poll} \cup {Call("refresh", NET, ROUTE_ID)})
              \/ ~(hooks /\ ~busy) /\ calls' = calls \cup {Poll}
    BY <1>14 DEF onopen, Make
  <2>3. CASE calls' = calls /\ busy' = busy
    BY <1>0, <1>4, <1>7, <2>1, <2>3
  <2>4. CASE hooks /\ busy' = (hooks /\ view = "overview")
             /\ calls' = calls \cup ({Poll} \cup {Call("refresh", NET, ROUTE_ID)})
    <3>1. calls' \subseteq CallType /\ CallsOfRoute'
      BY <1>0, <1>4, <1>5, <1>6, <1>7, <2>1, <2>4
    <3>2. Call("refresh", NET, ROUTE_ID) \in calls'
      BY <2>4
    <3> QED BY <1>6, <2>1, <2>4, <3>1, <3>2
  <2>5. CASE busy' = (hooks /\ view = "overview") /\ ~(hooks /\ ~busy) /\ calls' = calls \cup {Poll}
    <3>1. calls' \subseteq CallType /\ CallsOfRoute'
      BY <1>0, <1>4, <1>5, <1>7, <2>1, <2>5
    <3> QED BY <1>0, <2>1, <2>5, <3>1
  <2> QED BY <2>2, <2>3, <2>4, <2>5
<1>15. CASE \E n \in Nets : Index(n)
  <2>1. PICK n \in Nets : Index(n)
    BY <1>15
  <2>2. tip' = [tip EXCEPT ![n] = tip[n] + 1] /\ tip[n] < node[n] /\ UNCHANGED <<calls, NET, ROUTE_ID, hooks, busy>>
    BY <2>1 DEF Index, pageVars, pageAndCalls
  <2>3. tip[n] + 1 \in Heights
    BY <1>0, <2>2 DEF Heights, TypeOK
  <2>4. tip' \in [Nets -> Heights] /\ \A m \in Nets : tip[m] <= tip'[m]
    BY <1>0, <2>2, <2>3 DEF Heights
  <2>5. calls' \subseteq CallType /\ CallsOfRoute'
    BY <1>0, <1>4, <2>2, <2>4
  <2> QED BY <1>0, <2>2, <2>5
<1>16. CASE onclose \/ Idle
  <2>1. UNCHANGED <<tip, calls, NET, ROUTE_ID, hooks, busy>>
    BY <1>16 DEF onclose, Idle, pageAndCalls, pageVars
  <2>2. calls' \subseteq CallType /\ CallsOfRoute'
    BY <1>0, <1>4, <1>7, <2>1
  <2> QED BY <1>0, <2>1, <2>2
<1> QED BY <1>2, <1>3, <1>8, <1>9, <1>10, <1>11, <1>12, <1>13, <1>14, <1>15, <1>16, StepCases,
          <1>0, <1>2, <1>3

\* The feed: each block once, upward, and never past the server.
LEMMA FeedStep ==
  ASSUME IInv, [Next]_vars
  PROVE  FeedUpward' /\ wire' \in Seq(Heights)
<1> USE WebAssumption
<1>0. /\ wire \in Seq(Heights) /\ Len(wire) \in Nat /\ NET \in Nets /\ tip \in [Nets -> Heights]
      /\ node \in [Nets -> Heights]
      /\ \A i \in 1..Len(wire) : wire[i] \in Heights /\ wire[i] <= tip[NET]
      /\ \A i, j \in 1..Len(wire) : i < j => wire[i] < wire[j]
  <2>1. wire \in Seq(Heights) /\ NET \in Nets /\ node \in [Nets -> Heights]
    BY DEF IInv, TypeOK
  <2>2. /\ tip \in [Nets -> Heights]
        /\ \A i \in 1..Len(wire) : wire[i] <= tip[NET]
        /\ \A i, j \in 1..Len(wire) : i < j => wire[i] < wire[j]
    BY DEF IInv, FeedUpward
  <2>3. Len(wire) \in Nat /\ \A i \in 1..Len(wire) : wire[i] \in Heights
    BY <2>1
  <2> QED BY <2>1, <2>2, <2>3
<1>1. CASE UNCHANGED <<wire, tip, NET>>
  BY <1>0, <1>1 DEF FeedUpward
<1>2. CASE wire' = <<>> /\ tip' = tip
  BY <1>0, <1>2 DEF FeedUpward
<1>3. CASE onmessage
  <2>1. wire # <<>> /\ wire' = Tail(wire) /\ UNCHANGED <<tip, NET>>
    BY <1>3 DEF onmessage
  <2>2. /\ wire' \in Seq(Heights) /\ Len(wire') = Len(wire) - 1
        /\ \A i \in 1..Len(wire') : wire'[i] = wire[i + 1]
    BY <1>0, <2>1
  <2>3. \A i \in 1..Len(wire') : i + 1 \in 1..Len(wire)
    BY <1>0, <2>2
  <2>4. \A i \in 1..Len(wire') : wire'[i] <= tip'[NET']
    BY <1>0, <2>1, <2>2, <2>3
  <2>5. ASSUME NEW i \in 1..Len(wire'), NEW j \in 1..Len(wire'), i < j
        PROVE  wire'[i] < wire'[j]
    <3>1. i + 1 \in 1..Len(wire) /\ j + 1 \in 1..Len(wire) /\ i + 1 < j + 1
      BY <2>3, <2>5
    <3>2. wire[i + 1] < wire[j + 1]
      BY <1>0, <3>1
    <3> QED BY <2>2, <3>2
  <2> QED BY <1>0, <2>1, <2>2, <2>4, <2>5 DEF FeedUpward
<1>4. ASSUME NEW n \in Nets, Index(n)
      PROVE  FeedUpward' /\ wire' \in Seq(Heights)
  <2>1. /\ tip[n] < node[n] /\ tip' = [tip EXCEPT ![n] = tip[n] + 1] /\ NET' = NET
        /\ \/ n = NET /\ wire' = Append(wire, tip[n] + 1)
           \/ wire' = wire
    BY <1>4 DEF Index, pageAndCalls
  <2>2. tip[n] + 1 \in Heights
    BY <1>0, <2>1 DEF Heights
  <2>3. tip' \in [Nets -> Heights]
    BY <1>0, <2>1, <2>2
  <2>4. tip[NET] <= tip'[NET] /\ tip[NET] \in Int /\ tip'[NET] \in Int
    BY <1>0, <2>1, <2>2 DEF Heights
  <2>5. CASE wire' = wire
    <3>1. \A i \in 1..Len(wire) : wire[i] <= tip'[NET]
      BY <1>0, <2>4 DEF Heights
    <3> QED BY <1>0, <2>1, <2>3, <2>5, <3>1 DEF FeedUpward
  <2>6. CASE n = NET /\ wire' = Append(wire, tip[n] + 1)
    <3> DEFINE new == tip[NET] + 1
    <3>1. /\ wire' \in Seq(Heights) /\ Len(wire') = Len(wire) + 1 /\ wire'[Len(wire')] = new
          /\ \A i \in 1..Len(wire) : wire'[i] = wire[i]
      BY <1>0, <2>2, <2>6
    <3>2. tip'[NET] = new /\ tip[NET] \in Int /\ new \in Int
      BY <1>0, <2>1, <2>4, <2>6
    <3>3. \A i \in 1..Len(wire') : i \in 1..Len(wire) \/ i = Len(wire')
      BY <1>0, <3>1
    <3>4. ASSUME NEW i \in 1..Len(wire) PROVE wire'[i] < new /\ wire'[i] \in Int /\ i < Len(wire')
      <4>1. wire'[i] = wire[i] /\ wire[i] <= tip[NET] /\ wire[i] \in Int
        <5>1. wire'[i] = wire[i] /\ wire[i] \in Heights /\ wire[i] <= tip[NET]
          BY <1>0, <3>1
        <5> QED BY <5>1, HeightsFinite
      <4> QED BY <1>0, <3>1, <3>2, <4>1
    <3> HIDE DEF new
    <3>5. \A i \in 1..Len(wire') : wire'[i] <= tip'[NET]
      BY <3>1, <3>2, <3>3, <3>4
    <3>6. ASSUME NEW i \in 1..Len(wire'), NEW j \in 1..Len(wire'), i < j
          PROVE  wire'[i] < wire'[j]
      <4>1. i \in 1..Len(wire)
        BY <1>0, <3>1, <3>6
      <4>2. CASE j = Len(wire')
        BY <3>1, <3>4, <4>1, <4>2
      <4>3. CASE j \in 1..Len(wire)
        BY <1>0, <3>1, <3>6, <4>1, <4>3
      <4> QED BY <3>3, <4>2, <4>3
    <3> QED BY <2>1, <2>3, <3>1, <3>5, <3>6 DEF FeedUpward
  <2> QED BY <2>1, <2>5, <2>6
<1>5. \/ UNCHANGED <<wire, tip, NET>>
      \/ wire' = <<>> /\ tip' = tip
      \/ onmessage
      \/ \E n \in Nets : Index(n)
  BY StepCases DEF hashchange, switchNet, PollTimer, Answer, RenderLands, RefreshLands, PollLands,
     onopen, onclose, serverVars, Idle, pageAndCalls
<1> QED BY <1>1, <1>2, <1>3, <1>4, <1>5

-----------------------------------------------------------------------------
(* The turnstile.                                                            *)

LEMMA Recorded ==
  ASSUME IInv, NEW n \in Nets, NEW S \in SUBSET Heights, recordTurnstileBlocks(n, S)
  PROVE  CountedSeen' /\ seen' \in Heights \cup {-1} /\ turns' \in Nat
<1> USE HeightsFinite DEF IInv
<1>0. /\ seen \in Heights \cup {-1} /\ IsFiniteSet(counted) /\ turns = Cardinality(counted) /\ turns \in Nat
      /\ \A q \in counted : q \in Nets \X Heights /\ q[2] <= seen
  BY DEF TypeOK, CountedSeen
<1> DEFINE U == Unseen(S)
           new == Tag(n, U)
<1>1. U \subseteq Heights /\ \A h \in U : h > seen /\ h \in S
  BY DEF Unseen
<1>2. IsFiniteSet(U) /\ IsFiniteSet(new) /\ Cardinality(new) = Cardinality(U)
  <2>1. IsFiniteSet(U)
    BY <1>1
  <2> HIDE DEF U, IInv
  <2> QED BY <2>1, Tagged
<1>3. counted \cap new = {}
  <2>1. ASSUME NEW h \in U, <<n, h>> \in counted PROVE FALSE
    <3>1. <<n, h>>[2] <= seen
      BY <1>0, <2>1
    <3>2. h \in Int /\ seen \in Int /\ h > seen
      BY <1>0, <1>1
    <3> QED BY <3>1, <3>2
  <2> HIDE DEF U
  <2> QED BY <2>1 DEF Tag
<1>4. IsFiniteSet(counted \cup new) /\ Cardinality(counted \cup new) = Cardinality(counted) + Cardinality(new)
  <2> HIDE DEF new
  <2>1. IsFiniteSet(counted \cup new)
        /\ Cardinality(counted \cup new) = Cardinality(counted) + Cardinality(new) - Cardinality(counted \cap new)
    BY <1>0, <1>2, FS_Union
  <2>2. Cardinality(counted \cap new) = 0 /\ Cardinality(counted) \in Nat /\ Cardinality(new) \in Nat
    BY <1>0, <1>2, <1>3, FS_EmptySet, FS_CardinalityType
  <2> QED BY <2>1, <2>2
<1>5. counted' = counted \cup new /\ turns' = turns + Cardinality(U) /\ seen' = Highest(S \cup {seen})
  BY DEF recordTurnstileBlocks, Tag
<1>6. seen' \in S \cup {seen} /\ \A k \in S \cup {seen} : k <= seen'
  <2>1. S \cup {seen} \subseteq Heights \cup {-1} /\ S \cup {seen} # {}
    BY <1>0
  <2>2. IsFiniteSet(S \cup {seen}) /\ S \cup {seen} \in SUBSET Int
    BY <2>1
  <2> QED BY <1>5, <2>1, <2>2, HasHighest
<1>7. ASSUME NEW q \in counted' PROVE q \in Nets \X Heights /\ q[2] <= seen'
  <2>1. CASE q \in counted
    <3>1. q \in Nets \X Heights /\ q[2] <= seen /\ seen <= seen'
      BY <1>0, <1>6, <2>1
    <3>2. q[2] \in Int /\ seen \in Int /\ seen' \in Int
      BY <1>0, <1>6, <3>1
    <3> QED BY <3>1, <3>2
  <2>2. CASE q \in new
    <3>1. PICK h \in U : q = <<n, h>>
      BY <2>2 DEF Tag
    <3>2. h \in S /\ h \in Heights /\ h <= seen'
      BY <1>1, <1>6
    <3> QED BY <3>1, <3>2
  <2> QED BY <1>5, <2>1, <2>2
<1>8. turns' \in Nat /\ turns' = Cardinality(counted')
  <2> HIDE DEF new, U
  <2>1. Cardinality(U) \in Nat
    BY <1>2, FS_CardinalityType
  <2> QED BY <1>0, <1>2, <1>4, <1>5, <2>1
<1>9. seen' \in Heights \cup {-1}
  BY <1>0, <1>6
<1> HIDE DEF new, U
<1> QED BY <1>4, <1>5, <1>7, <1>8, <1>9 DEF CountedSeen

LEMMA CountStep ==
  ASSUME IInv, [Next]_vars
  PROVE  CountedSeen' /\ seen' \in Heights \cup {-1} /\ turns' \in Nat
<1>0. /\ calls \subseteq CallType /\ NET \in Nets /\ wire \in Seq(Heights)
      /\ seen \in Heights \cup {-1} /\ turns \in Nat /\ CountedSeen
  BY DEF IInv, TypeOK, CallType, AnswerType
<1>1. CASE UNCHANGED turnVars
  BY <1>0, <1>1 DEF turnVars, CountedSeen
<1>2. ASSUME NEW c \in calls, c.answer # NoAnswer, recordTurnstileBlocks(c.net, Page(c.answer.indexed))
      PROVE  CountedSeen' /\ seen' \in Heights \cup {-1} /\ turns' \in Nat
  <2>1. c.net \in Nets /\ c.answer.indexed \in Heights
    BY <1>0, <1>2 DEF CallType, IInv, CallsOfRoute
  <2>2. Page(c.answer.indexed) \in SUBSET Heights
    BY <2>1, PageFacts
  <2> QED BY <1>2, <2>1, <2>2, Recorded
<1>3. CASE onmessage
  <2>1. recordTurnstileBlocks(NET, {Head(wire)}) /\ wire # <<>>
    BY <1>3 DEF onmessage
  <2>2. {Head(wire)} \in SUBSET Heights
    BY <1>0, <2>1
  <2> QED BY <1>0, <2>1, <2>2, Recorded
<1>4. \/ UNCHANGED turnVars
      \/ \E c \in calls : c.answer # NoAnswer /\ recordTurnstileBlocks(c.net, Page(c.answer.indexed))
      \/ onmessage
  BY StepCases DEF hashchange, switchNet, PollTimer, Answer, RenderLands, RefreshLands, PollLands,
     Lands, Listed, onopen, onclose, Index, Idle, pageAndCalls, turnVars
<1> QED BY <1>1, <1>2, <1>3, <1>4

-----------------------------------------------------------------------------
(* The list.                                                                 *)

\* What a step does to the list: a list of the route lands, patchHtml skips one, the
\* page is cleared, the feed adds a row, or nothing.
ListLands(c) == /\ rows' = Tag(c.net, Page(c.answer.indexed)) /\ top' = Highest(Page(c.answer.indexed))
                /\ patched' \in {{}, Page(c.answer.indexed)} /\ hooks' = TRUE
ListSkipped(c) == /\ patched = Page(c.answer.indexed) /\ top' = Highest(patched)
                  /\ hooks /\ UNCHANGED <<rows, patched, hooks>>
Cleared == rows' = {} /\ patched' = {} /\ top' = -1 /\ hooks' = FALSE /\ tip' = tip
Added == /\ onmessage /\ hooks /\ Head(wire) > top /\ top' = Head(wire)
         /\ rows' = Capped(rows \cup {<<NET, Head(wire)>>}) /\ UNCHANGED <<patched, hooks>>
Kept == UNCHANGED <<rows, patched, top, hooks, NET>>

LEMMA ListSteps ==
  ASSUME IInv, [Next]_vars
  PROVE  \/ /\ \E c \in calls : /\ c.answer # NoAnswer /\ c.id = ROUTE_ID /\ c.net = NET
                                /\ ListLands(c) \/ ListSkipped(c)
            /\ UNCHANGED <<tip, wire, NET>>
         \/ Cleared \/ Added
         \/ Kept /\ (UNCHANGED <<tip, wire>> \/ (tip' = tip /\ wire' = <<>>) \/ onmessage \/ \E n \in Nets : Index(n))
<1>1. ASSUME NEW c \in calls, RenderLands(c) \/ RefreshLands(c)
      PROVE  \/ c.answer # NoAnswer /\ c.id = ROUTE_ID /\ c.net = NET /\ (ListLands(c) \/ ListSkipped(c))
             \/ Kept
  <2>1. c.answer # NoAnswer /\ NET' = NET
    BY <1>1 DEF RenderLands, RefreshLands, Lands
  <2>2. Current(c) => c.id = ROUTE_ID /\ c.net = NET /\ (c.kind \in {"refresh", "light"} => hooks)
    BY DEF Current, IInv, CallsOfRoute
  <2>3. ASSUME ShowList(c)
        PROVE  rows' = Tag(c.net, Page(c.answer.indexed)) /\ top' = Highest(Page(c.answer.indexed))
    BY <2>3 DEF ShowList, Tag, Listed
  <2>4. CASE RenderLands(c)
    <3>1. \/ Current(c) /\ ShowList(c) /\ patched' = {} /\ hooks' = TRUE
          \/ UNCHANGED <<rows, patched, top, hooks>>
      BY <2>4 DEF RenderLands, pageVars
    <3> QED BY <2>1, <2>2, <2>3, <3>1 DEF ListLands, Kept
  <2>5. CASE RefreshLands(c)
    <3>1. \/ Current(c) /\ c.kind = "refresh" /\ PatchList(c) /\ hooks' = hooks
          \/ UNCHANGED <<rows, patched, top, hooks>>
      BY <2>5 DEF RefreshLands, pageVars
    <3>2. hooks \in BOOLEAN
      BY DEF IInv, TypeOK
    <3>3. PatchList(c) => /\ patched' = Page(c.answer.indexed)
                          /\ ShowList(c) \/ (patched = Page(c.answer.indexed) /\ top' = Highest(Page(c.answer.indexed)) /\ rows' = rows)
      <4>1. ASSUME PatchList(c), MaySkip(c), top' = Highest(patched)
            PROVE  patched = Page(c.answer.indexed) /\ top' = Highest(Page(c.answer.indexed))
        BY <4>1 DEF MaySkip, Listed
      <4> QED BY <4>1 DEF PatchList, MaySkip, Listed
    <3> QED BY <2>1, <2>2, <2>3, <3>1, <3>2, <3>3 DEF ListLands, ListSkipped, Kept
  <2> QED BY <1>1, <2>4, <2>5
<1>2. ASSUME NEW c \in calls, RenderLands(c) \/ RefreshLands(c) PROVE UNCHANGED <<tip, wire, NET>>
  BY <1>2 DEF RenderLands, RefreshLands, serverVars
<1>3. hashchange \/ switchNet => Cleared
  BY DEF hashchange, switchNet, route, Cleared, serverVars
<1>4. onmessage => Added \/ Kept
  BY DEF onmessage, Prepends, Added, Kept
<1>5. ASSUME PollTimer \/ onopen \/ Idle \/ \E c \in calls : Answer(c) \/ PollLands(c)
      PROVE  Kept /\ UNCHANGED <<tip, wire>>
  BY <1>5 DEF PollTimer, onopen, Answer, PollLands, Kept, serverVars, pageVars, Idle, pageAndCalls
<1>6. onclose => Kept /\ tip' = tip /\ wire' = <<>>
  BY DEF onclose, Kept, pageVars
<1>7. \A n \in Nets : Index(n) => Kept
  BY DEF Index, Kept, pageVars, pageAndCalls
<1> QED BY <1>1, <1>2, <1>3, <1>4, <1>5, <1>6, <1>7, StepCases

LEMMA TypeStep ==
  ASSUME IInv, [Next]_vars
  PROVE  TypeOK'
<1> USE WebAssumption
<1>0. /\ calls \subseteq CallType /\ {open, dropped, hooks, busy, unready} \subseteq BOOLEAN
      /\ NET \in Nets /\ ROUTE_ID \in 1..MaxRoutes /\ view \in Views
      /\ rows \subseteq Nets \X Heights /\ patched \subseteq Heights
      /\ top \in Heights \cup {-1} /\ height \in Heights \cup {-1}
      /\ stale \in 0..1 /\ wire \in Seq(Heights)
  BY DEF IInv, TypeOK, CallType, AnswerType
<1>1. open' \in BOOLEAN /\ dropped' \in BOOLEAN
  BY <1>0, StepCases DEF hashchange, switchNet, PollTimer, Answer, RenderLands, RefreshLands, PollLands,
     onmessage, onopen, onclose, Index, socketVars, Idle, pageAndCalls
<1>2. NET' \in Nets /\ ROUTE_ID' \in 1..MaxRoutes /\ view' \in Views
  <2>1. CASE hashchange
    BY <1>0, <2>1 DEF hashchange, route
  <2>2. CASE switchNet
    BY <1>0, <2>2 DEF switchNet, route
  <2>3. CASE UNCHANGED <<NET, ROUTE_ID, view>>
    BY <1>0, <2>3
  <2>4. hashchange \/ switchNet \/ UNCHANGED <<NET, ROUTE_ID, view>>
    BY StepCases DEF PollTimer, Answer, RenderLands, RefreshLands, PollLands,
       onmessage, onopen, onclose, Index, pageVars, Idle, pageAndCalls
  <2> QED BY <2>1, <2>2, <2>3, <2>4
<1>3. stale' \in 0..1
  <2>1. ASSUME NEW c \in calls, PollLands(c) PROVE stale' \in 0..1
    <3> DEFINE b == Behind(c)
               ticks == IF b THEN stale + 1 ELSE 0
               reload == hooks /\ (BecameReady(c) \/ (b /\ (~open \/ ticks >= 2)))
    <3>1. stale' = IF reload THEN 0 ELSE ticks
      BY <2>1 DEF PollLands
    <3>2. b => hooks
      BY DEF Behind
    <3>3. ticks = 2 => reload
      BY <1>0, <3>2
    <3>4. ticks \in 0..2
      BY <1>0
    <3> HIDE DEF reload, ticks
    <3> QED BY <3>1, <3>3, <3>4
  <2>2. CASE stale' = stale
    BY <1>0, <2>2
  <2>3. stale' = stale \/ \E c \in calls : PollLands(c)
    BY StepCases DEF hashchange, switchNet, PollTimer, Answer, RenderLands, RefreshLands,
       onmessage, onopen, onclose, Index, Idle, pageAndCalls, pollVars
  <2> QED BY <2>1, <2>2, <2>3
<1>8. unready' \in BOOLEAN
  <2>1. \/ unready' \in {unready, FALSE}
        \/ \E c \in calls : unready' = ~c.answer.ready
    BY StepCases DEF hashchange, switchNet, PollTimer, Answer, RenderLands, RefreshLands, PollLands,
       onmessage, onopen, onclose, Index, Idle, pageAndCalls, pollVars
  <2> QED BY <1>0, <2>1
<1>4. ASSUME NEW c \in calls, c.answer # NoAnswer
      PROVE  /\ c.answer.indexed \in Heights /\ Page(c.answer.indexed) \subseteq Heights /\ Highest(Page(c.answer.indexed)) \in Heights
             /\ Tag(c.net, Page(c.answer.indexed)) \subseteq Nets \X Heights
  <2>1. c.net \in Nets /\ c.answer.indexed \in Heights
    BY <1>0, <1>4 DEF CallType, IInv, CallsOfRoute
  <2> QED BY <2>1, PageFacts DEF Tag
<1>5. /\ rows' \subseteq Nets \X Heights /\ patched' \subseteq Heights
      /\ top' \in Heights \cup {-1} /\ hooks' \in BOOLEAN
  <2>1. ASSUME NEW c \in calls, c.answer # NoAnswer, ListLands(c) \/ ListSkipped(c)
        PROVE  /\ rows' \subseteq Nets \X Heights /\ patched' \subseteq Heights
               /\ top' \in Heights \cup {-1} /\ hooks' \in BOOLEAN
    BY <1>0, <1>4, <2>1 DEF ListLands, ListSkipped
  <2>2. CASE Added
    <3>1. wire # <<>> /\ hooks' = hooks /\ patched' = patched /\ top' = Head(wire)
          /\ rows' = Capped(rows \cup {<<NET, Head(wire)>>})
      BY <2>2 DEF Added, onmessage
    <3>3. Head(wire) \in Heights
      BY <1>0, <3>1
    <3>2. Capped(rows \cup {<<NET, Head(wire)>>}) \subseteq rows \cup {<<NET, Head(wire)>>}
      BY DEF Capped
    <3> HIDE DEF Capped
    <3>4. <<NET, Head(wire)>> \in Nets \X Heights
      BY <1>0, <3>3
    <3>5. rows' \subseteq Nets \X Heights
      BY <1>0, <3>1, <3>2, <3>4
    <3> QED BY <1>0, <3>1, <3>3, <3>5
  <2>3. CASE Cleared
    BY <2>3 DEF Cleared
  <2>4. CASE Kept
    BY <1>0, <2>4 DEF Kept
  <2> QED BY <2>1, <2>2, <2>3, <2>4, ListSteps
<1>6. height' \in Heights \cup {-1}
  <2>1. CASE \E c \in calls : RenderLands(c) \/ PollLands(c)
    <3>1. PICK c \in calls : RenderLands(c) \/ PollLands(c)
      BY <2>1
    <3>2. height' \in {height, c.answer.node}
      BY <3>1 DEF RenderLands, PollLands, pageVars
    <3>3. c.answer.node \in Heights \cup {-1}
      BY <1>0 DEF CallType, AnswerType
    <3> QED BY <1>0, <3>2, <3>3
  <2>2. CASE height' \in {-1, height}
    BY <1>0, <2>2
  <2>3. height' \in {-1, height} \/ \E c \in calls : RenderLands(c) \/ PollLands(c)
    BY StepCases DEF hashchange, switchNet, route, PollTimer, Answer, RefreshLands,
       onmessage, onopen, onclose, Index, pageVars, Idle, pageAndCalls
  <2> QED BY <2>1, <2>2, <2>3
<1>7. calls' \subseteq CallType /\ busy' \in BOOLEAN
      /\ (busy' => \E c \in calls' : c.id = ROUTE_ID' /\ c.kind \in {"refresh", "light"})
      /\ wire' \in Seq(Heights) /\ tip' \in [Nets -> Heights]
      /\ seen' \in Heights \cup {-1} /\ turns' \in Nat
  BY CallSteps, FeedStep, CountStep DEF FeedUpward
<1> QED BY <1>1, <1>2, <1>3, <1>5, <1>6, <1>7, <1>8, ServerStep DEF TypeOK, CallType, AnswerType

\* The newest height of a set of rows of one network.
LEMMA ShownIs ==
  ASSUME NEW R, IsFiniteSet(R), R # {}, NEW n, R \subseteq {n} \X Heights
  PROVE  /\ \E r \in R : r[2] = Highest({q[2] : q \in R})
         /\ \A r \in R : r[2] <= Highest({q[2] : q \in R})
         /\ Highest({q[2] : q \in R}) \in Heights
<1> DEFINE S == {q[2] : q \in R}
<1>1. S \subseteq Heights /\ S # {}
  OBVIOUS
<1>2. IsFiniteSet(S) /\ S \in SUBSET Int
  BY <1>1, HeightsFinite
<1>3. Highest(S) \in S /\ \A k \in S : k <= Highest(S)
  <2> HIDE DEF S
  <2> QED BY <1>1, <1>2, HasHighest
<1>4. \A r \in R : r[2] \in S
  OBVIOUS
<1>5. \E r \in R : r[2] = Highest(S)
  BY <1>3
<1> HIDE DEF S
<1>6. \A r \in R : r[2] <= Highest(S)
  BY <1>3, <1>4
<1> QED BY <1>1, <1>3, <1>5, <1>6 DEF S

LEMMA RowsStep ==
  ASSUME IInv, [Next]_vars
  PROVE  RowsOfNet'
<1> USE WebAssumption
<1>0. /\ calls \subseteq CallType /\ NET \in Nets /\ wire \in Seq(Heights) /\ hooks \in BOOLEAN
      /\ top \in Heights \cup {-1} /\ patched \subseteq Heights /\ tip \in [Nets -> Heights]
      /\ RowsOfNet /\ FeedUpward
  BY DEF IInv, TypeOK, CallType, AnswerType, FeedUpward
<1>1. ASSUME NEW c \in calls, c.answer # NoAnswer, c.id = ROUTE_ID, c.net = NET, ListLands(c),
             UNCHANGED <<tip, wire, NET>>
      PROVE  RowsOfNet'
  <2> DEFINE t == c.answer.indexed
             P == Page(t)
  <2>1. t \in Heights /\ t \in Int /\ t <= tip[NET]
    BY <1>0, <1>1, HeightsFinite DEF CallType, IInv, CallsOfRoute
  <2>2. /\ P \subseteq Heights /\ P \subseteq 0..t /\ t \in P /\ IsFiniteSet(P) /\ Highest(P) = t
        /\ Cardinality(P) <= PageSize
    BY <2>1, PageFacts
  <2>3. rows' = Tag(NET, P) /\ top' = Highest(P) /\ patched' \in {{}, P} /\ hooks' = TRUE
    BY <1>1 DEF ListLands
  <2> HIDE DEF P, t
  <2>4. IsFiniteSet(rows') /\ Cardinality(rows') <= PageSize /\ {r[2] : r \in rows'} = P
    BY <2>2, <2>3, Tagged
  <2>5. Shown' = t
    BY <2>2, <2>4 DEF Shown
  <2>6. \A r \in rows' : r \in {NET'} \X Heights /\ r[2] <= tip'[NET']
    <3>1. \A h \in P : h \in Heights /\ h <= tip[NET]
      <4>1. \A h \in P : h \in Heights /\ h \in Int /\ h <= t
        BY <2>1, <2>2
      <4>2. tip[NET] \in Int
        BY <1>0, HeightsFinite
      <4> QED BY <2>1, <4>1, <4>2
    <3> QED BY <1>1, <2>3, <3>1 DEF Tag
  <2>7. <<NET, t>> \in rows'
    BY <2>2, <2>3 DEF Tag
  <2> QED BY <2>1, <2>2, <2>3, <2>4, <2>5, <2>6, <2>7, FS_EmptySet DEF RowsOfNet
<1>2. ASSUME NEW c \in calls, c.answer # NoAnswer, ListSkipped(c), UNCHANGED <<tip, wire, NET>>
      PROVE  RowsOfNet'
  <2>1. c.answer.indexed \in Heights
    BY <1>0, <1>2 DEF IInv, CallsOfRoute
  <2>2. patched # {} /\ hooks /\ top' = Highest(patched) /\ UNCHANGED <<rows, patched, hooks>>
    BY <1>2, <2>1, PageFacts DEF ListSkipped
  <2>3. Shown' = Shown
    BY <2>2 DEF Shown
  <2> QED BY <1>0, <1>2, <2>2, <2>3 DEF RowsOfNet
<1>3. CASE Cleared
  <2>1. IsFiniteSet({}) /\ Cardinality({}) = 0
    BY FS_EmptySet
  <2> QED BY <1>3, <2>1 DEF Cleared, RowsOfNet
<1>4. CASE Added
  <2> DEFINE h == Head(wire)
             all == rows \cup {<<NET, h>>}
  <2>1. /\ wire # <<>> /\ wire' = Tail(wire) /\ UNCHANGED <<tip, NET, patched, hooks>> /\ hooks
        /\ h > top /\ top' = h /\ rows' = Capped(all)
    BY <1>4 DEF Added, onmessage
  <2>2. /\ Len(wire) \in Nat /\ 1 \in 1..Len(wire) /\ h = wire[1] /\ h \in Heights /\ h \in Int /\ h <= tip[NET]
        /\ Len(wire') = Len(wire) - 1
        /\ \A i \in 1..Len(wire') : wire'[i] = wire[i + 1] /\ i + 1 \in 1..Len(wire)
    <3>1. Len(wire) \in Nat /\ 1 \in 1..Len(wire) /\ h = wire[1] /\ h \in Heights
      BY <1>0, <2>1
    <3>2. h <= tip[NET] /\ h \in Int
      BY <1>0, <3>1, HeightsFinite DEF FeedUpward
    <3>3. Len(wire') = Len(wire) - 1 /\ \A i \in 1..Len(wire') : wire'[i] = wire[i + 1] /\ i + 1 \in 1..Len(wire)
      BY <1>0, <2>1
    <3> QED BY <3>1, <3>2, <3>3
  <2>3. rows # {} /\ rows \subseteq {NET} \X Heights /\ IsFiniteSet(rows)
        /\ \A r \in rows : r[2] <= tip[NET]
    BY <1>0, <2>1 DEF RowsOfNet
  <2>4. Shown < h /\ Shown \in Int
    <3>1. Shown \in Heights /\ Shown \in Int
      BY <2>3, ShownIs, HeightsFinite DEF Shown
    <3>2. CASE top = Shown
      BY <2>1, <3>1, <3>2
    <3>3. CASE top # Shown
      <4>1. patched # {} /\ top = Highest(patched) /\ Highest(patched) <= Shown
        BY <1>0, <2>1, <3>3 DEF RowsOfNet
      <4>2. Highest(patched) < Shown
        BY <1>0, <3>1, <3>3, <4>1, HeightsFinite
      <4> QED BY <1>0, <2>1, <2>2, <3>1, <4>1, <4>2 DEF RowsOfNet
    <3> QED BY <3>2, <3>3
  <2>5. \A r \in rows : r[2] <= h
    <3>1. \A r \in rows : r[2] <= Shown /\ r[2] \in Int
      BY <2>3, ShownIs, HeightsFinite DEF Shown
    <3> QED BY <2>2, <2>4, <3>1
  <2>6. IsFiniteSet(all) /\ all \subseteq {NET} \X Heights /\ <<NET, h>> \in all /\ \A r \in all : r[2] <= h
    <3>1. IsFiniteSet(all)
      BY <2>3, FS_AddElement
    <3>2. <<NET, h>> \in {NET} \X Heights /\ <<NET, h>>[2] <= h
      BY <2>2
    <3> HIDE DEF h
    <3> QED BY <2>3, <2>5, <3>1, <3>2
  <2>7. /\ rows' \subseteq all /\ IsFiniteSet(rows') /\ Cardinality(rows') <= PageSize
        /\ <<NET, h>> \in rows'
    <3>1. <<NET, h>>[2] = h
      OBVIOUS
    <3> HIDE DEF all, h
    <3> QED BY <2>1, <2>6, <3>1, CappedFacts
  <2> HIDE DEF all, h
  <2>8. Shown' = h
    <3> DEFINE S == {r[2] : r \in rows'}
    <3>1. h \in S /\ S \subseteq Heights
      BY <2>2, <2>6, <2>7
    <3>2. \A k \in S : k <= h
      BY <2>6, <2>7
    <3>3. S \in SUBSET Int
      BY <3>1, HeightsFinite
    <3> HIDE DEF S
    <3>4. Highest(S) = h
      BY <3>1, <3>2, <3>3, HighestIs
    <3> QED BY <3>4 DEF S, Shown
  <2>9. \A r \in rows' : r \in {NET'} \X Heights /\ r[2] <= tip'[NET']
    <3>1. \A r \in rows' : r \in {NET} \X Heights /\ r[2] <= h
      BY <2>6, <2>7
    <3>2. \A r \in rows' : r[2] \in Int
      BY <3>1, HeightsFinite
    <3>3. tip[NET] \in Int
      BY <1>0, HeightsFinite
    <3> QED BY <2>1, <2>2, <3>1, <3>2, <3>3
  <2>10. \A i \in 1..Len(wire') : h < wire'[i]
    <3>1. \A i \in 1..Len(wire') : 1 < i + 1 /\ i + 1 \in 1..Len(wire)
      BY <2>2
    <3>2. \A i, j \in 1..Len(wire) : i < j => wire[i] < wire[j]
      BY <1>0 DEF FeedUpward
    <3> QED BY <2>2, <3>1, <3>2
  <2>11. patched # {} => IsFiniteSet(patched) /\ Highest(patched) <= h
    <3>1. ASSUME patched # {} PROVE IsFiniteSet(patched) /\ Highest(patched) <= Shown
      BY <1>0, <2>1, <3>1 DEF RowsOfNet
    <3>2. ASSUME patched # {} PROVE Highest(patched) \in Int
      <4>1. IsFiniteSet(patched) /\ patched \in SUBSET Int
        BY <1>0, HeightsFinite
      <4> QED BY <3>2, <4>1, HasHighest
    <3> QED BY <2>2, <2>4, <3>1, <3>2
  <2> QED BY <2>1, <2>7, <2>8, <2>9, <2>10, <2>11 DEF RowsOfNet
<1>5. ASSUME Kept, tip' \in [Nets -> Heights], tip[NET] <= tip'[NET],
             hooks /\ patched # {} /\ Highest(patched) < Shown => \A i \in 1..Len(wire') : Shown < wire'[i]
      PROVE  RowsOfNet'
  <2>1. Shown' = Shown /\ UNCHANGED <<rows, patched, top, hooks, NET>>
    BY <1>5 DEF Shown, Kept
  <2>2. \A r \in rows : r \in {NET} \X Heights /\ r[2] <= tip'[NET]
    <3>1. \A r \in rows : r \in {NET} \X Heights /\ r[2] <= tip[NET]
      BY <1>0 DEF RowsOfNet
    <3>2. \A r \in rows : r[2] \in Int
      BY <3>1, HeightsFinite
    <3>3. tip[NET] \in Int /\ tip'[NET] \in Int
      BY <1>0, <1>5, HeightsFinite
    <3> QED BY <1>5, <3>1, <3>2, <3>3
  <2> QED BY <1>0, <1>5, <2>1, <2>2 DEF RowsOfNet
<1>6. /\ tip[NET] \in Int /\ tip[NET] <= tip[NET]
      /\ hooks /\ patched # {} /\ Highest(patched) < Shown => \A i \in 1..Len(wire) : Shown < wire[i]
  <2>1. tip[NET] \in Int
    BY <1>0, HeightsFinite
  <2> QED BY <1>0, <2>1 DEF RowsOfNet
<1>7. CASE Kept /\ (UNCHANGED <<tip, wire>> \/ (tip' = tip /\ wire' = <<>>))
  BY <1>0, <1>5, <1>6, <1>7
<1>8. CASE Kept /\ onmessage
  <2>1. wire # <<>> /\ wire' = Tail(wire) /\ tip' = tip
    BY <1>8 DEF onmessage
  <2>2. \A i \in 1..Len(wire') : wire'[i] = wire[i + 1] /\ i + 1 \in 1..Len(wire)
    BY <1>0, <2>1
  <2> QED BY <1>0, <1>5, <1>6, <1>8, <2>1, <2>2
<1>9. CASE Kept /\ \E n \in Nets : Index(n)
  <2>1. PICK n \in Nets : Index(n)
    BY <1>9
  <2>2. /\ tip' = [tip EXCEPT ![n] = tip[n] + 1]
        /\ (n = NET /\ wire' = Append(wire, tip[n] + 1)) \/ wire' = wire
    BY <2>1 DEF Index
  <2>3. tip' \in [Nets -> Heights]
    BY FeedStep DEF FeedUpward
  <2>4. tip[NET] <= tip'[NET]
    BY <1>0, <1>6, <2>2
  <2>5. ASSUME hooks, patched # {}, Highest(patched) < Shown, NEW i \in 1..Len(wire')
        PROVE  Shown < wire'[i]
    <3>1. CASE wire' = wire
      BY <1>6, <2>5, <3>1
    <3>2. CASE n = NET /\ wire' = Append(wire, tip[NET] + 1)
      <4>1. CASE i \in 1..Len(wire)
        <5>1. wire'[i] = wire[i]
          BY <1>0, <3>2, <4>1
        <5> QED BY <1>6, <2>5, <4>1, <5>1
      <4>2. CASE i = Len(wire) + 1
        <5>1. wire'[i] = tip[NET] + 1
          BY <1>0, <3>2, <4>2
        <5>2. rows # {} /\ rows \subseteq {NET} \X Heights /\ IsFiniteSet(rows) /\ \A r \in rows : r[2] <= tip[NET]
          BY <1>0, <2>5 DEF RowsOfNet
        <5>3. Shown <= tip[NET] /\ Shown \in Int
          BY <5>2, ShownIs, HeightsFinite DEF Shown
        <5> QED BY <1>6, <5>1, <5>3
      <4> QED BY <1>0, <2>5, <3>2, <4>1, <4>2
    <3> QED BY <2>2, <3>1, <3>2
  <2> QED BY <1>5, <1>9, <2>3, <2>4, <2>5
<1> QED BY <1>1, <1>2, <1>3, <1>4, <1>7, <1>8, <1>9, ListSteps

-----------------------------------------------------------------------------
(* The theorems.                                                             *)

LEMMA InvStep == IInv /\ [Next]_vars => IInv'
<1> SUFFICES ASSUME IInv, [Next]_vars PROVE IInv'
  OBVIOUS
<1> QED BY TypeStep, CallSteps, FeedStep, RowsStep, CountStep DEF IInv

LEMMA Invariant == Spec => []IInv
<1> QED BY InvInit, InvStep, PTL DEF Spec

LEMMA PageFromInv == IInv => PageSound
<1> SUFFICES ASSUME IInv PROVE PageSound
  OBVIOUS
<1>1. PageIsCurrent
  BY DEF IInv, RowsOfNet, PageIsCurrent
<1>2. ASSUME hooks
      PROVE  top = Shown \/ (top < Shown /\ top = Highest(patched))
  <2>1. CASE patched = {}
    BY <1>2, <2>1 DEF IInv, RowsOfNet
  <2>2. CASE patched # {} /\ top # Shown
    <3>1. top = Highest(patched) /\ Highest(patched) <= Shown
      BY <1>2, <2>2 DEF IInv, RowsOfNet
    <3>2. rows # {} /\ IsFiniteSet(rows) /\ rows \subseteq {NET} \X Heights
      BY <1>2 DEF IInv, RowsOfNet
    <3>3. Shown \in Int
      BY <3>2, ShownIs, HeightsFinite DEF Shown
    <3>4. top \in Int
      BY HeightsFinite DEF IInv, TypeOK
    <3> QED BY <2>2, <3>1, <3>3, <3>4
  <2> QED BY <2>1, <2>2
<1>3. TopIsTop
  BY <1>2 DEF TopIsTop, Shown
<1> QED BY <1>1, <1>3 DEF IInv, PageSound

\* A live list is a page of the selected network, no longer than a page, and its tip
\* is its newest row except where patchHtml skipped a list (app.js, setView, patchHtml,
\* prependLiveBlock), whatever calls and messages of other routes still arrive.
THEOREM PageCorrect == Spec => []PageSound
<1> QED BY Invariant, PageFromInv, PTL

\* No height turns the rotor twice, over the feed, the overview's lists and its
\* refreshes in any order (app.js, recordTurnstileBlocks).
THEOREM CountedCorrect == Spec => []CountedOnce
<1>1. IInv => CountedOnce
  BY DEF IInv, CountedSeen, CountedOnce
<1> QED BY <1>1, Invariant, PTL

=============================================================================
