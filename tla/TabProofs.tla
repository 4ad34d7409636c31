------------------------------ MODULE TabProofs ------------------------------
(***************************************************************************)
(* Proofs about a tab of the browser, for every number of requests,        *)
(* changes, moves and failures: what its pages show (LiveViews), whom it   *)
(* takes for signed in (Session), and what the viewer of a service settles *)
(* on (Viewer).                                                            *)
(***************************************************************************)
EXTENDS LiveViews, Session, Viewer, Lists, SequenceTheorems, FiniteSetTheorems,
        WellFoundedInduction, TLAPS

(***************************************************************************)
(* LiveViews.  The argument: as long as the page has no excuse, whatever   *)
(* the database has and the page has not read is announced by news that    *)
(* still has to reach it.                                                  *)
(***************************************************************************)
Emits(o) == Op[o].emits
Tells(p, events) == \E i \in DOMAIN events : p \in Refreshed(events[i])

\* A handler that has committed, an event on its way, or a connection to come
\* back, upon which everything is fetched.
Committed(p) == \E r \in Requests : req[r].at = "emit" /\ Tells(p, Emits(req[r].op))
News(p) == Committed(p) \/ Tells(p, wire) \/ (before /\ stream # "open")

Excused(p) == astray \/ p \in silent \/ p \in clobbered
RowsNow(p) == [k \in Shows(p) |-> db[k]]
ReadFresh(p) == cache[p].fetch = "read" => News(p) \/ cache[p].got = RowsNow(p)
IdleFresh(p) == cache[p].fetch = "idle" => News(p) \/ cache[p].invalid \/ Current(p)
FreshPage(p) == Excused(p) \/ (ReadFresh(p) /\ IdleFresh(p))

\* A tab that has not gone astray was subscribed when it read its page.
Heard == ~astray => before \/ stream \in {"subscribed", "open"}
OpenedBefore == stream = "open" => before

AnswersLeft == \A r \in Requests : req[r].at = "answer" => req[r].left > 0
CacheTyped == cache = [p \in Visited |-> cache[p]] /\ \A p \in Visited : cache[p] \in Query(p)

Counted == \A k \in Kinds : db[k] <= changes

ViewsInv == TypeOK /\ CacheTyped /\ Counted /\ AnswersLeft /\ Heard /\ OpenedBefore /\ FreshPage(page)

-----------------------------------------------------------------------------
\* Events are of the kinds that a page listens to.
LEMMA EmitsTyped ==
  ASSUME NEW o \in DOMAIN Op PROVE Op[o].changes \subseteq Kinds /\ Emits(o) \in Seq(Kinds)
<1> DEFINE Typed(x) == x.changes \subseteq Kinds /\ x.emits \in Seq(Kinds)
<1>1. Typed(EditService) /\ Typed(RemoveService) /\ Typed(PermanentDelete)
  BY DEF EditService, RemoveService, PermanentDelete, Kinds
<1>2. Typed(EditAsset) /\ Typed(AssignOwner) /\ Typed(RemoveUser)
  BY DEF EditAsset, AssignOwner, RemoveUser, Kinds
<1>3. Typed(RemoveAsset) /\ Typed(DeactivateOwner) /\ Typed(RestoreAsset)
  BY DEF RemoveAsset, DeactivateOwner, RestoreAsset, Kinds
<1>4. Typed(RemoveOwner) /\ Typed(RestoreOwner)
  BY DEF RemoveOwner, RestoreOwner, Kinds
<1> HIDE DEF Typed
<1>5. Typed(Op[o])
  BY <1>1, <1>2, <1>3, <1>4 DEF Op
<1> QED
  BY <1>5 DEF Typed, Emits

\* Every operation has a page that calls it, which invalidates at most four times.
LEMMA AfterTyped ==
  ASSUME NEW o \in DOMAIN Op PROVE Len(After(o)) \in 0 .. 4
<1>1. \E p \in DOMAIN Caller : o \in DOMAIN Caller[p]
  BY DEF Op, Caller, ServicePage, AssetsPage, UsersPage, OwnersPage, TrashPage
<1>2. On(o) \in DOMAIN Caller /\ o \in DOMAIN Caller[On(o)]
  BY <1>1 DEF On
<1> QED
  BY <1>2 DEF After, Caller, ServicePage, AssetsPage, UsersPage, OwnersPage, TrashPage


LEMMA RowsTyped ==
  ASSUME TypeOK, NEW p \in Visited PROVE RowsNow(p) \in Versions(p) /\ Nothing(p) \in Versions(p)
<1>1. Shows(p) \subseteq Kinds
  BY VisitedAssumption DEF Pages, Shows, Kinds, AssetsShow, ServiceShows, UsersShow, OwnersShow,
     DashboardShows, TrashShows
<1>2. 0 \in 0 .. MaxChanges
  BY BoundAssumption
<1> QED
  BY <1>1, <1>2 DEF TypeOK, RowsNow, Versions, Nothing

\* A fetch that begins, ends or is given up keeps the cache typed.
LEMMA CacheStep ==
  ASSUME CacheTyped, NEW p \in Visited, NEW q \in Query(p),
         cache' = [cache EXCEPT ![p] = q]
  PROVE  CacheTyped'
BY DEF CacheTyped, Query, Versions

LEMMA InvalidateTyped ==
  ASSUME TypeOK, CacheTyped, NEW ps, InvalidateAll(ps) PROVE CacheTyped'
<1>1. ASSUME NEW p \in Visited PROVE Invalidated(cache[p], p) \in Query(p)
  <2>1. cache[p] \in Query(p) /\ Nothing(p) \in Versions(p)
    BY RowsTyped DEF CacheTyped
  <2> QED
    BY <2>1 DEF Query, Invalidated
<1>2. \A p \in Visited : cache'[p] \in Query(p)
  BY <1>1 DEF InvalidateAll, CacheTyped
<1>3. cache' = [p \in Visited |-> cache'[p]]
  BY DEF InvalidateAll
<1> QED
  BY <1>2, <1>3 DEF CacheTyped, Query, Versions

\* The page on the screen is fetched again, unless an answer to an older fetch
\* is about to be taken.
LEMMA InvalidatePage ==
  ASSUME CacheTyped, page \in Visited, NEW ps, InvalidateAll(ps), page \in ps,
         clobbered' = clobbered \union Overtaken(ps)
  PROVE  cache'[page].fetch = "sent" \/ page \in clobbered'
<1>1. cache[page] \in Query(page)
  BY DEF CacheTyped
<1>2. cache'[page] = Invalidated(cache[page], page)
  BY DEF InvalidateAll
<1>3. CASE Restarts(cache[page], page)
  BY <1>1, <1>2, <1>3 DEF Invalidated, Query
<1>4. CASE ~Restarts(cache[page], page)
  <2>1. cache'[page].fetch = cache[page].fetch
    BY <1>1, <1>2, <1>4 DEF Invalidated, Query
  <2>2. cache[page].fetch \in {"sent", "read"} /\ ~cache[page].has
    BY <1>1, <1>4 DEF Restarts, Query
  <2> QED
    BY <2>1, <2>2 DEF Overtaken
<1> QED
  BY <1>3, <1>4

LEMMA InvalidateOther ==
  ASSUME page \in Visited, NEW ps, InvalidateAll(ps), page \notin ps
  PROVE  cache'[page] = cache[page]
BY DEF InvalidateAll

-----------------------------------------------------------------------------
(* What keeps a page fresh.                                                 *)

LEMMA FreshKept ==
  ASSUME FreshPage(page), page' = page, db' = db, cache'[page] = cache[page],
         Excused(page) => Excused(page)', News(page) => News(page)'
  PROVE  FreshPage(page)'
BY DEF FreshPage, ReadFresh, IdleFresh, RowsNow, Current

LEMMA FreshSent ==
  ASSUME cache'[page'].fetch = "sent" \/ page' \in clobbered' \/ astray'
  PROVE  FreshPage(page)'
BY DEF FreshPage, Excused, ReadFresh, IdleFresh

LEMMA FreshInvalidated ==
  ASSUME ViewsInv, NEW ps, InvalidateAll(ps), clobbered' = clobbered \union Overtaken(ps),
         UNCHANGED <<db, page, silent, astray>>,
         page \in ps \/ (News(page) => News(page)')
  PROVE  FreshPage(page)'
<1>1. page \in Visited /\ CacheTyped
  BY DEF ViewsInv, TypeOK
<1>2. CASE page \in ps
  <2>1. cache'[page].fetch = "sent" \/ page \in clobbered'
    BY <1>1, <1>2, InvalidatePage
  <2>2. page' = page
    OBVIOUS
  <2>3. cache'[page'].fetch = "sent" \/ page' \in clobbered'
    BY <2>1, <2>2
  <2> QED
    BY <2>3, FreshSent
<1>3. CASE page \notin ps
  <2>1. cache'[page] = cache[page]
    BY <1>1, <1>3, InvalidateOther
  <2>2. Excused(page) => Excused(page)'
    BY DEF Excused
  <2> QED
    BY <1>3, <2>1, <2>2, FreshKept DEF ViewsInv
<1> QED
  BY <1>2, <1>3

-----------------------------------------------------------------------------
(* One lemma for each group of steps.                                       *)

LEMMA NoCallTyped == NoCall \in Call /\ NoCall.at = "none"
<1>1. NoCall.op \in DOMAIN Op
  BY OperationsAssumption DEF NoCall
<1> QED
  BY <1>1 DEF NoCall, Call

LEMMA ViewsInitially == Init => ViewsInv
<1> SUFFICES ASSUME Init PROVE ViewsInv
  OBVIOUS
<1>1. \A p \in Visited : Nothing(p) \in Versions(p)
  <2>1. 0 \in 0 .. MaxChanges
    BY BoundAssumption
  <2> QED
    BY <2>1 DEF Nothing, Versions
<1>2. \A p \in Visited : Empty(p) \in Query(p) /\ [Empty(p) EXCEPT !.fetch = "sent"] \in Query(p)
  BY <1>1 DEF Empty, Query
<1>3. CacheTyped
  BY <1>2 DEF Init, CacheTyped
<1>4. TypeOK
  <2>1. 0 \in 0 .. MaxChanges /\ 0 \in 0 .. MaxMoves /\ 0 \in 0 .. MaxFaults
    BY BoundAssumption
  <2>2. db \in [Kinds -> 0 .. MaxChanges] /\ req \in [Requests -> Call]
    BY <2>1, NoCallTyped DEF Init
  <2>3. wire \in Seq(Kinds)
    BY DEF Init
  <2> QED
    BY <1>3, <2>1, <2>2, <2>3 DEF Init, TypeOK, CacheTyped
<1>5. Counted /\ AnswersLeft /\ Heard /\ OpenedBefore
  BY NoCallTyped DEF Init, Counted, AnswersLeft, Heard, OpenedBefore
<1>6. FreshPage(page)
  BY DEF Init, FreshPage, Excused
<1> QED
  BY <1>3, <1>4, <1>5, <1>6 DEF ViewsInv

\* A commit is announced, or the operation emits nothing for the page.
LEMMA WriteStep ==
  ASSUME ViewsInv, NEW r \in Requests, NEW o \in Operations, NEW mine \in BOOLEAN, Write(r, o, mine)
  PROVE  ViewsInv'
<1> o \in DOMAIN Op /\ TypeOK /\ CacheTyped
  BY OperationsAssumption DEF ViewsInv
<1> DEFINE sent == [at |-> "emit", op |-> o, mine |-> mine, left |-> IF mine THEN Len(After(o)) ELSE 0]
<1>1. sent \in Call
  BY AfterTyped DEF Call
<1>2. req' = [req EXCEPT ![r] = sent] /\ req[r].at = "none"
  BY DEF Write
<1> HIDE DEF sent
<1>3. db' \in [Kinds -> 0 .. MaxChanges] /\ Counted'
  BY BoundAssumption DEF TypeOK, Write, Counted, ViewsInv
<1>4. TypeOK' /\ CacheTyped'
  <2>1. changes' \in 0 .. MaxChanges
    BY BoundAssumption DEF TypeOK, Write
  <2>2. req' \in [Requests -> Call]
    BY <1>1, <1>2 DEF TypeOK
  <2>3. UNCHANGED <<stream, before, wire, page, me, cache, astray, clobbered, moves, faults>>
        /\ silent' \subseteq Pages
    BY DEF Write, TypeOK
  <2>4. CacheTyped'
    BY <2>3 DEF CacheTyped, Query, Versions
  <2> QED
    BY <1>3, <2>1, <2>2, <2>3, <2>4 DEF TypeOK, CacheTyped
<1>5. AnswersLeft' /\ Heard' /\ OpenedBefore'
  BY <1>2 DEF ViewsInv, AnswersLeft, Heard, OpenedBefore, Write, sent, TypeOK
<1>6. FreshPage(page)'
  <2>1. page' = page /\ cache' = cache /\ wire' = wire /\ before' = before /\ stream' = stream
        /\ page \in Pages /\ astray' = astray /\ clobbered' = clobbered
    BY VisitedAssumption DEF Write, TypeOK
  <2>2. News(page) => News(page)'
    BY <1>2, <2>1 DEF News, Committed, TypeOK
  <2>3. Excused(page) => Excused(page)'
    BY <2>1 DEF Excused, Write
  <2>4. CASE Shows(page) \intersect Op[o].changes = {}
    <3>1. \A k \in Shows(page) : k \in Kinds => db'[k] = db[k]
      BY <2>4 DEF Write
    <3>2. Shows(page) \subseteq Kinds
      BY <2>1, RowsTyped DEF Pages, Shows, Kinds, AssetsShow, ServiceShows, UsersShow, OwnersShow,
         DashboardShows, TrashShows
    <3>3. RowsNow(page)' = RowsNow(page) /\ (Current(page) => Current(page)')
      BY <2>1, <3>1, <3>2 DEF RowsNow, Current
    <3> QED
      BY <2>1, <2>2, <2>3, <3>3 DEF ViewsInv, FreshPage, ReadFresh, IdleFresh
  <2>5. CASE Tells(page, Emits(o))
    <3>1. req'[r].at = "emit" /\ req'[r].op = o
      BY <1>2 DEF sent, TypeOK
    <3>2. News(page)'
      BY <2>1, <2>5, <3>1 DEF News, Committed, Tells, Emits
    <3> QED
      BY <3>2 DEF FreshPage, ReadFresh, IdleFresh
  <2>6. CASE Shows(page) \intersect Op[o].changes # {} /\ ~Tells(page, Emits(o))
    <3>1. page' \in silent'
      BY <2>1, <2>6 DEF Write, Tells, Emits
    <3> QED
      BY <3>1 DEF FreshPage, Excused
  <2> QED
    BY <2>4, <2>5, <2>6
<1> QED
  BY <1>3, <1>4, <1>5, <1>6 DEF ViewsInv

\* What a handler announces is on the wire, or the connection is to come back.
LEMMA EmitStep ==
  ASSUME ViewsInv, NEW r \in Requests, Emit(r) PROVE ViewsInv'
<1> TypeOK /\ CacheTyped
  BY DEF ViewsInv
<1>1. UNCHANGED <<db, stream, before, page, me, cache, past, changes, moves, faults>>
  BY DEF Emit
<1>2. Emits(req[r].op) \in Seq(Kinds) /\ req[r] \in Call
  BY EmitsTyped DEF TypeOK, Call
<1>3. wire' = wire \/ wire' = wire \o Emits(req[r].op)
  BY DEF Emit, Emits
<1>4. wire' \in Seq(Kinds)
  <2>1. \A s, t \in Seq(Kinds) : s \o t \in Seq(Kinds)
    OBVIOUS
  <2> QED
    BY <1>2, <1>3, <2>1 DEF TypeOK
<1>5. req' = [req EXCEPT ![r] = NoCall] \/ (req' = [req EXCEPT ![r].at = "answer"] /\ req[r].left # 0)
  BY DEF Emit
<1>r. req' = [req EXCEPT ![r] = req'[r]] /\ req'[r] \in Call /\ req'[r].at # "emit"
      /\ (req'[r].at = "answer" => req'[r].left > 0)
  <2>1. CASE req' = [req EXCEPT ![r] = NoCall]
    BY <2>1, NoCallTyped DEF TypeOK
  <2>2. CASE req' = [req EXCEPT ![r].at = "answer"] /\ req[r].left # 0
    <3>1. req'[r] = [req[r] EXCEPT !.at = "answer"]
      BY <2>2 DEF TypeOK
    <3>2. req'[r] \in Call /\ req'[r].at = "answer" /\ req'[r].left > 0
      BY <1>2, <2>2, <3>1 DEF Call
    <3>3. req' = [req EXCEPT ![r] = req'[r]]
      BY <2>2 DEF TypeOK
    <3> QED
      BY <3>2, <3>3
  <2> QED
    BY <1>5, <2>1, <2>2
<1>6. req' \in [Requests -> Call]
  BY <1>r DEF TypeOK
<1>7. TypeOK' /\ CacheTyped' /\ Counted'
  BY <1>1, <1>4, <1>6 DEF TypeOK, CacheTyped, Query, Versions, past, ViewsInv, Counted
<1>8. AnswersLeft' /\ Heard' /\ OpenedBefore'
  <2>1. \A q \in Requests : q # r => req'[q] = req[q]
    BY <1>r DEF TypeOK
  <2> QED
    BY <1>1, <1>r, <2>1 DEF ViewsInv, AnswersLeft, Heard, OpenedBefore, past
<1>9. FreshPage(page)'
  <2>1. Excused(page) => Excused(page)'
    BY <1>1 DEF Excused, past
  <2>2. ASSUME News(page), ~Excused(page) PROVE News(page)'
    <3>1. CASE \E i \in DOMAIN wire : page \in Refreshed(wire[i])
      <4>1. PICK i \in DOMAIN wire : page \in Refreshed(wire[i])
        BY <3>1
      <4>2. i \in DOMAIN wire' /\ wire'[i] = wire[i]
        BY <1>1, <1>2, <1>3, <4>1 DEF TypeOK
      <4> QED
        BY <1>1, <4>1, <4>2 DEF News, Tells
    <3>2. CASE before /\ stream # "open"
      BY <1>1, <3>2 DEF News
    <3>3. ASSUME NEW q \in Requests, q # r, req[q].at = "emit", Tells(page, Emits(req[q].op))
          PROVE  News(page)'
      <4>1. req'[q] = req[q]
        BY <1>r, <3>3 DEF TypeOK
      <4> QED
        BY <1>1, <3>3, <4>1 DEF News, Committed
    <3>4. CASE Tells(page, Emits(req[r].op))
      <4>1. CASE stream \in {"subscribed", "open"}
        <5>1. wire' = wire \o Emits(req[r].op)
          BY <4>1 DEF Emit, Emits
        <5>2. PICK i \in DOMAIN Emits(req[r].op) : page \in Refreshed(Emits(req[r].op)[i])
          BY <3>4 DEF Tells
        <5>3. Len(wire) + i \in DOMAIN wire' /\ wire'[Len(wire) + i] = Emits(req[r].op)[i]
          BY <1>2, <5>1, <5>2 DEF TypeOK
        <5> QED
          BY <1>1, <5>2, <5>3 DEF News, Tells
      <4>2. CASE stream \notin {"subscribed", "open"}
        <5>1. before /\ stream # "open"
          BY <2>2, <4>2 DEF ViewsInv, Heard, Excused
        <5> QED
          BY <1>1, <5>1 DEF News
      <4> QED
        BY <4>1, <4>2
    <3> QED
      BY <2>2, <3>1, <3>2, <3>3, <3>4 DEF News, Tells, Committed
  <2>3. CASE Excused(page)
    BY <2>1, <2>3 DEF FreshPage
  <2>4. CASE ~Excused(page)
    BY <1>1, <2>1, <2>2, <2>4, FreshKept DEF ViewsInv
  <2> QED
    BY <2>3, <2>4
<1> QED
  BY <1>7, <1>8, <1>9 DEF ViewsInv

\* What the page invalidates itself is fetched again.
LEMMA OwnAnswerStep ==
  ASSUME ViewsInv, NEW r \in Requests, OwnAnswer(r) PROVE ViewsInv'
<1> TypeOK /\ CacheTyped /\ page \in Visited
  BY DEF ViewsInv, TypeOK
<1> PICK ps : InvalidateAll(ps) /\ clobbered' = clobbered \union Overtaken(ps)
  BY DEF OwnAnswer
<1>1. UNCHANGED <<db, stream, before, wire, page, me, silent, astray, changes, moves, faults>>
      /\ req[r].at = "answer"
  BY DEF OwnAnswer
<1>2. req' = [req EXCEPT ![r] = req'[r]]
      /\ (req'[r] = NoCall \/ (req[r].left # 1 /\ req'[r] = [req[r] EXCEPT !.left = req[r].left - 1]))
  BY DEF OwnAnswer, TypeOK
<1>3. req[r] \in Call /\ req[r].left > 0
  BY <1>1 DEF TypeOK, ViewsInv, AnswersLeft
<1>4. req'[r] \in Call /\ (req'[r].at = "answer" => req'[r].left > 0) /\ req'[r].at # "emit"
  <2>1. CASE req'[r] = NoCall
    BY <2>1, NoCallTyped
  <2>2. CASE req[r].left # 1 /\ req'[r] = [req[r] EXCEPT !.left = req[r].left - 1]
    BY <1>1, <1>3, <2>2 DEF Call
  <2> QED
    BY <1>2, <2>1, <2>2
<1>5. \A q \in Requests : q # r => req'[q] = req[q]
  BY <1>2 DEF TypeOK
<1>6. req' \in [Requests -> Call]
  BY <1>2, <1>4, <1>5 DEF TypeOK
<1>7. CacheTyped' /\ clobbered' \subseteq Pages
  BY InvalidateTyped, VisitedAssumption DEF TypeOK, Overtaken
<1>8. TypeOK' /\ Counted'
  BY <1>1, <1>6, <1>7 DEF TypeOK, CacheTyped, ViewsInv, Counted
<1>9. AnswersLeft' /\ Heard' /\ OpenedBefore'
  BY <1>1, <1>4, <1>5 DEF ViewsInv, AnswersLeft, Heard, OpenedBefore
<1>10. News(page) => News(page)'
  BY <1>1, <1>5 DEF News, Committed
<1> QED
  BY <1>1, <1>7, <1>8, <1>9, <1>10, FreshInvalidated DEF ViewsInv

\* What was read is what the database has.
LEMMA ReadStep ==
  ASSUME ViewsInv, NEW p \in Visited, Read(p) PROVE ViewsInv'
<1> TypeOK /\ CacheTyped /\ page \in Visited
  BY DEF ViewsInv, TypeOK
<1>1. UNCHANGED <<db, req, stream, before, wire, page, me, changes, moves, faults>>
      /\ silent' = silent \ {p} /\ clobbered' = clobbered \ {p}
      /\ astray' = IF p = page /\ stream \in {"subscribed", "open"} THEN FALSE ELSE astray
  BY DEF Read
<1>2. cache' = [cache EXCEPT ![p] = cache'[p]] /\ cache'[p].fetch = "read" /\ cache'[p].got = RowsNow(p)
      /\ cache'[p] \in Query(p)
  <2>1. cache[p] \in Query(p) /\ RowsNow(p) \in Versions(p)
    BY RowsTyped DEF CacheTyped
  <2>2. cache'[p] = [cache[p] EXCEPT !.fetch = "read", !.got = RowsNow(p)]
    BY DEF Read, CacheTyped, RowsNow
  <2>3. cache' = [cache EXCEPT ![p] = cache'[p]]
    BY DEF Read, CacheTyped
  <2> QED
    BY <2>1, <2>2, <2>3 DEF Query
<1>3. CacheTyped'
  BY <1>2, CacheStep
<1>4. TypeOK' /\ Counted' /\ AnswersLeft'
  BY <1>1, <1>3 DEF TypeOK, CacheTyped, ViewsInv, Counted, AnswersLeft
<1>5. Heard' /\ OpenedBefore'
  BY <1>1 DEF ViewsInv, Heard, OpenedBefore
<1>6. FreshPage(page)'
  <2>1. CASE p = page
    BY <1>1, <1>2, <2>1 DEF FreshPage, ReadFresh, IdleFresh, RowsNow
  <2>2. CASE p # page
    <3>1. cache'[page] = cache[page]
      BY <1>2, <2>2 DEF CacheTyped
    <3>2. (Excused(page) => Excused(page)') /\ (News(page) => News(page)')
      BY <1>1, <2>2 DEF Excused, News, Committed
    <3> QED
      BY <1>1, <3>1, <3>2, FreshKept DEF ViewsInv
  <2> QED
    BY <2>1, <2>2
<1> QED
  BY <1>3, <1>4, <1>5, <1>6 DEF ViewsInv

\* Steps that change one query and nothing else: what has been taken was read,
\* what failed is marked, what was sent is still to be read.
LEMMA QueryStep ==
  ASSUME ViewsInv, NEW p \in Visited, Answer(p) \/ FetchFails(p) \/ (p = page /\ Poll)
  PROVE  ViewsInv'
<1> TypeOK /\ CacheTyped /\ page \in Visited /\ cache[p] \in Query(p) /\ Nothing(p) \in Versions(p)
  BY RowsTyped DEF ViewsInv, TypeOK, CacheTyped
<1>1. UNCHANGED <<db, req, stream, before, wire, page, me, past, changes, moves>>
      /\ faults' \in 0 .. MaxFaults
  BY BoundAssumption DEF Answer, FetchFails, Poll, TypeOK
<1>2. cache' = [cache EXCEPT ![p] = cache'[p]] /\ cache'[p] \in Query(p)
      /\ \/ /\ cache[p].fetch = "read" /\ cache'[p].fetch = "idle" /\ cache'[p].data = cache[p].got
         \/ cache'[p].fetch = "idle" /\ cache'[p].invalid
         \/ cache'[p].fetch = "sent"
  <2>1. CASE Answer(p)
    BY <2>1 DEF Answer, CacheTyped, Query
  <2>2. CASE FetchFails(p)
    BY <2>2 DEF FetchFails, CacheTyped, Query
  <2>3. CASE p = page /\ Poll
    BY <2>3 DEF Poll, CacheTyped, Query
  <2> QED
    BY <2>1, <2>2, <2>3
<1>3. CacheTyped'
  BY <1>2, CacheStep
<1>4. TypeOK' /\ Counted' /\ AnswersLeft' /\ Heard' /\ OpenedBefore'
  BY <1>1, <1>3
     DEF TypeOK, CacheTyped, ViewsInv, Counted, AnswersLeft, Heard, OpenedBefore, past
<1>5. FreshPage(page)'
  <2>1. (Excused(page) => Excused(page)') /\ (News(page) => News(page)')
    BY <1>1 DEF Excused, News, Committed, past
  <2>2. CASE p # page
    <3>1. cache'[page] = cache[page]
      BY <1>2, <2>2 DEF CacheTyped
    <3> QED
      BY <1>1, <2>1, <3>1, FreshKept DEF ViewsInv
  <2>3. CASE p = page /\ cache[p].fetch = "read" /\ cache'[p].fetch = "idle"
             /\ cache'[p].data = cache[p].got
    <3>1. cache[page].got = RowsNow(page) => Current(page)'
      BY <1>1, <2>3 DEF RowsNow, Current
    <3> QED
      BY <1>1, <2>1, <2>3, <3>1 DEF ViewsInv, FreshPage, ReadFresh, IdleFresh
  <2>4. CASE p = page /\ cache'[p].fetch = "idle" /\ cache'[p].invalid
    BY <1>1, <2>4 DEF FreshPage, ReadFresh, IdleFresh
  <2>5. CASE p = page /\ cache'[p].fetch = "sent"
    BY <1>1, <2>5, FreshSent
  <2> QED
    BY <1>2, <2>2, <2>3, <2>4, <2>5
<1> QED
  BY <1>3, <1>4, <1>5 DEF ViewsInv

\* A connection that comes back fetches everything; what was to be told before is moot.
LEMMA OpenStep ==
  ASSUME ViewsInv, Open PROVE ViewsInv'
<1> TypeOK /\ CacheTyped /\ page \in Visited
  BY DEF ViewsInv, TypeOK
<1>1. UNCHANGED <<db, req, wire, page, me, silent, astray, changes, moves, faults>>
      /\ stream = "subscribed" /\ stream' = "open" /\ before' = TRUE
  BY DEF Open
<1>2. CASE before
  <2>1. InvalidateAll(Pages) /\ clobbered' = clobbered \union Overtaken(Pages)
    BY <1>2 DEF Open
  <2>2. CacheTyped' /\ clobbered' \subseteq Pages
    BY <2>1, InvalidateTyped DEF TypeOK, Overtaken
  <2>3. TypeOK' /\ Counted' /\ AnswersLeft' /\ Heard' /\ OpenedBefore'
    BY <1>1, <2>2 DEF TypeOK, CacheTyped, ViewsInv, Counted, AnswersLeft, Heard, OpenedBefore
  <2>4. FreshPage(page)'
    BY <1>1, <2>1, VisitedAssumption, FreshInvalidated
  <2> QED
    BY <2>2, <2>3, <2>4 DEF ViewsInv
<1>3. CASE ~before
  <2>1. UNCHANGED <<cache, clobbered>>
    BY <1>3 DEF Open
  <2>2. CacheTyped'
    BY <2>1 DEF CacheTyped, Query, Versions
  <2>3. TypeOK' /\ Counted' /\ AnswersLeft' /\ Heard' /\ OpenedBefore'
    BY <1>1, <2>1, <2>2
       DEF TypeOK, CacheTyped, ViewsInv, Counted, AnswersLeft, Heard, OpenedBefore
  <2>4. (Excused(page) => Excused(page)') /\ (News(page) => News(page)')
    BY <1>1, <1>3, <2>1 DEF Excused, News, Committed
  <2> QED
    BY <1>1, <2>1, <2>2, <2>3, <2>4, FreshKept DEF ViewsInv
<1> QED
  BY <1>2, <1>3

\* An event of the page on the screen fetches it again; the others stay on the wire.
LEMMA HandleEventStep ==
  ASSUME ViewsInv, HandleEvent PROVE ViewsInv'
<1> TypeOK /\ CacheTyped /\ page \in Visited
  BY DEF ViewsInv, TypeOK
<1> DEFINE ps == Refreshed(Head(wire)) \intersect {page}
<1>1. UNCHANGED <<db, req, stream, before, page, me, silent, astray, changes, moves, faults>>
      /\ wire # << >> /\ wire' = Tail(wire)
      /\ InvalidateAll(ps) /\ clobbered' = clobbered \union Overtaken(ps)
  BY DEF HandleEvent
<1>2. CacheTyped' /\ clobbered' \subseteq Pages
  BY <1>1, InvalidateTyped, VisitedAssumption DEF TypeOK, Overtaken
<1>3. wire' \in Seq(Kinds)
  BY <1>1 DEF TypeOK
<1>4. TypeOK' /\ Counted' /\ AnswersLeft' /\ Heard' /\ OpenedBefore'
  BY <1>1, <1>2, <1>3
     DEF TypeOK, CacheTyped, ViewsInv, Counted, AnswersLeft, Heard, OpenedBefore
<1>5. page \in ps \/ (News(page) => News(page)')
  <2>1. ASSUME page \notin ps, NEW i \in DOMAIN wire, page \in Refreshed(wire[i])
        PROVE  Tells(page, wire')
    <3>1. i # 1
      BY <2>1, <1>1 DEF TypeOK
    <3>2. i - 1 \in DOMAIN wire' /\ wire'[i - 1] = wire[i]
      BY <1>1, <2>1, <3>1 DEF TypeOK
    <3> QED
      BY <2>1, <3>2 DEF Tells
  <2> QED
    BY <1>1, <2>1 DEF News, Committed, Tells
<1>6. FreshPage(page)'
  BY <1>1, <1>5, FreshInvalidated
<1> QED
  BY <1>2, <1>4, <1>6 DEF ViewsInv

\* The tab subscribes, loses its connection, or tries again: a tab that was
\* connected before will fetch everything, one that was not has an excuse.
LEMMA ConnectionStep ==
  ASSUME ViewsInv, Subscribe \/ Drop \/ Die \/ Reconnect PROVE ViewsInv'
<1> TypeOK /\ CacheTyped /\ page \in Visited
  BY DEF ViewsInv, TypeOK
<1>1. UNCHANGED <<db, before, page, me, cache, silent, clobbered, changes, moves>>
      /\ faults' \in 0 .. MaxFaults /\ stream' \in {"connecting", "subscribed", "waiting"}
  BY BoundAssumption DEF Subscribe, Drop, Die, Reconnect, Broken, past, TypeOK
<1>2. \/ stream # "open" /\ UNCHANGED <<req, wire, astray>>
         /\ (stream' = "subscribed" \/ stream = "waiting")
      \/ wire' = << >> /\ astray' = (astray \/ ~before)
  BY DEF Subscribe, Drop, Die, Reconnect, Broken, past
<1>3. req' \in [Requests -> Call] /\ \A r \in Requests : req'[r] = req[r] \/ req'[r] = NoCall
  BY NoCallTyped DEF Subscribe, Drop, Die, Reconnect, TypeOK
<1>4. CacheTyped' /\ wire' \in Seq(Kinds) /\ astray' \in BOOLEAN
  <2>1. CacheTyped'
    BY <1>1 DEF CacheTyped, Query, Versions
  <2>2. wire' \in Seq(Kinds)
    <3>1. << >> \in Seq(Kinds) /\ wire \in Seq(Kinds)
      BY DEF TypeOK
    <3>2. wire' = wire \/ wire' = << >>
      BY <1>2
    <3> QED
      BY <3>1, <3>2
  <2>3. astray' \in BOOLEAN
    BY <1>2 DEF TypeOK
  <2> QED
    BY <2>1, <2>2, <2>3
<1>5. TypeOK' /\ Counted' /\ OpenedBefore'
  BY <1>1, <1>3, <1>4 DEF TypeOK, CacheTyped, ViewsInv, Counted, OpenedBefore
<1>6. AnswersLeft'
  BY <1>3, NoCallTyped DEF ViewsInv, AnswersLeft
<1>7. Heard'
  BY <1>1, <1>2 DEF ViewsInv, Heard
<1>8. FreshPage(page)'
  <2>1. Excused(page) => Excused(page)'
    BY <1>1, <1>2 DEF Excused
  <2>2. CASE stream # "open" /\ UNCHANGED <<req, wire, astray>>
    <3>1. News(page) => News(page)'
      BY <1>1, <2>2 DEF News, Committed
    <3> QED
      BY <1>1, <2>1, <3>1, FreshKept DEF ViewsInv
  <2>3. CASE astray' = (astray \/ ~before)
    <3>1. (before' /\ stream' # "open") \/ astray'
      BY <1>1, <2>3 DEF TypeOK
    <3>2. News(page)' \/ Excused(page)'
      BY <3>1 DEF News, Excused
    <3> QED
      BY <3>2 DEF FreshPage, ReadFresh, IdleFresh
  <2> QED
    BY <1>2, <2>2, <2>3
<1> QED
  BY <1>4, <1>5, <1>6, <1>7, <1>8 DEF ViewsInv

\* The effect runs again, for another page or another user object: nothing is
\* known until the page is read.
LEMMA RestartStep ==
  ASSUME ViewsInv, MeAnswered \/ \E p \in Visited : Move(p) PROVE ViewsInv'
<1> TypeOK /\ CacheTyped /\ page \in Visited
  BY DEF ViewsInv, TypeOK
<1>1. UNCHANGED <<db, req, silent, clobbered, changes, faults>> /\ Restarted
      /\ page' \in Visited /\ me' \in BOOLEAN /\ moves' \in 0 .. MaxMoves
  <2>1. CASE MeAnswered
    BY <2>1 DEF MeAnswered, TypeOK
  <2>2. ASSUME NEW p \in Visited, Move(p)
        PROVE  /\ UNCHANGED <<db, req, silent, clobbered, changes, faults>> /\ Restarted
               /\ page' \in Visited /\ me' \in BOOLEAN /\ moves' \in 0 .. MaxMoves
    <3>1. moves' \in 0 .. MaxMoves
      BY <2>2, BoundAssumption DEF Move, TypeOK
    <3> QED
      BY <2>2, <3>1 DEF Move
  <2> QED
    BY <2>1, <2>2
<1>2. CacheTyped'
  <2>1. ASSUME NEW p \in Visited, cache' = [cache EXCEPT ![p].fetch = IF @ = "idle" THEN "sent" ELSE @]
        PROVE  CacheTyped'
    <3>1. cache[p] \in Query(p)
      BY DEF CacheTyped
    <3>2. cache'[p] \in Query(p) /\ cache' = [cache EXCEPT ![p] = cache'[p]]
      BY <2>1, <3>1 DEF Query, CacheTyped
    <3> QED
      BY <3>2, CacheStep
  <2>2. ASSUME UNCHANGED cache PROVE CacheTyped'
    BY <2>2 DEF CacheTyped, Query, Versions
  <2> QED
    BY <2>1, <2>2 DEF MeAnswered, Move
<1>3. wire' \in Seq(Kinds)
  BY <1>1 DEF Restarted
<1>4. TypeOK' /\ Counted' /\ AnswersLeft' /\ Heard' /\ OpenedBefore'
  BY <1>1, <1>2, <1>3
     DEF TypeOK, CacheTyped, ViewsInv, Counted, AnswersLeft, Heard, OpenedBefore, Restarted
<1>5. FreshPage(page)'
  BY <1>1 DEF Restarted, FreshPage, Excused
<1> QED
  BY <1>2, <1>4, <1>5 DEF ViewsInv

-----------------------------------------------------------------------------
LEMMA ViewsNext == ViewsInv /\ [Next]_vars => ViewsInv'
<1> SUFFICES ASSUME ViewsInv, [Next]_vars PROVE ViewsInv'
  OBVIOUS
<1>1. CASE UNCHANGED vars
  BY <1>1 DEF vars, ViewsInv, TypeOK, CacheTyped, Query, Versions, Counted, AnswersLeft, Heard,
     OpenedBefore, FreshPage, Excused, ReadFresh, IdleFresh, News, Committed, RowsNow, Current
<1>2. ASSUME NEW r \in Requests, NEW o \in Operations, NEW mine \in BOOLEAN, Write(r, o, mine)
      PROVE  ViewsInv'
  BY <1>2, WriteStep
<1>3. ASSUME NEW r \in Requests, Emit(r) \/ OwnAnswer(r) PROVE ViewsInv'
  BY <1>3, EmitStep, OwnAnswerStep
<1>4. ASSUME NEW p \in Visited, Read(p) \/ Answer(p) \/ FetchFails(p) PROVE ViewsInv'
  BY <1>4, ReadStep, QueryStep
<1>5. CASE Poll
  <2>1. page \in Visited
    BY DEF ViewsInv, TypeOK
  <2> QED
    BY <1>5, <2>1, QueryStep
<1>6. CASE Subscribe \/ Drop \/ Die \/ Reconnect
  BY <1>6, ConnectionStep
<1>7. CASE Open \/ HandleEvent
  BY <1>7, OpenStep, HandleEventStep
<1>8. CASE MeAnswered \/ \E p \in Visited : Move(p)
  BY <1>8, RestartStep
<1> QED
  BY <1>1, <1>2, <1>3, <1>4, <1>5, <1>6, <1>7, <1>8 DEF Next

LEMMA ViewsInvariant == Spec => []ViewsInv
BY ViewsInitially, ViewsNext, PTL DEF Spec

\* The variables of the tab's views keep their types.
THEOREM ViewsTypeCorrect == Spec => []TypeOK
<1>1. ViewsInv => TypeOK
  BY DEF ViewsInv
<1> QED
  BY <1>1, ViewsInvariant, PTL

\* A page whose stream is open shows what the database says once everything has
\* arrived, whatever streams broke, handlers died and fetches failed, but for
\* the excuses that SettledIsCurrent names.
THEOREM SettledShowsTheDatabase == Spec => []SettledIsCurrent
<1>1. ViewsInv => SettledIsCurrent
  <2> SUFFICES ASSUME ViewsInv, Settled PROVE Current(page) \/ Excused(page)
    BY DEF SettledIsCurrent, Excused
  <2>1. ~News(page)
    BY DEF Settled, News, Committed, Tells
  <2> QED
    BY <2>1 DEF Settled, ViewsInv, FreshPage, IdleFresh
<1> QED
  BY <1>1, ViewsInvariant, PTL

(***************************************************************************)
(* Session.  The argument: the newest request of /auth/me carries the       *)
(* cookie of now, so that its answer tells the truth; when no request is    *)
(* newer than the last answer, the tab already tells it.                    *)
(***************************************************************************)
Identities == {Nobody} \union [who : Accounts, by : Accounts \union {"nobody"}]
Cookie == [id : Identities, live : BOOLEAN]
Tab == [user : Identities, loading : BOOLEAN, page : Paths, rows : SUBSET Accounts,
        pending : {"none", "users"}]
AskRecord == [id : Identities, page : Paths, got : {"nothing", "user", "401", "error"},
              next : {"none", "dashboard"}, late : BOOLEAN]
Calls == {NotCalling} \union
         [op : {"login", "register", "logout", "impersonate", "stop"}, who : Accounts, page : Paths]
Odd == [late : BOOLEAN, unseen : BOOLEAN, erred : BOOLEAN, mixed : BOOLEAN]

SessionTyped == cookie \in Cookie /\ tab \in Tab /\ call \in Calls /\ odd \in Odd

\* Requests that have been overtaken are the earlier ones; who is known has an account.
AsksFit(s) ==
  /\ s \in Seq(AskRecord)
  /\ \A i \in DOMAIN s : s[i].got = "user" => s[i].id # Nobody
  /\ \A i \in DOMAIN s : s[i].late => \A j \in 1 .. i : s[j].late

Newest(s) == s[Len(s)]
Awaiting(s) == s # << >> /\ ~Newest(s).late

\* The tab has gone to the login page while its logout was under way.
Gone == tab.page = "login" /\ cookie.id = Nobody
\* It shows the login page, and has nothing cached.
Emptied == tab.page = "login" /\ tab.rows = {}
\* The guard of the routes will send the tab away, and it will ask again.
ToLeave == tab.page = "login" /\ tab.user # Nobody

\* What the newest request will tell.
AskingNow(a) ==
  /\ odd.unseen \/ Gone \/ (a.id = cookie.id /\ (a.got = "user" => Signed) /\ (a.got = "401" => ~Signed))
  /\ odd.mixed \/ Emptied \/ a.id = cookie.id
  /\ tab.page = "login" => ~AlwaysPublic(a.page) \/ tab.rows = {}

\* What the tab has been told.
Knows ==
  /\ odd.late \/ odd.unseen \/ odd.erred \/ ToLeave \/ tab.user = IF Signed THEN cookie.id ELSE Nobody
  /\ \/ odd.late \/ odd.mixed \/ ToLeave \/ tab.user = cookie.id
     \/ tab.user = Nobody /\ (tab.rows = {} \/ tab.page # "login")

RowsOwn == odd.mixed \/ tab.rows \subseteq {cookie.id.who}
LogoutFromMain == call.op = "logout" => ~AlwaysPublic(call.page)
Informed == IF Awaiting(asks) THEN AskingNow(Newest(asks)) ELSE Knows

SessionInv == SessionTyped /\ AsksFit(asks) /\ Informed /\ RowsOwn /\ LogoutFromMain

-----------------------------------------------------------------------------
(* The requests of /auth/me.                                                *)

LEMMA IdsOf ==
  /\ Nobody \in Identities
  /\ \A u \in Accounts : As(u) \in Identities /\ As(u) # Nobody /\ As(u).who = u
  /\ \A id \in Identities : id # Nobody => id.who \in Accounts
BY NobodyAssumption DEF Identities, Nobody, As

LEMMA CookieOf ==
  \A id \in Identities : [id |-> id, live |-> TRUE] \in Cookie /\ [id |-> id, live |-> FALSE] \in Cookie
BY DEF Cookie

LEMMA AskTyped ==
  ASSUME NEW c \in Cookie, NEW p \in Paths, NEW next \in {"none", "dashboard"}
  PROVE  /\ Ask(c, p, next) \in AskRecord
         /\ Ask(c, p, next).got = "nothing" /\ ~Ask(c, p, next).late
         /\ Ask(c, p, next).id = c.id /\ Ask(c, p, next).page = p
BY DEF Ask, AskRecord, Cookie

LEMMA AppendFits ==
  ASSUME NEW s, AsksFit(s), NEW a \in AskRecord, a.got = "nothing", ~a.late
  PROVE  AsksFit(Append(s, a)) /\ Awaiting(Append(s, a)) /\ Newest(Append(s, a)) = a
<1> DEFINE t == Append(s, a)
<1>1. s \in Seq(AskRecord)
  BY DEF AsksFit
<1>2. t \in Seq(AskRecord) /\ Len(t) = Len(s) + 1 /\ t[Len(t)] = a /\ t # << >>
  BY <1>1
<1>3. \A i \in 1 .. Len(s) : t[i] = s[i]
  BY <1>1
<1> HIDE DEF t
<1>4. \A i \in DOMAIN t : i \in DOMAIN s \/ t[i] = a
  BY <1>1, <1>2
<1>5. AsksFit(t)
  BY <1>1, <1>2, <1>3, <1>4 DEF AsksFit
<1> QED
  BY <1>2, <1>5 DEF Awaiting, Newest, t

LEMMA LeftShape ==
  ASSUME AsksFit(asks), NEW i \in DOMAIN asks
  PROVE  /\ Len(asks) \in Nat \ {0} /\ DOMAIN asks = 1 .. Len(asks)
         /\ Left(i) \in Seq(AskRecord) /\ Len(Left(i)) = Len(asks) - 1
         /\ DOMAIN Left(i) = 1 .. Len(asks) - 1
         /\ \A j \in DOMAIN Left(i) : /\ j \in DOMAIN asks /\ j + 1 \in DOMAIN asks
                                      /\ j >= i => Left(i)[j] = asks[j + 1]
                                      /\ j < i => Left(i)[j] = [asks[j] EXCEPT !.late = TRUE]
<1>1. asks \in Seq(AskRecord) /\ DOMAIN asks = 1 .. Len(asks) /\ Len(asks) \in Nat \ {0}
  BY DEF AsksFit
<1>2. ASSUME NEW j \in 1 .. Len(asks) - 1
      PROVE  /\ j \in DOMAIN asks /\ j + 1 \in DOMAIN asks
             /\ asks[j] \in AskRecord /\ asks[j + 1] \in AskRecord
             /\ [asks[j] EXCEPT !.late = TRUE] \in AskRecord
  <2>1. j \in 1 .. Len(asks) /\ j + 1 \in 1 .. Len(asks)
    BY <1>1
  <2>2. asks[j] \in AskRecord /\ asks[j + 1] \in AskRecord
    BY <1>1, <2>1
  <2> QED
    BY <1>1, <2>1, <2>2 DEF AskRecord
<1> DEFINE n == Len(asks) - 1
           f(j) == IF j < i THEN [asks[j] EXCEPT !.late = TRUE] ELSE asks[j + 1]
<1>3. n \in Nat /\ \A j \in 1 .. n : f(j) \in AskRecord
  BY <1>1, <1>2
<1>4. Left(i) = [j \in 1 .. n |-> f(j)]
  BY DEF Left
<1> HIDE DEF f, n
<1>5. Left(i) \in Seq(AskRecord) /\ Len(Left(i)) = n /\ DOMAIN Left(i) = 1 .. n
      /\ \A j \in 1 .. n : Left(i)[j] = f(j)
  BY <1>3, <1>4
<1> QED
  BY <1>1, <1>2, <1>5 DEF f, n

LEMMA LeftFits ==
  ASSUME AsksFit(asks), NEW i \in DOMAIN asks PROVE AsksFit(Left(i))
<1>1. asks \in Seq(AskRecord)
  BY DEF AsksFit
<1>s. /\ Len(asks) \in Nat \ {0} /\ DOMAIN asks = 1 .. Len(asks) /\ i \in 1 .. Len(asks)
      /\ Left(i) \in Seq(AskRecord) /\ DOMAIN Left(i) = 1 .. Len(asks) - 1
      /\ \A j \in DOMAIN Left(i) : /\ j \in DOMAIN asks /\ j + 1 \in DOMAIN asks
                                   /\ j >= i => Left(i)[j] = asks[j + 1]
                                   /\ j < i => Left(i)[j] = [asks[j] EXCEPT !.late = TRUE]
  BY LeftShape
<1>2. \A j \in DOMAIN asks : /\ [asks[j] EXCEPT !.late = TRUE].late
                             /\ [asks[j] EXCEPT !.late = TRUE].got = asks[j].got
                             /\ [asks[j] EXCEPT !.late = TRUE].id = asks[j].id
  <2> TAKE j \in DOMAIN asks
  <2>1. asks[j] \in AskRecord
    BY <1>1
  <2> QED
    BY <2>1 DEF AskRecord
<1>3. ASSUME NEW j \in DOMAIN Left(i), Left(i)[j].got = "user" PROVE Left(i)[j].id # Nobody
  <2>1. j \in 1 .. Len(asks) - 1
    BY <1>s
  <2>2. CASE j < i
    <3>1. asks[j].got = "user" /\ Left(i)[j].id = asks[j].id /\ j \in DOMAIN asks
      BY <1>2, <1>3, <1>s, <2>2
    <3> QED
      BY <3>1 DEF AsksFit
  <2>3. CASE j >= i
    <3>1. Left(i)[j] = asks[j + 1] /\ j + 1 \in DOMAIN asks
      BY <1>s, <2>3
    <3> QED
      BY <1>3, <3>1 DEF AsksFit
  <2> QED
    BY <1>s, <2>1, <2>2, <2>3
<1>4. ASSUME NEW j \in DOMAIN Left(i), Left(i)[j].late, NEW k \in 1 .. j PROVE Left(i)[k].late
  <2>1. j \in 1 .. Len(asks) - 1 /\ k \in DOMAIN Left(i) /\ k <= j
    BY <1>1, <1>s
  <2>2. CASE k < i
    <3>1. Left(i)[k] = [asks[k] EXCEPT !.late = TRUE] /\ asks[k] \in AskRecord
      BY <1>1, <1>2, <2>1, <2>2, <1>s DEF AsksFit
    <3> QED
      BY <3>1 DEF AskRecord
  <2>3. CASE k >= i
    <3>1. k + 1 \in 1 .. j + 1 /\ j >= i
      BY <1>s, <2>1, <2>3
    <3>2. Left(i)[k] = asks[k + 1] /\ Left(i)[j] = asks[j + 1] /\ j + 1 \in DOMAIN asks
      BY <2>1, <2>3, <3>1, <1>s
    <3> QED
      BY <1>4, <3>1, <3>2 DEF AsksFit
  <2> QED
    BY <1>s, <2>1, <2>2, <2>3
<1> QED
  BY <1>3, <1>4, <1>s DEF AsksFit

LEMMA GotFits ==
  ASSUME AsksFit(asks), NEW i \in DOMAIN asks, NEW g \in {"user", "401", "error"},
         g = "user" => asks[i].id # Nobody
  PROVE  LET s == [asks EXCEPT ![i].got = g] IN
         /\ AsksFit(s) /\ Len(s) = Len(asks)
         /\ \A j \in DOMAIN asks : s[j] = IF j = i THEN [asks[i] EXCEPT !.got = g] ELSE asks[j]
<1> DEFINE s == [asks EXCEPT ![i].got = g]
<1>1. asks \in Seq(AskRecord) /\ DOMAIN asks = 1 .. Len(asks)
  BY DEF AsksFit
<1>2. asks[i] \in AskRecord /\ [asks[i] EXCEPT !.got = g] \in AskRecord
  <2>1. asks[i] \in AskRecord
    BY <1>1
  <2> QED
    BY <2>1 DEF AskRecord
<1>3. s \in Seq(AskRecord) /\ Len(s) = Len(asks) /\ DOMAIN s = DOMAIN asks
  BY <1>1, <1>2
<1>4. \A j \in DOMAIN asks : s[j] = IF j = i THEN [asks[i] EXCEPT !.got = g] ELSE asks[j]
  BY <1>1
<1>5. \A j \in DOMAIN asks : s[j].id = asks[j].id /\ s[j].late = asks[j].late
                             /\ (s[j].got = "user" => asks[j].id # Nobody)
  BY <1>1, <1>2, <1>4 DEF AskRecord, AsksFit
<1> HIDE DEF s
<1>6. AsksFit(s)
  BY <1>1, <1>3, <1>5 DEF AsksFit
<1> QED
  BY <1>3, <1>4, <1>6 DEF s

-----------------------------------------------------------------------------
(* What leads to a request that knows, or to a tab that does.               *)

\* A request that has just been sent carries the cookie of now.
LEMMA AskedAnew ==
  ASSUME NEW others, AsksFit(others), cookie' \in Cookie, NEW p \in Paths,
         NEW next \in {"none", "dashboard"},
         asks' = Append(others, Ask(cookie', p, next)),
         tab'.page = "login" => ~AlwaysPublic(p) \/ tab'.rows = {}
  PROVE  AsksFit(asks)' /\ Informed'
<1> DEFINE a == Ask(cookie', p, next)
<1>1. a \in AskRecord /\ a.got = "nothing" /\ ~a.late /\ a.id = cookie'.id /\ a.page = p
  BY AskTyped
<1> HIDE DEF a
<1>2. asks' = Append(others, a)
  BY DEF a
<1>3. AsksFit(asks') /\ Awaiting(asks') /\ Newest(asks') = a
  BY <1>1, <1>2, AppendFits
<1>4. AsksFit(asks)'
  BY <1>3 DEF AsksFit
<1>5. asks' # << >> /\ asks'[Len(asks')] = a
  BY <1>3 DEF Awaiting, Newest
<1>6. Informed'
  BY <1>1, <1>5 DEF Informed, Awaiting, Newest, AskingNow
<1> QED
  BY <1>4, <1>6

LEMMA VisitAnew ==
  ASSUME NEW t \in Tab, NEW p \in Paths, NEW others, AsksFit(others), NEW c, c = cookie',
         cookie' \in Cookie, NEW o \in Odd, Visit(t, p, others, c, o), p # t.page
  PROVE  /\ AsksFit(asks)' /\ Informed'
         /\ tab' = [t EXCEPT !.page = p] /\ tab' \in Tab /\ tab'.rows = t.rows
         /\ odd' \in Odd /\ odd'.mixed = o.mixed
<1>1. tab' = [t EXCEPT !.page = p] /\ asks' = Append(others, Ask(cookie', p, "none"))
      /\ odd' = Anew(o)
  BY DEF Visit
<1>2. tab' \in Tab /\ tab'.rows = t.rows /\ tab'.page = p
  BY <1>1 DEF Tab
<1>3. odd' \in Odd /\ odd'.mixed = o.mixed
  BY <1>1 DEF Anew, Odd
<1>4. AsksFit(asks)' /\ Informed'
  BY <1>1, <1>2, AskedAnew DEF AlwaysPublic
<1> QED
  BY <1>1, <1>2, <1>3, <1>4

\* Everything in the tab is lost, and the login page asks.
LEMMA ThrownStep ==
  ASSUME SessionInv, ThrownOut, UNCHANGED cookie PROVE SessionInv'
<1>1. SessionTyped /\ cookie' \in Cookie
  BY DEF SessionInv, SessionTyped
<1>2. tab' \in Tab /\ tab'.rows = {}
  BY <1>1, IdsOf DEF SessionTyped, ThrownOut, Tab, Paths
<1>3. odd' \in Odd /\ call' = NotCalling
  BY DEF ThrownOut, Fine, Odd
<1>4. asks' = Append(<< >>, Ask(cookie', "login", "none"))
  BY <1>1 DEF ThrownOut
<1>5. AsksFit(<< >>)
  BY DEF AsksFit
<1>6. AsksFit(asks)' /\ Informed'
  BY <1>1, <1>2, <1>4, <1>5, AskedAnew DEF Paths
<1>7. call' \in Calls /\ call'.op # "logout"
  BY <1>3 DEF Calls, NotCalling
<1> QED
  BY <1>1, <1>2, <1>3, <1>6, <1>7 DEF SessionInv, SessionTyped, RowsOwn, LogoutFromMain

\* A button is pressed, or the API refuses: only the call changes.
LEMMA CallStep ==
  ASSUME SessionInv, UNCHANGED <<cookie, tab, asks, odd>>, call' \in Calls,
         call'.op = "logout" => ~AlwaysPublic(call'.page)
  PROVE  SessionInv'
BY DEF SessionInv, SessionTyped, AsksFit, Informed, Awaiting, Newest, AskingNow, Knows, Gone, Emptied, ToLeave,
       RowsOwn, LogoutFromMain, Signed

LEMMA TargetIsAPath == ASSUME SessionTyped PROVE Target \in Paths
BY DEF SessionTyped, Target, Home, Tab, Paths

\* Another page asks anew.
LEMMA MoveStep ==
  ASSUME SessionInv, Redirect \/ \E p \in Paths : Follow(p) PROVE SessionInv'
<1>1. SessionTyped /\ AsksFit(asks) /\ UNCHANGED <<cookie, call>> /\ cookie' \in Cookie
  BY DEF SessionInv, SessionTyped, Redirect, Follow
<1>2. PICK t \in Tab, p \in Paths : Visit(t, p, asks, cookie, odd) /\ p # t.page /\ t.rows = tab.rows
  <2>1. CASE Redirect
    <3> DEFINE t == [tab EXCEPT !.pending = IF GuestOnly(tab.page) THEN "none" ELSE @]
    <3>1. t \in Tab /\ t.page = tab.page /\ t.rows = tab.rows
      BY <1>1 DEF SessionTyped, Tab
    <3>2. Visit(t, Target, asks, cookie, odd) /\ Target # tab.page
      BY <2>1 DEF Redirect
    <3> QED
      BY <1>1, <3>1, <3>2, TargetIsAPath
  <2>2. CASE \E p \in Paths : Follow(p)
    BY <1>1, <2>2 DEF Follow, SessionTyped
  <2> QED
    BY <2>1, <2>2
<1>3. AsksFit(asks)' /\ Informed' /\ tab' \in Tab /\ tab'.rows = tab.rows /\ odd' \in Odd
      /\ odd'.mixed = odd.mixed
  BY <1>1, <1>2, VisitAnew DEF SessionTyped
<1> QED
  BY <1>1, <1>3 DEF SessionInv, SessionTyped, RowsOwn, LogoutFromMain

\* The API answers a request: the newest with the truth about the cookie of now.
LEMMA ServedStep ==
  ASSUME SessionInv, NEW i \in DOMAIN asks, Serve(i) \/ AskFails(i) PROVE SessionInv'
<1>1. SessionTyped /\ AsksFit(asks) /\ UNCHANGED <<cookie, tab, call, odd>>
  BY DEF SessionInv, Serve, AskFails
<1>2. PICK g \in {"user", "401", "error"} :
        /\ asks' = [asks EXCEPT ![i].got = g]
        /\ g = "user" => asks[i].id # Nobody
        /\ g # "error" /\ asks[i].id = cookie.id => (g = "user" <=> Signed)
  BY DEF Serve, AskFails, Signed
<1>3. AsksFit(asks') /\ Len(asks') = Len(asks)
      /\ \A j \in DOMAIN asks : asks'[j] = IF j = i THEN [asks[i] EXCEPT !.got = g] ELSE asks[j]
  BY <1>1, <1>2, GotFits
<1>4. asks \in Seq(AskRecord) /\ DOMAIN asks = 1 .. Len(asks) /\ Len(asks) \in Nat \ {0}
  BY <1>1 DEF AsksFit
<1> DEFINE n == Newest(asks)
<1>5. n = asks[Len(asks)] /\ Len(asks) \in DOMAIN asks /\ n \in AskRecord
  BY <1>4 DEF Newest
<1>6. Newest(asks') = asks'[Len(asks)] /\ asks' # << >> /\ asks # << >>
  BY <1>3, <1>4 DEF Newest, AsksFit
<1>7. CASE i # Len(asks)
  <2>1. Newest(asks') = n
    BY <1>3, <1>5, <1>6, <1>7
  <2> QED
    BY <1>1, <1>3, <1>6, <2>1
       DEF SessionInv, SessionTyped, Informed, Awaiting, AskingNow, Knows, Gone, Emptied, ToLeave, Signed,
           RowsOwn, LogoutFromMain, AsksFit, Newest
<1>8. CASE i = Len(asks)
  <2>1. Newest(asks') = [n EXCEPT !.got = g]
    BY <1>3, <1>5, <1>6, <1>8
  <2>2. /\ Newest(asks').id = n.id /\ Newest(asks').late = n.late
        /\ Newest(asks').page = n.page /\ Newest(asks').got = g
    BY <1>5, <2>1 DEF AskRecord
  <2>3. n.id = cookie.id => (g = "user" => Signed) /\ (g = "401" => ~Signed)
    BY <1>2, <1>5, <1>8
  <2>4. Informed'
    <3>1. CASE Awaiting(asks)
      <4>1. AskingNow(n)
        BY <3>1 DEF SessionInv, Informed
      <4>2. AskingNow(Newest(asks'))
        BY <2>2, <2>3, <4>1 DEF AskingNow
      <4> QED
        BY <1>1, <2>2, <1>6, <3>1, <4>2 DEF Informed, Awaiting, Newest, AskingNow, Gone, Emptied, Signed
    <3>2. CASE ~Awaiting(asks)
      <4>1. Knows /\ ~Awaiting(asks')
        BY <2>2, <1>6, <3>2 DEF SessionInv, Informed, Awaiting
      <4> QED
        BY <1>1, <4>1 DEF Informed, Knows, ToLeave, Signed, Awaiting, Newest
    <3> QED
      BY <3>1, <3>2
  <2> QED
    BY <1>1, <1>3, <2>4 DEF SessionInv, SessionTyped, RowsOwn, LogoutFromMain, AsksFit
<1> QED
  BY <1>7, <1>8

\* The tab takes an answer in, and stays where it is.
LEMMA TakenStep ==
  ASSUME SessionInv, NEW i \in DOMAIN asks, asks[i].got # "nothing",
         UNCHANGED <<cookie, call>>, asks' = Left(i),
         odd' = [odd EXCEPT !.late = asks[i].late, !.erred = asks[i].got = "error"],
         tab' = [IF asks[i].got = "user" THEN [tab EXCEPT !.user = asks[i].id]
                 ELSE Cleared(tab, asks[i].page) EXCEPT !.loading = FALSE]
  PROVE  SessionInv'
<1> DEFINE a == asks[i]
           n == Newest(asks)
<1>1. SessionTyped /\ AsksFit(asks)
  BY DEF SessionInv
<1>2. /\ Len(asks) \in Nat \ {0} /\ DOMAIN asks = 1 .. Len(asks)
      /\ Len(asks') = Len(asks) - 1 /\ DOMAIN asks' = 1 .. Len(asks) - 1
      /\ \A j \in DOMAIN asks' : /\ j \in DOMAIN asks /\ j + 1 \in DOMAIN asks
                                 /\ j >= i => asks'[j] = asks[j + 1]
                                 /\ j < i => asks'[j] = [asks[j] EXCEPT !.late = TRUE]
  BY <1>1, LeftShape
<1>3. AsksFit(asks') /\ asks' \in Seq(AskRecord) /\ \A j \in DOMAIN asks : asks[j] \in AskRecord
  BY <1>1, LeftFits DEF AsksFit
<1>4. a \in AskRecord /\ a = asks[i] /\ (a.got = "user" => a.id # Nobody) /\ n = asks[Len(asks)]
      /\ n \in AskRecord /\ asks # << >>
  BY <1>1, <1>2, <1>3 DEF AsksFit, Newest
<1> HIDE DEF a, n
<1>5. /\ odd' \in Odd /\ odd'.late = a.late /\ odd'.erred = (a.got = "error")
      /\ odd'.unseen = odd.unseen /\ odd'.mixed = odd.mixed
  BY <1>1, <1>4 DEF SessionTyped, Odd, AskRecord
<1>6. /\ tab' \in Tab /\ tab'.page = tab.page
      /\ tab'.user = IF a.got = "user" THEN a.id ELSE Nobody
      /\ tab'.rows = IF a.got = "user" \/ AlwaysPublic(a.page) THEN tab.rows ELSE {}
  <2>1. CASE a.got = "user"
    BY <1>1, <1>4, <2>1 DEF SessionTyped, Tab, AskRecord
  <2>2. CASE a.got # "user"
    <3>1. tab' = [Cleared(tab, a.page) EXCEPT !.loading = FALSE]
      BY <1>4, <2>2
    <3> QED
      BY <1>1, <2>2, <3>1, IdsOf DEF SessionTyped, Tab, Cleared
  <2> QED
    BY <2>1, <2>2
<1>7. RowsOwn' /\ LogoutFromMain' /\ SessionTyped'
  BY <1>1, <1>5, <1>6 DEF SessionInv, SessionTyped, RowsOwn, LogoutFromMain
<1>8. CASE i < Len(asks)
  <2>1. asks' # << >> /\ Newest(asks') = n
    <3>1. Len(asks) - 1 \in DOMAIN asks' /\ Len(asks) - 1 >= i
      BY <1>2, <1>8
    <3>2. asks'[Len(asks) - 1] = asks[Len(asks) - 1 + 1] /\ Len(asks) - 1 + 1 = Len(asks)
      BY <1>2, <3>1
    <3> QED
      BY <1>2, <1>4, <3>1, <3>2 DEF Newest
  <2>2. CASE n.late
    <3>1. a.late
      BY <1>1, <1>2, <1>4, <1>8, <2>2 DEF AsksFit
    <3>2. ~Awaiting(asks') /\ Knows'
      BY <1>5, <2>1, <2>2, <3>1 DEF Awaiting, Knows
    <3> QED
      BY <1>3, <1>7, <3>2 DEF SessionInv, Informed, Awaiting, Newest, AsksFit
  <2>3. CASE ~n.late
    <3>1. AskingNow(n)
      BY <1>4, <2>3 DEF SessionInv, Informed, Awaiting, n
    <3>2. asks'[Len(asks')] = n /\ Awaiting(asks)'
      BY <2>1, <2>3 DEF Newest, Awaiting
    <3>3. Informed'
      BY <1>5, <1>6, <3>1, <3>2 DEF Informed, Newest, AskingNow, Gone, Emptied, Signed
    <3> QED
      BY <1>3, <1>7, <3>3 DEF SessionInv, AsksFit
  <2> QED
    BY <2>2, <2>3
<1>9. CASE i = Len(asks)
  <2>1. a = n
    BY <1>4, <1>9
  <2>2. ~Awaiting(asks)'
    <3>1. CASE Len(asks) = 1
      BY <1>2, <1>3, <3>1 DEF Awaiting
    <3>2. CASE Len(asks) # 1
      <4>1. Len(asks') \in DOMAIN asks' /\ Len(asks') < i
        BY <1>2, <1>9, <3>2
      <4>2. asks'[Len(asks')] = [asks[Len(asks')] EXCEPT !.late = TRUE]
            /\ asks[Len(asks')] \in AskRecord
        BY <1>2, <1>3, <4>1
      <4> QED
        BY <4>2 DEF Awaiting, Newest, AskRecord
    <3> QED
      BY <3>1, <3>2
  <2>3. Knows'
    <3>1. CASE a.late
      BY <1>5, <3>1 DEF Knows
    <3>2. CASE ~a.late
      <4>1. AskingNow(a)
        BY <1>4, <2>1, <3>2 DEF SessionInv, Informed, Awaiting, n
      <4>2. CASE a.got = "user"
        BY <1>4, <1>5, <1>6, <4>1, <4>2 DEF AskingNow, Knows, Gone, Emptied, ToLeave, Signed
      <4>3. CASE a.got = "error"
        BY <1>5, <1>6, <4>1, <4>3 DEF AskingNow, Knows
      <4>4. CASE a.got = "401"
        <5>1. odd.unseen \/ ~Signed
          BY <4>1, <4>4 DEF AskingNow, Gone, Emptied, Signed
        <5>2. tab'.user = Nobody /\ (tab'.rows = {} \/ tab'.page # "login")
          BY <1>6, <4>1, <4>4 DEF AskingNow
        <5> QED
          BY <1>5, <5>1, <5>2 DEF Knows, Signed
      <4> QED
        BY <1>4, <4>2, <4>3, <4>4 DEF AskRecord
    <3> QED
      BY <3>1, <3>2
  <2> QED
    BY <1>3, <1>7, <2>2, <2>3 DEF SessionInv, Informed, AsksFit
<1> QED
  BY <1>2, <1>8, <1>9

LEMMA ReceiveStep ==
  ASSUME SessionInv, NEW i \in DOMAIN asks, Receive(i) PROVE SessionInv'
<1> DEFINE o == [odd EXCEPT !.late = asks[i].late, !.erred = asks[i].got = "error"]
           known == [IF asks[i].got = "user" THEN [tab EXCEPT !.user = asks[i].id]
                     ELSE Cleared(tab, asks[i].page) EXCEPT !.loading = FALSE]
<1>1. SessionTyped /\ AsksFit(asks) /\ asks[i] \in AskRecord /\ asks[i].got # "nothing"
      /\ UNCHANGED cookie
  BY DEF SessionInv, AsksFit, Receive
<1>2. CASE ThrownOut
  BY <1>1, <1>2, ThrownStep
<1>3. CASE UNCHANGED call /\ asks[i].next = "none" /\ tab' = known /\ asks' = Left(i) /\ odd' = o
  BY <1>1, <1>3, TakenStep
<1>4. CASE UNCHANGED call /\ asks[i].next = "dashboard" /\ Visit(known, "dashboard", Left(i), cookie, o)
  <2>1. known \in Tab /\ o \in Odd /\ o.mixed = odd.mixed /\ known.rows \subseteq tab.rows
    <3>1. o \in Odd /\ o.mixed = odd.mixed
      BY <1>1 DEF SessionTyped, Odd, AskRecord
    <3>2. CASE asks[i].got = "user"
      BY <1>1, <3>1, <3>2 DEF SessionTyped, Tab, AskRecord
    <3>3. CASE asks[i].got # "user"
      <4>1. known = [Cleared(tab, asks[i].page) EXCEPT !.loading = FALSE]
        BY <3>3
      <4> QED
        BY <1>1, <3>1, <4>1, IdsOf DEF SessionTyped, Tab, Cleared
    <3> QED
      BY <3>2, <3>3
  <2>2. CASE known.page = "dashboard"
    <3>1. tab' = [known EXCEPT !.page = "dashboard"] /\ asks' = Left(i) /\ odd' = o
      BY <1>4, <2>2 DEF Visit
    <3>2. tab' = known
      BY <2>1, <2>2, <3>1 DEF Tab
    <3> QED
      BY <1>1, <1>4, <3>1, <3>2, TakenStep
  <2>3. CASE known.page # "dashboard"
    <3>1. AsksFit(Left(i)) /\ cookie = cookie' /\ cookie' \in Cookie /\ "dashboard" \in Paths
      BY <1>1, LeftFits DEF SessionTyped, Paths
    <3> HIDE DEF known, o
    <3>2. AsksFit(asks)' /\ Informed' /\ tab' \in Tab /\ tab'.rows = known.rows
          /\ odd' \in Odd /\ odd'.mixed = o.mixed
      BY <1>4, <2>1, <2>3, <3>1, VisitAnew
    <3> QED
      BY <1>1, <1>4, <2>1, <3>1, <3>2 DEF SessionInv, SessionTyped, RowsOwn, LogoutFromMain
  <2> QED
    BY <2>2, <2>3
<1> QED
  <2>1. asks[i].next \in {"none", "dashboard"}
    BY <1>1 DEF AskRecord
  <2> QED
    BY <1>2, <1>3, <1>4, <2>1 DEF Receive

\* The rows that are fetched are those of the cookie.
LEMMA FetchStep ==
  ASSUME SessionInv, Fetch PROVE SessionInv'
<1>1. SessionTyped /\ UNCHANGED cookie /\ Main
  BY DEF SessionInv, Fetch
<1>2. CASE ~Signed
  BY <1>1, <1>2, ThrownStep DEF Fetch
<1>3. CASE Signed
  <2>1. UNCHANGED <<asks, call, odd>> /\ tab' = [tab EXCEPT !.rows = @ \union {cookie.id.who}]
    BY <1>3 DEF Fetch
  <2>2. cookie.id.who \in Accounts
    BY <1>1, <1>3, IdsOf DEF Signed, SessionTyped, Cookie
  <2>3. /\ tab' \in Tab /\ tab'.page = tab.page /\ tab'.user = tab.user
        /\ tab'.rows = tab.rows \union {cookie.id.who}
    BY <1>1, <2>1, <2>2 DEF SessionTyped, Tab
  <2>4. tab.page # "login" /\ tab.user # Nobody
    BY <1>1 DEF Main, Exempt, GuestOnly
  <2>5. Informed'
    BY <1>1, <2>1, <2>3, <2>4
       DEF SessionInv, Informed, Awaiting, Newest, AskingNow, Knows, Gone, Emptied, ToLeave, Signed
  <2> QED
    BY <1>1, <2>1, <2>3, <2>5 DEF SessionInv, SessionTyped, RowsOwn, LogoutFromMain, AsksFit
<1> QED
  BY <1>2, <1>3

\* A new cookie is set, the tab forgets its rows and asks.
LEMMA SignInStep ==
  ASSUME SessionInv, LoggedIn \/ Registered \/ Impersonated \/ Stopped PROVE SessionInv'
<1>1. SessionTyped /\ AsksFit(asks)
  BY DEF SessionInv
<1>2. call.op \in {"login", "register", "impersonate", "stop"}
  BY DEF LoggedIn, Registered, Impersonated, Stopped
<1>3. call.who \in Accounts /\ call.page \in Paths
  BY <1>1, <1>2 DEF SessionTyped, Calls, NotCalling
<1>4. PICK id \in Identities, t \in Tab, next \in {"none", "dashboard"} : SignIn(id, t, next) /\ t.rows = {}
  <2>1. CASE LoggedIn
    <3>1. PICK p \in {tab.pending, "users"} :
            SignIn(As(call.who), StartedAnew([tab EXCEPT !.pending = p]), "none")
      BY <2>1 DEF LoggedIn
    <3>2. StartedAnew([tab EXCEPT !.pending = p]) \in Tab
          /\ StartedAnew([tab EXCEPT !.pending = p]).rows = {}
      BY <1>1 DEF SessionTyped, Tab, StartedAnew
    <3> QED
      BY <1>3, <3>1, <3>2, IdsOf
  <2>2. StartedAnew(tab) \in Tab /\ StartedAnew(tab).rows = {}
    BY <1>1 DEF SessionTyped, Tab, StartedAnew
  <2>3. CASE Registered
    BY <1>3, <2>2, <2>3, IdsOf DEF Registered
  <2>4. CASE Impersonated
    <3>1. cookie.id.who \in Accounts
      BY <1>1, <2>4, IdsOf DEF Impersonated, Signed, SessionTyped, Cookie
    <3>2. [who |-> call.who, by |-> cookie.id.who] \in Identities
      BY <1>3, <3>1 DEF Identities
    <3> QED
      BY <2>2, <2>4, <3>2 DEF Impersonated
  <2>5. CASE Stopped
    <3>1. cookie.id.by \in Accounts
      BY <1>1, <2>5 DEF Stopped, Signed, SessionTyped, Cookie, Identities, Nobody
    <3> QED
      BY <2>2, <2>5, <3>1, IdsOf DEF Stopped
  <2> QED
    BY <2>1, <2>3, <2>4, <2>5
<1>5. cookie' = [id |-> id, live |-> TRUE] /\ tab' = t /\ call' = NotCalling
      /\ asks' = Append(asks, Ask(cookie', call.page, next))
      /\ odd' = [Anew(odd) EXCEPT !.mixed = FALSE]
  BY <1>4 DEF SignIn
<1>6. cookie' \in Cookie /\ odd' \in Odd /\ tab'.rows = {} /\ tab' \in Tab
  BY <1>1, <1>4, <1>5 DEF SessionTyped, Cookie, Anew, Odd
<1>7. AsksFit(asks)' /\ Informed'
  BY <1>1, <1>3, <1>5, <1>6, AskedAnew
<1>8. call' \in Calls /\ call'.op # "logout"
  BY <1>5 DEF Calls, NotCalling
<1> QED
  BY <1>6, <1>7, <1>8 DEF SessionInv, SessionTyped, RowsOwn, LogoutFromMain

\* A logout was pressed on a page that is not public: the tab forgets all, and
\* asks, unless it is on the login page already.
LEMMA LogoutStep ==
  ASSUME SessionInv, LoggedOut \/ LogoutFails \/ (Declined /\ call.op = "logout") PROVE SessionInv'
<1> DEFINE t == Cleared(tab, call.page)
<1>1. SessionTyped /\ AsksFit(asks) /\ cookie \in Cookie
  BY DEF SessionInv, SessionTyped
<1>2. CASE ThrownOut /\ UNCHANGED cookie
  BY <1>2, ThrownStep
<1>3. CASE UNCHANGED <<cookie, tab, asks, odd>> /\ call' = NotCalling
  BY <1>3, CallStep DEF Calls, NotCalling
<1>4. ASSUME NEW o \in Odd, Visit(t, "login", asks, cookie', o), cookie' \in Cookie,
             call.op = "logout", call' = NotCalling,
             o.unseen = odd.unseen, o.late = odd.late,
             \/ cookie' = [id |-> Nobody, live |-> FALSE]
             \/ cookie' = cookie /\ (o.erred \/ ~Signed)
      PROVE  SessionInv'
  <2>1. /\ t \in Tab /\ t.page = tab.page /\ t.user = Nobody /\ t.rows = {}
    BY <1>1, <1>4, IdsOf DEF SessionTyped, Tab, Cleared, SessionInv, LogoutFromMain
  <2> HIDE DEF t
  <2>2. call' \in Calls /\ call'.op # "logout"
    BY <1>4 DEF Calls, NotCalling
  <2>3. CASE tab.page # "login"
    <3>1. AsksFit(asks)' /\ Informed' /\ tab' \in Tab /\ tab'.rows = {} /\ odd' \in Odd
      BY <1>1, <1>4, <2>1, <2>3, VisitAnew DEF Paths
    <3> QED
      BY <1>4, <2>2, <3>1 DEF SessionInv, SessionTyped, RowsOwn, LogoutFromMain
  <2>4. CASE tab.page = "login"
    <3>1. tab' = [t EXCEPT !.page = "login"] /\ asks' = asks /\ odd' = o
      BY <1>4, <2>1, <2>4 DEF Visit
    <3>2. tab' \in Tab /\ tab'.page = "login" /\ tab'.user = Nobody /\ tab'.rows = {}
      BY <2>1, <2>4, <3>1 DEF Tab
    <3>3. CASE Awaiting(asks)
      <4>1. AskingNow(Newest(asks))
        BY <3>3 DEF SessionInv, Informed
      <4>2. Informed'
        BY <1>4, <2>4, <3>1, <3>2, <3>3, <4>1 DEF Informed, Awaiting, Newest, AskingNow, Gone, Emptied, Signed
      <4> QED
        BY <1>1, <1>4, <2>2, <3>1, <3>2, <4>2
           DEF SessionInv, SessionTyped, RowsOwn, LogoutFromMain, AsksFit
    <3>4. CASE ~Awaiting(asks)
      <4>1. odd'.erred \/ ~Signed'
        BY <1>4, <3>1 DEF Signed
      <4>2. Informed'
        BY <3>1, <3>2, <3>4, <4>1 DEF Informed, Awaiting, Newest, Knows
      <4> QED
        BY <1>1, <1>4, <2>2, <3>1, <3>2, <4>2
           DEF SessionInv, SessionTyped, RowsOwn, LogoutFromMain, AsksFit
    <3> QED
      BY <3>3, <3>4
  <2> QED
    BY <2>3, <2>4
<1>5. CASE LoggedOut
  <2>1. [odd EXCEPT !.mixed = FALSE] \in Odd /\ [odd EXCEPT !.mixed = FALSE].unseen = odd.unseen
        /\ [odd EXCEPT !.mixed = FALSE].late = odd.late
    BY <1>1 DEF SessionTyped, Odd
  <2>2. cookie' = [id |-> Nobody, live |-> FALSE] /\ cookie' \in Cookie
    BY <1>5, IdsOf DEF LoggedOut, Cookie
  <2> QED
    BY <1>4, <1>5, <2>1, <2>2 DEF LoggedOut
<1>6. CASE LogoutFails
  <2> DEFINE o == [odd EXCEPT !.mixed = FALSE, !.erred = TRUE]
  <2>1. o \in Odd /\ o.unseen = odd.unseen /\ o.late = odd.late /\ o.erred
    BY <1>1 DEF SessionTyped, Odd
  <2>2. Visit(t, "login", asks, cookie', o) /\ cookie' = cookie /\ call' = NotCalling /\ call.op = "logout"
    BY <1>6 DEF LogoutFails
  <2> HIDE DEF o, t
  <2> QED
    BY <1>1, <1>4, <2>1, <2>2
<1>7. CASE Declined /\ call.op = "logout"
  BY <1>1, <1>2, <1>3, <1>4, <1>7 DEF Declined, SessionTyped
<1> QED
  BY <1>5, <1>6, <1>7

\* The rest of the world moves: what the tab can no longer know is noted.
LEMMA WorldStep ==
  ASSUME SessionInv, OtherTab \/ SessionEnds PROVE SessionInv'
<1>1. SessionTyped /\ UNCHANGED <<tab, asks, call>>
  BY DEF SessionInv, OtherTab, SessionEnds
<1>2. cookie' \in Cookie /\ odd' \in Odd /\ odd'.unseen
  <2>1. CASE OtherTab
    <3>1. cookie' = [id |-> Nobody, live |-> FALSE]
          \/ \E u \in Accounts : cookie' = [id |-> As(u), live |-> TRUE]
      BY <2>1 DEF OtherTab
    <3>2. cookie' \in Cookie
      BY <3>1, IdsOf, CookieOf
    <3>3. odd' = [odd EXCEPT !.unseen = TRUE, !.mixed = TRUE]
      BY <2>1 DEF OtherTab
    <3> QED
      BY <1>1, <3>2, <3>3 DEF SessionTyped, Odd
  <2>2. CASE SessionEnds
    BY <1>1, <2>2 DEF SessionEnds, SessionTyped, Cookie, Odd
  <2> QED
    BY <2>1, <2>2
<1>3. odd'.mixed \/ (cookie'.id = cookie.id /\ odd'.mixed = odd.mixed /\ odd'.late = odd.late)
  BY <1>1 DEF OtherTab, SessionEnds, SessionTyped, Cookie, Odd
<1>4. Informed' /\ RowsOwn'
  BY <1>1, <1>2, <1>3
     DEF SessionInv, Informed, RowsOwn, Awaiting, Newest, AskingNow, Knows, Emptied, ToLeave
<1> QED
  BY <1>1, <1>2, <1>4 DEF SessionInv, SessionTyped, LogoutFromMain, AsksFit

LEMMA ClickStep ==
  ASSUME SessionInv,
         \/ \E u \in Accounts : SubmitLogin(u) \/ SubmitRegister(u) \/ Impersonate(u)
         \/ Logout \/ StopImpersonation \/ CallFails \/ (Declined /\ call.op # "logout")
  PROVE  SessionInv'
<1>1. SessionTyped /\ tab.page \in Paths
  BY DEF SessionInv, SessionTyped, Tab
<1>2. CASE ThrownOut /\ UNCHANGED cookie
  BY <1>2, ThrownStep
<1>3. CASE UNCHANGED <<cookie, tab, asks, odd>> /\ call' = NotCalling
  BY <1>3, CallStep DEF Calls, NotCalling
<1>4. ASSUME NEW op \in {"login", "register", "logout", "impersonate", "stop"}, NEW u \in Accounts,
             UNCHANGED <<cookie, tab, asks, odd>>, Click(op, u), op = "logout" => Main
      PROVE  SessionInv'
  <2>1. call' = [op |-> op, who |-> u, page |-> tab.page]
    BY <1>4 DEF Click
  <2>2. call' \in Calls
    BY <1>1, <2>1 DEF Calls
  <2>3. call'.op = "logout" => ~AlwaysPublic(call'.page)
    BY <1>4, <2>1 DEF Main, Exempt
  <2> QED
    BY <1>4, <2>2, <2>3, CallStep
<1>5. CASE Logout
  <2>1. tab.user.who \in Accounts
    BY <1>1, <1>5, IdsOf DEF Logout, Main, SessionTyped, Tab
  <2> QED
    BY <1>4, <1>5, <2>1 DEF Logout
<1>6. CASE StopImpersonation
  <2>1. tab.user.by \in Accounts
    BY <1>1, <1>6 DEF StopImpersonation, Main, SessionTyped, Tab, Identities, Nobody
  <2> QED
    BY <1>4, <1>6, <2>1 DEF StopImpersonation
<1>7. CASE CallFails
  BY <1>3, <1>7 DEF CallFails
<1>8. CASE Declined /\ call.op # "logout"
  BY <1>2, <1>3, <1>8 DEF Declined
<1> QED
  BY <1>4, <1>5, <1>6, <1>7, <1>8 DEF SubmitLogin, SubmitRegister, Impersonate

LEMMA SessionInitially == SessionInit => SessionInv
<1> SUFFICES ASSUME SessionInit PROVE SessionInv
  OBVIOUS
<1>1. cookie \in Cookie
  <2>1. PICK u \in Accounts : cookie = [id |-> As(u), live |-> TRUE] \/ cookie = [id |-> Nobody, live |-> FALSE]
    BY DEF SessionInit
  <2>2. As(u) \in Identities /\ Nobody \in Identities
    BY IdsOf
  <2> HIDE DEF As, Nobody
  <2> QED
    BY <2>1, <2>2, CookieOf
<1>2. PICK p \in Paths :
        /\ tab = [user |-> Nobody, loading |-> TRUE, page |-> p, rows |-> {}, pending |-> "none"]
        /\ asks = <<[id |-> cookie.id, page |-> p, got |-> "nothing", next |-> "none", late |-> FALSE]>>
  BY DEF SessionInit
<1>3. tab \in Tab /\ tab.rows = {} /\ tab.page = p
  BY <1>2, IdsOf DEF Tab
<1>4. call \in Calls /\ odd \in Odd /\ call.op # "logout"
  BY DEF SessionInit, Calls, NotCalling, Fine, Odd
<1> DEFINE a == Ask(cookie, p, "none")
<1>5. a \in AskRecord /\ a.got = "nothing" /\ ~a.late /\ a.id = cookie.id /\ a.page = p
  BY <1>1, AskTyped
<1>6. asks = Append(<< >>, a)
  BY <1>2 DEF Ask
<1> HIDE DEF a
<1>7. AsksFit(<< >>)
  BY DEF AsksFit
<1>8. AsksFit(asks) /\ Awaiting(asks) /\ Newest(asks) = a
  BY <1>5, <1>6, <1>7, AppendFits
<1>9. Informed
  BY <1>3, <1>5, <1>8 DEF Informed, AskingNow
<1> QED
  BY <1>1, <1>3, <1>4, <1>8, <1>9 DEF SessionInv, SessionTyped, RowsOwn, LogoutFromMain

LEMMA SessionStep == SessionInv /\ [SessionNext]_session => SessionInv'
<1> SUFFICES ASSUME SessionInv, [SessionNext]_session PROVE SessionInv'
  OBVIOUS
<1>1. CASE UNCHANGED session
  BY <1>1, CallStep DEF session, SessionInv, SessionTyped, LogoutFromMain
<1>2. CASE Browser
  BY <1>2, MoveStep, ServedStep, ReceiveStep DEF Browser
<1>3. CASE Answers
  BY <1>3, SignInStep, LogoutStep, ClickStep DEF Answers
<1>4. CASE User
  BY <1>4, MoveStep, ClickStep DEF User
<1>5. CASE World
  BY <1>5, WorldStep, LogoutStep, ClickStep, ServedStep DEF World
<1> QED
  BY <1>1, <1>2, <1>3, <1>4, <1>5, FetchStep DEF SessionNext

LEMMA SessionInvariant == SessionSpec => []SessionInv
BY SessionInitially, SessionStep, PTL DEF SessionSpec

\* The variables of the session of a tab keep their types.
THEOREM SessionTypeCorrect == SessionSpec => []SessionTyped
<1>1. SessionInv => SessionTyped
  BY DEF SessionInv
<1> QED
  BY <1>1, SessionInvariant, PTL

\* A tab at rest shows the account of the cookie, or nobody, and keeps no rows
\* of another account, however answers overtook each other, whoever signed in
\* and out, but for the excuses that ShowsSignedIn names.
THEOREM SettledTabShowsTheCookie == SessionSpec => []ShowsSignedIn
<1>1. SessionInv => ShowsSignedIn
  <2> SUFFICES ASSUME SessionInv, AtRest PROVE ShowsSignedIn
    BY DEF ShowsSignedIn
  <2>1. SessionTyped /\ Knows /\ Target = tab.page /\ ~tab.loading
    BY DEF AtRest, SessionInv, Informed, Awaiting
  <2>2. ~ToLeave
    BY <2>1 DEF ToLeave, Target, AlwaysPublic, GuestOnly, SessionTyped, Tab, Home
  <2>3. tab.user = Nobody => AlwaysPublic(tab.page) \/ tab.page = "login"
    BY <2>1 DEF Target
  <2>4. odd.late \/ odd.mixed \/ AlwaysPublic(tab.page) \/ tab.rows = {} \/ tab.user = cookie.id
    BY <2>1, <2>2, <2>3 DEF Knows
  <2>5. odd.mixed \/ tab.rows \subseteq {cookie.id.who}
    BY DEF SessionInv, RowsOwn
  <2> QED
    BY <2>1, <2>2, <2>4, <2>5 DEF Knows, ShowsSignedIn
<1> QED
  BY <1>1, SessionInvariant, PTL

(***************************************************************************)
(* Viewer.  The argument: whatever waits has a call under way, and the call *)
(* is about what is waited for.                                             *)
(***************************************************************************)
Surfaces == {"drawer", "trash", "detail", "shared"}
Sequence(q) == q \in Seq({q[i] : i \in DOMAIN q})
Shaped(v) ==
  /\ v.surface \in Surfaces
  /\ v = [surface |-> v.surface, shown |-> v.shown, listed |-> v.listed, cache |-> v.cache,
          index |-> v.index, playing |-> v.playing, loading |-> v.loading, link |-> v.link,
          busy |-> v.busy, meant |-> v.meant, since |-> v.since, astray |-> v.astray, saved |-> v.saved]

Out(q, op)     == \E i \in DOMAIN q : q[i].op = op
Wanted(q, op, a) == \E i \in DOMAIN q : q[i].op = op /\ q[i].about = a

Single(q, op)  == \A i, j \in DOMAIN q : q[i].op = op /\ q[j].op = op => i = j

\* What buttons wait for.
Buttons == {"mp4", "photos", "pdf", "link"}
\* A spinner has its call.
Waits(v, q) ==
  /\ \A op \in v.busy : op \in Buttons /\ Out(q, op)
  /\ v.loading # None => Wanted(q, "play", v.loading)
\* A video on the screen plays, or its call is under way.
Plays(v, q) ==
  Video(OnScreen(v)) => v.playing = OnScreen(v) \/ v.since # {} \/ Wanted(q, "play", OnScreen(v))
\* One link is asked for at a time, while none is shown.
OneLink(v, q) ==
  /\ Single(q, "link")
  /\ Out(q, "link") => "link" \in v.busy /\ v.link = None
LinkHere(v, q) ==
  \/ v.astray
  \/ /\ v.shown = None => v.link = None /\ ~Out(q, "link")
     /\ v.link # None => v.link = v.shown
     /\ \A i \in DOMAIN q : q[i].op = "link" => q[i].service = v.shown
\* The shared page loads one video at a time, the one that was clicked.
OneVideo(v, q) ==
  v.surface = "shared" =>
    /\ \A i \in DOMAIN q : q[i].op = "play" => v.loading = q[i].about /\ v.meant = q[i].about /\ v.loading # None
    /\ Single(q, "play")
    /\ v.playing # None => v.playing = v.meant
Clicked(v) ==
  v.shown # None /\ OnScreen(v) # None =>
    OnScreen(v) = v.meant \/ v.since \intersect {"reopened", "shifted"} # {}

Settling(v, q) ==
  /\ Sequence(q) /\ Shaped(v)
  /\ Waits(v, q) /\ Plays(v, q) /\ OneLink(v, q) /\ LinkHere(v, q) /\ OneVideo(v, q)
  /\ Clicked(v) /\ v.saved[1] = v.saved[2]
ViewerInv == Settling(viewer, requests)

-----------------------------------------------------------------------------
(* Calls that are made and answered.                                        *)

LEMMA ShortSequences == Sequence(<< >>) /\ \A r : Sequence(<<r>>)
<1>1. << >> \in Seq({<< >>[i] : i \in DOMAIN << >>})
  BY EmptySeq
<1>2. ASSUME NEW r PROVE Sequence(<<r>>)
  <2>1. <<r>> \in Seq({r}) /\ {<<r>>[i] : i \in DOMAIN <<r>>} = {r}
    OBVIOUS
  <2> QED
    BY <2>1 DEF Sequence
<1> QED
  BY <1>1, <1>2 DEF Sequence

LEMMA SentFacts ==
  ASSUME NEW q, Sequence(q), NEW r
  PROVE  LET p == Append(q, r) IN
         /\ Sequence(p)
         /\ \A i \in DOMAIN q : i \in DOMAIN p /\ p[i] = q[i]
         /\ \E n \in DOMAIN p \ DOMAIN q : p[n] = r /\ \A i \in DOMAIN p : i = n \/ i \in DOMAIN q
<1> DEFINE p == Append(q, r)
           S == {q[i] : i \in DOMAIN q} \union {r}
           n == Len(q) + 1
<1>1. q \in Seq(S)
  <2>1. q \in Seq({q[i] : i \in DOMAIN q})
    BY DEF Sequence
  <2> QED
    BY <2>1, SeqMonotonic
<1>2. p \in Seq(S) /\ Len(q) \in Nat /\ DOMAIN q = 1 .. Len(q) /\ DOMAIN p = 1 .. n
      /\ p[n] = r /\ \A i \in DOMAIN q : p[i] = q[i]
  BY <1>1
<1>3. \A i \in DOMAIN q : i \in DOMAIN p
  BY <1>2
<1>4. n \in DOMAIN p \ DOMAIN q /\ \A i \in DOMAIN p : i = n \/ i \in DOMAIN q
  BY <1>2
<1>5. Sequence(p)
  <2> HIDE DEF p
  <2>1. p \in [DOMAIN p -> {p[i] : i \in DOMAIN p}] /\ Len(p) \in Nat /\ DOMAIN p = 1 .. Len(p)
    BY <1>2, LenProperties
  <2> QED
    BY <2>1, SeqDef DEF Sequence
<1> QED
  BY <1>2, <1>3, <1>4, <1>5

AfterSending(q, r, p) ==
  /\ Sequence(p)
  /\ \A op : Out(p, op) <=> Out(q, op) \/ r.op = op
  /\ \A op, a : Wanted(p, op, a) <=> Wanted(q, op, a) \/ (r.op = op /\ r.about = a)
  /\ \A op : Single(q, op) /\ (r.op # op \/ ~Out(q, op)) => Single(p, op)
  /\ \A i \in DOMAIN p : p[i] = r \/ \E j \in DOMAIN q : p[i] = q[j]

LEMMA Sent == ASSUME NEW q, Sequence(q), NEW r PROVE AfterSending(q, r, Append(q, r))
<1> DEFINE p == Append(q, r)
<1>1. PICK n \in DOMAIN p \ DOMAIN q : p[n] = r /\ \A i \in DOMAIN p : i = n \/ i \in DOMAIN q
  BY SentFacts
<1>2. Sequence(p) /\ \A i \in DOMAIN q : i \in DOMAIN p /\ p[i] = q[i]
  BY SentFacts
<1> HIDE DEF p
<1>3. \A op : Out(p, op) <=> Out(q, op) \/ r.op = op
  BY <1>1, <1>2 DEF Out
<1>4. \A op, a : Wanted(p, op, a) <=> Wanted(q, op, a) \/ (r.op = op /\ r.about = a)
  BY <1>1, <1>2 DEF Wanted
<1>5. \A op : Single(q, op) /\ (r.op # op \/ ~Out(q, op)) => Single(p, op)
  BY <1>1, <1>2 DEF Single, Out
<1>6. \A i \in DOMAIN p : p[i] = r \/ \E j \in DOMAIN q : p[i] = q[j]
  BY <1>1, <1>2
<1> QED
  BY <1>2, <1>3, <1>4, <1>5, <1>6 DEF AfterSending, p

LEMMA AnsweredFacts ==
  ASSUME NEW q, Sequence(q), NEW i \in DOMAIN q
  PROVE  LET p == RemoveAt(q, i) IN
         /\ Sequence(p)
         /\ \A j \in DOMAIN p : LET k == IF j < i THEN j ELSE j + 1 IN
              k \in DOMAIN q /\ k # i /\ p[j] = q[k]
         /\ \A k \in DOMAIN q : k # i => LET j == IF k < i THEN k ELSE k - 1 IN
              j \in DOMAIN p /\ p[j] = q[k]
         /\ DOMAIN q \subseteq Nat /\ DOMAIN p \subseteq Nat
<1> DEFINE p == RemoveAt(q, i)
           S == {q[j] : j \in DOMAIN q}
           n == Len(q)
<1>1. q \in Seq(S) /\ n \in Nat /\ DOMAIN q = 1 .. n /\ i \in 1 .. n
  BY DEF Sequence
<1> DEFINE a == SubSeq(q, 1, i - 1)
           b == SubSeq(q, i + 1, n)
<1>2. a \in Seq(S) /\ Len(a) = i - 1 /\ \A j \in 1 .. i - 1 : a[j] = q[j]
  BY <1>1
<1>3. b \in Seq(S) /\ Len(b) = n - i /\ \A j \in 1 .. n - i : b[j] = q[j + i]
  <2>1. i + 1 \in Int /\ n \in Int /\ \A j \in i + 1 .. n : q[j] \in S
    BY <1>1
  <2>2. /\ b \in Seq(S) /\ Len(b) = IF i + 1 <= n THEN n - (i + 1) + 1 ELSE 0
        /\ \A j \in 1 .. n - (i + 1) + 1 : b[j] = q[(i + 1) + j - 1]
    <3> HIDE DEF n, S
    <3> QED
      BY <2>1, SubSeqProperties
  <2> HIDE DEF b, S
  <2>3. n - (i + 1) + 1 = n - i /\ \A j \in 1 .. n - i : (i + 1) + j - 1 = j + i
    BY <1>1
  <2> QED
    BY <1>1, <2>2, <2>3
<1> HIDE DEF a, b
<1>4. p = a \o b
  BY DEF RemoveAt, a, b
<1> HIDE DEF p
<1>5. /\ p \in Seq(S) /\ Len(p) = (i - 1) + (n - i)
      /\ \A j \in 1 .. (i - 1) + (n - i) : p[j] = IF j <= i - 1 THEN a[j] ELSE b[j - (i - 1)]
  <2> HIDE DEF n, S
  <2>1. /\ a \o b \in Seq(S) /\ Len(a \o b) = Len(a) + Len(b)
        /\ \A j \in 1 .. Len(a) + Len(b) :
             (a \o b)[j] = IF j <= Len(a) THEN a[j] ELSE b[j - Len(a)]
    <3>1. a \in Seq(S) /\ b \in Seq(S)
      BY <1>2, <1>3
    <3> QED
      BY <3>1, ConcatProperties
  <2>2. Len(a) = i - 1 /\ Len(b) = n - i
    BY <1>2, <1>3
  <2> QED
    BY <1>4, <2>1, <2>2
<1> HIDE DEF n, S
<1>6. Len(p) = n - 1 /\ DOMAIN p = 1 .. n - 1
      /\ \A j \in 1 .. n - 1 : p[j] = IF j < i THEN a[j] ELSE b[j - (i - 1)]
  BY <1>1, <1>5
<1>7. \A j \in 1 .. n - 1 : p[j] = IF j < i THEN q[j] ELSE q[j + 1]
  <2> TAKE j \in 1 .. n - 1
  <2>1. CASE j < i
    BY <1>1, <1>2, <1>6, <2>1
  <2>2. CASE ~(j < i)
    <3>1. j - (i - 1) \in 1 .. n - i /\ j - (i - 1) + i = j + 1
      BY <1>1, <2>2
    <3> QED
      BY <1>3, <1>6, <2>2, <3>1
  <2> QED
    BY <2>1, <2>2
<1>8. \A j \in DOMAIN p : LET k == IF j < i THEN j ELSE j + 1 IN
        k \in DOMAIN q /\ k # i /\ p[j] = q[k]
  BY <1>1, <1>6, <1>7
<1>9. \A k \in DOMAIN q : k # i => LET j == IF k < i THEN k ELSE k - 1 IN
        j \in DOMAIN p /\ p[j] = q[k]
  BY <1>1, <1>6, <1>7
<1>10. Sequence(p)
  <2>1. p \in [DOMAIN p -> {p[j] : j \in DOMAIN p}] /\ Len(p) \in Nat /\ DOMAIN p = 1 .. Len(p)
    BY <1>5, LenProperties
  <2> QED
    BY <2>1, SeqDef DEF Sequence
<1> QED
  BY <1>1, <1>6, <1>8, <1>9, <1>10 DEF p, n

AfterAnswer(q, i, p) ==
  /\ Sequence(p)
  /\ \A op : Out(q, op) /\ q[i].op # op => Out(p, op)
  /\ \A op : Out(p, op) => Out(q, op)
  /\ \A op, a : Wanted(q, op, a) /\ (q[i].op # op \/ q[i].about # a) => Wanted(p, op, a)
  /\ \A op : Single(q, op) => Single(p, op)
  /\ \A op : Single(q, op) /\ q[i].op = op => ~Out(p, op)
  /\ \A j \in DOMAIN p : \E k \in DOMAIN q : k # i /\ p[j] = q[k]

LEMMA TakenOut ==
  ASSUME NEW q, Sequence(q), NEW i \in DOMAIN q PROVE AfterAnswer(q, i, RemoveAt(q, i))
<1> DEFINE p == RemoveAt(q, i)
<1>1. /\ Sequence(p)
      /\ \A j \in DOMAIN p : LET k == IF j < i THEN j ELSE j + 1 IN
           k \in DOMAIN q /\ k # i /\ p[j] = q[k]
      /\ \A k \in DOMAIN q : k # i => LET j == IF k < i THEN k ELSE k - 1 IN
           j \in DOMAIN p /\ p[j] = q[k]
      /\ DOMAIN q \subseteq Nat /\ DOMAIN p \subseteq Nat
  BY AnsweredFacts
<1> HIDE DEF p
<1>2. \A j \in DOMAIN p : \E k \in DOMAIN q : k # i /\ p[j] = q[k]
  BY <1>1
<1>3. \A k \in DOMAIN q : k # i => \E j \in DOMAIN p : p[j] = q[k]
  BY <1>1
<1>4. \A op : Out(q, op) /\ q[i].op # op => Out(p, op)
  BY <1>3 DEF Out
<1>5. \A op : Out(p, op) => Out(q, op)
  BY <1>2 DEF Out
<1>6. \A op, a : Wanted(q, op, a) /\ (q[i].op # op \/ q[i].about # a) => Wanted(p, op, a)
  BY <1>3 DEF Wanted
<1>7. ASSUME NEW op, Single(q, op) PROVE Single(p, op)
  BY <1>1, <1>7 DEF Single
<1>8. \A op : Single(q, op) /\ q[i].op = op => ~Out(p, op)
  BY <1>2 DEF Single, Out
<1> QED
  BY <1>1, <1>2, <1>4, <1>5, <1>6, <1>7, <1>8 DEF AfterAnswer, p

-----------------------------------------------------------------------------
(* What is on the screen.                                                   *)

LEMMA SameScreen ==
  ASSUME NEW v, NEW w, w.surface = v.surface, w.shown = v.shown, w.listed = v.listed,
         w.cache = v.cache, w.index = v.index, w.playing = v.playing
  PROVE  OnScreen(w) = OnScreen(v)
BY DEF OnScreen, Media, Rows, DrawerRows, DetailRows, SharedRows, ReadOnly

\* Whether something plays matters on the shared page only.
LEMMA SameTile ==
  ASSUME NEW v, NEW w, v.surface # "shared", w.surface = v.surface, w.shown = v.shown,
         w.listed = v.listed, w.cache = v.cache, w.index = v.index
  PROVE  OnScreen(w) = OnScreen(v)
<1>1. Rows(w) = Rows(v)
  BY DEF Rows, DrawerRows, DetailRows, SharedRows, ReadOnly
<1>2. Media(w) = Media(v)
  BY <1>1 DEF Media
<1> QED
  BY <1>2 DEF OnScreen

LEMMA NothingSelected ==
  ASSUME NEW v, v.surface # "shared", v.index = 0 PROVE OnScreen(v) = None
<1>1. 0 \notin 1 .. Len(Media(v))
  OBVIOUS
<1> QED
  BY <1>1 DEF OnScreen

\* Only what a button waits for, the link and the history of files have changed.
Aside(v, w) ==
  /\ Shaped(w) /\ w.saved[1] = w.saved[2]
  /\ w.surface = v.surface /\ w.shown = v.shown /\ w.listed = v.listed /\ w.cache = v.cache
  /\ w.index = v.index /\ w.playing = v.playing /\ w.loading = v.loading
  /\ w.meant = v.meant /\ w.since = v.since
\* Calls for videos stay as they are.
SamePlays(q, p) ==
  /\ \A a : Wanted(q, "play", a) => Wanted(p, "play", a)
  /\ Single(q, "play") => Single(p, "play")
  /\ \A i \in DOMAIN p : p[i].op = "play" => \E j \in DOMAIN q : q[j].op = "play" /\ p[i].about = q[j].about

LEMMA AsideStep ==
  ASSUME ViewerInv, Aside(viewer, viewer'), SamePlays(requests, requests'),
         Sequence(requests)', Waits(viewer, requests)', OneLink(viewer, requests)', LinkHere(viewer, requests)'
  PROVE  ViewerInv'
<1>1. Shaped(viewer) /\ Plays(viewer, requests) /\ OneVideo(viewer, requests) /\ Clicked(viewer)
  BY DEF ViewerInv, Settling
<1>3. OnScreen(viewer') = OnScreen(viewer)
  BY SameScreen DEF Aside
<1>4. Plays(viewer, requests)'
  BY <1>1, <1>3 DEF Plays, Aside, SamePlays
<1>5. OneVideo(viewer, requests)'
  BY <1>1 DEF OneVideo, Aside, SamePlays
<1>6. Clicked(viewer)'
  BY <1>1, <1>3 DEF Clicked, Aside
<1> QED
  BY <1>4, <1>5, <1>6 DEF ViewerInv, Settling, Aside

-----------------------------------------------------------------------------
(* Buttons.                                                                 *)

LEMMA PressStep ==
  ASSUME ViewerInv, NEW op \in Buttons, NEW a, Press(op, a),
         op = "link" => viewer.link = None /\ viewer.shown # None
  PROVE  ViewerInv'
<1> DEFINE r == Req(op, a)
           busy == viewer.busy \union {op}
<1>1. /\ requests' = Append(requests, r) /\ op \notin viewer.busy
      /\ viewer' = [viewer EXCEPT !.busy = busy]
  BY DEF Press, Send
<1>2. r.op = op /\ r.about = a /\ r.service = viewer.shown
  BY DEF Req
<1>i. /\ Sequence(requests) /\ Shaped(viewer) /\ Waits(viewer, requests) /\ OneLink(viewer, requests)
      /\ LinkHere(viewer, requests) /\ viewer.saved[1] = viewer.saved[2]
  BY DEF ViewerInv, Settling
<1> HIDE DEF r
<1>s. AfterSending(requests, r, requests')
  BY <1>1, <1>i, Sent
<1>3. /\ Sequence(requests')
      /\ \A o : Out(requests', o) <=> Out(requests, o) \/ o = op
      /\ \A o, b : Wanted(requests', o, b) <=> Wanted(requests, o, b) \/ (o = op /\ b = a)
      /\ \A o : Single(requests, o) /\ (o # op \/ ~Out(requests, o)) => Single(requests', o)
      /\ \A i \in DOMAIN requests' : requests'[i] = r \/ \E j \in DOMAIN requests : requests'[i] = requests[j]
  BY <1>2, <1>s DEF AfterSending
<1>4. Aside(viewer, viewer') /\ viewer'.busy = busy /\ viewer'.link = viewer.link /\ viewer'.astray = viewer.astray
  <2>1. viewer' = [viewer EXCEPT !.busy = busy, !.link = viewer.link, !.astray = viewer.astray,
                                 !.saved = viewer.saved]
    BY <1>1, <1>i DEF Shaped
  <2> HIDE DEF busy
  <2> QED
    BY <1>i, <2>1 DEF Shaped, Aside
<1>5. Waits(viewer, requests)'
  BY <1>3, <1>4, <1>i DEF Waits, Aside, Buttons
<1>6. OneLink(viewer, requests)'
  BY <1>1, <1>3, <1>4, <1>i DEF OneLink
<1>7. LinkHere(viewer, requests)'
  BY <1>2, <1>3, <1>4, <1>i DEF LinkHere, Out, Aside
<1>8. SamePlays(requests, requests')
  BY <1>2, <1>3 DEF SamePlays, Buttons
<1> QED
  BY <1>3, <1>4, <1>5, <1>6, <1>7, <1>8, AsideStep

\* A file is fetched of what is on the screen only.
LEMMA SaveStep == ASSUME ViewerInv, SaveCurrent PROVE ViewerInv'
<1> DEFINE a == OnScreen(viewer)
           saved == <<a, IF Video(a) THEN viewer.playing ELSE a>>
<1>i. Shaped(viewer)
  BY DEF ViewerInv, Settling
<1>1. viewer' = [viewer EXCEPT !.saved = saved] /\ requests' = requests /\ "save" \in Offered(viewer)
  BY DEF SaveCurrent, Look
<1>2. Video(a) => viewer.playing = a
  <2>1. CASE viewer.surface \in {"drawer", "trash"}
    BY <1>1, <2>1 DEF Offered, DrawerLightbox
  <2>2. CASE viewer.surface = "detail"
    BY <1>1, <2>2 DEF Offered, DetailLightbox, Photo, Video
  <2>3. CASE viewer.surface = "shared"
    BY <1>1, <2>3 DEF OnScreen
  <2> QED
    BY <1>i, <2>1, <2>2, <2>3 DEF Shaped, Surfaces
<1>3. saved[1] = saved[2]
  BY <1>2
<1> HIDE DEF saved
<1>4. /\ Aside(viewer, viewer') /\ viewer'.busy = viewer.busy /\ viewer'.link = viewer.link
      /\ viewer'.astray = viewer.astray
  <2>1. viewer' = [viewer EXCEPT !.busy = viewer.busy, !.link = viewer.link, !.astray = viewer.astray,
                                 !.saved = saved]
    BY <1>1, <1>i DEF Shaped
  <2> QED
    BY <1>3, <1>i, <2>1 DEF Shaped, Aside
<1>5. Sequence(requests)' /\ Waits(viewer, requests)' /\ OneLink(viewer, requests)' /\ LinkHere(viewer, requests)'
      /\ SamePlays(requests, requests')
  BY <1>1, <1>4 DEF ViewerInv, Settling, Waits, OneLink, LinkHere, Aside, SamePlays
<1> QED
  BY <1>4, <1>5, AsideStep

LEMMA CloseLinkStep == ASSUME ViewerInv, CloseLink PROVE ViewerInv'
<1>i. Shaped(viewer) /\ viewer.saved[1] = viewer.saved[2] /\ OneLink(viewer, requests)
  BY DEF ViewerInv, Settling
<1>1. /\ viewer' = [viewer EXCEPT !.link = None, !.astray = FALSE] /\ requests' = requests
      /\ viewer.link # None
  BY DEF CloseLink, Look
<1>2. ~Out(requests, "link")
  BY <1>1, <1>i DEF OneLink
<1>4. Aside(viewer, viewer') /\ viewer'.busy = viewer.busy /\ viewer'.link = None /\ viewer'.astray = FALSE
  <2>1. viewer' = [viewer EXCEPT !.busy = viewer.busy, !.link = None, !.astray = FALSE, !.saved = viewer.saved]
    BY <1>1, <1>i DEF Shaped
  <2> QED
    BY <1>i, <2>1 DEF Shaped, Aside
<1>5. Sequence(requests)' /\ Waits(viewer, requests)' /\ OneLink(viewer, requests)' /\ SamePlays(requests, requests')
  BY <1>1, <1>2, <1>4 DEF ViewerInv, Settling, Waits, OneLink, Aside, SamePlays
<1>6. LinkHere(viewer, requests)'
  BY <1>1, <1>2, <1>4 DEF LinkHere, Out, Aside
<1> QED
  BY <1>4, <1>5, <1>6, AsideStep

-----------------------------------------------------------------------------
(* Answers other than those of a video.                                     *)

\* The call i is answered: its button can be clicked again, if it had one.
LEMMA AnsweredStep ==
  ASSUME ViewerInv, NEW i \in DOMAIN requests, requests[i].op # "play", Answered(i),
         NEW link, NEW saved, saved[1] = saved[2],
         viewer' = [viewer EXCEPT !.busy = @ \ {requests[i].op}, !.link = link, !.saved = saved],
         link = viewer.link \/ (requests[i].op = "link" /\ link = requests[i].service)
  PROVE  ViewerInv'
<1> DEFINE op == requests[i].op
<1>i. /\ Sequence(requests) /\ Shaped(viewer) /\ Waits(viewer, requests) /\ OneLink(viewer, requests)
      /\ LinkHere(viewer, requests)
  BY DEF ViewerInv, Settling
<1>1. requests' = RemoveAt(requests, i)
  BY DEF Answered
<1>2. AfterAnswer(requests, i, requests')
  BY <1>1, <1>i, TakenOut
<1>4. /\ Aside(viewer, viewer') /\ viewer'.busy = viewer.busy \ {op} /\ viewer'.link = link
      /\ viewer'.astray = viewer.astray
  <2>1. PICK busy : busy = viewer.busy \ {op}
    OBVIOUS
  <2>2. viewer' = [viewer EXCEPT !.busy = busy, !.link = link, !.astray = viewer.astray, !.saved = saved]
    BY <1>i, <2>1 DEF Shaped
  <2> QED
    BY <1>i, <2>1, <2>2 DEF Shaped, Aside
<1>5. Waits(viewer, requests)'
  BY <1>2, <1>4, <1>i DEF Waits, Aside, Buttons, AfterAnswer
<1>6. OneLink(viewer, requests)'
  <2>1. Single(requests', "link")
    BY <1>2, <1>i DEF OneLink, AfterAnswer
  <2>2. ASSUME Out(requests', "link") PROVE op # "link" /\ Out(requests, "link")
    BY <1>2, <1>i, <2>2 DEF OneLink, AfterAnswer
  <2>3. Out(requests', "link") => "link" \in viewer'.busy /\ viewer'.link = None
    BY <1>4, <1>i, <2>2 DEF OneLink
  <2> QED
    BY <2>1, <2>3 DEF OneLink
<1>7. LinkHere(viewer, requests)'
  <2>1. op = "link" => Out(requests, "link") /\ ~Out(requests', "link")
    BY <1>2, <1>i DEF OneLink, Out, AfterAnswer
  <2>2. \A j \in DOMAIN requests' : requests'[j].op = "link" => Out(requests', "link")
    BY DEF Out
  <2> QED
    BY <1>2, <1>4, <1>i, <2>1, <2>2 DEF LinkHere, Aside, AfterAnswer
<1>8. SamePlays(requests, requests')
  BY <1>2 DEF SamePlays, AfterAnswer
<1> QED
  BY <1>2, <1>4, <1>5, <1>6, <1>7, <1>8, AsideStep DEF AfterAnswer

-----------------------------------------------------------------------------
(* The lightbox.                                                            *)

\* A click on a tile, an arrow or the cross shows what was clicked, and asks for it
\* when it is a video.
LEMMA IndexStep ==
  ASSUME ViewerInv, viewer.surface # "shared", NEW i, Index(i) PROVE ViewerInv'
<1> DEFINE v == [viewer EXCEPT !.index = i, !.since = {}]
<1>i. /\ Sequence(requests) /\ Shaped(viewer) /\ Waits(viewer, requests) /\ OneLink(viewer, requests)
      /\ LinkHere(viewer, requests) /\ viewer.saved[1] = viewer.saved[2]
  BY DEF ViewerInv, Settling
<1>v. /\ v.surface = viewer.surface /\ v.shown = viewer.shown /\ v.listed = viewer.listed
      /\ v.cache = viewer.cache /\ v.index = i /\ v.playing = viewer.playing /\ v.since = {}
      /\ v.loading = viewer.loading /\ v.busy = viewer.busy /\ v.link = viewer.link
      /\ v.astray = viewer.astray /\ v.saved = viewer.saved /\ Shaped(v)
  <2>1. /\ v.surface = viewer.surface /\ v.shown = viewer.shown /\ v.listed = viewer.listed
        /\ v.cache = viewer.cache /\ v.index = i /\ v.playing = viewer.playing /\ v.since = {}
    BY <1>i DEF Shaped
  <2>2. /\ v.loading = viewer.loading /\ v.busy = viewer.busy /\ v.link = viewer.link
        /\ v.astray = viewer.astray /\ v.saved = viewer.saved
    BY <1>i DEF Shaped
  <2>3. Shaped(v)
    <3> DEFINE u == [viewer EXCEPT !.index = i]
    <3>1. Shaped(u)
      BY <1>i DEF Shaped
    <3> HIDE DEF u
    <3>2. Shaped([u EXCEPT !.since = {}])
      BY <3>1 DEF Shaped
    <3> QED
      BY <3>2 DEF u
  <2> QED
    BY <2>1, <2>2, <2>3
<1>o. PICK m : m = OnScreen(v)
  OBVIOUS
<1> DEFINE w == [v EXCEPT !.meant = m]
           e == IF viewer.surface = "detail" THEN DetailEffect(w) ELSE DrawerEffect(w)
<1>w. /\ w.surface = viewer.surface /\ w.shown = viewer.shown /\ w.listed = viewer.listed /\ w.meant = m
      /\ w.cache = viewer.cache /\ w.index = i /\ w.since = {} /\ w.loading = viewer.loading
      /\ w.busy = viewer.busy /\ w.link = viewer.link /\ w.astray = viewer.astray /\ w.saved = viewer.saved
      /\ w.playing = viewer.playing /\ Shaped(w)
  <2> HIDE DEF v
  <2> QED
    BY <1>v DEF Shaped
<1>1. \/ Video(m) /\ Send(e, Req("play", m))
      \/ ~Video(m) /\ Look(DrawerEffect(w))
  BY <1>o DEF Index
<1>m. OnScreen(w) = m
  <2> HIDE DEF v, w
  <2> QED
    BY <1>o, <1>v, <1>w, SameScreen
<1> HIDE DEF v, w
<1>e. \/ e = [w EXCEPT !.playing = None]
      \/ e = [w EXCEPT !.playing = None, !.loading = m]
  BY <1>m DEF DetailEffect, DrawerEffect
<1>2. \/ viewer' = [w EXCEPT !.playing = None]
      \/ viewer' = [w EXCEPT !.playing = None, !.loading = m] /\ Video(m)
  BY <1>1, <1>e, <1>m DEF Send, Look, DrawerEffect
<1>3. \/ Video(m) /\ AfterSending(requests, Req("play", m), requests')
      \/ ~Video(m) /\ requests' = requests
  BY <1>1, <1>i, Sent DEF Send, Look
<1>4. Req("play", m).op = "play" /\ Req("play", m).about = m
  BY DEF Req
<1>5. /\ viewer'.surface = w.surface /\ viewer'.shown = w.shown /\ viewer'.listed = w.listed
      /\ viewer'.cache = w.cache /\ viewer'.index = w.index /\ viewer'.meant = m
      /\ viewer'.busy = w.busy /\ viewer'.link = w.link /\ viewer'.astray = w.astray
      /\ viewer'.saved = w.saved /\ viewer'.playing = None /\ Shaped(viewer')
      /\ (viewer'.loading = w.loading \/ (viewer'.loading = m /\ Video(m)))
  BY <1>2, <1>w DEF Shaped
<1>6. OnScreen(viewer') = m
  BY <1>5, <1>m, <1>w, SameTile
<1>7. Sequence(requests')
  BY <1>3, <1>i DEF AfterSending
<1>8. Waits(viewer, requests)'
  BY <1>3, <1>4, <1>5, <1>w, <1>i DEF Waits, AfterSending
<1>9. Plays(viewer, requests)'
  BY <1>3, <1>4, <1>6 DEF Plays, AfterSending
<1>10. OneLink(viewer, requests)'
  BY <1>3, <1>4, <1>5, <1>w, <1>i DEF OneLink, AfterSending
<1>11. LinkHere(viewer, requests)'
  BY <1>3, <1>4, <1>5, <1>w, <1>i DEF LinkHere, AfterSending
<1>12. OneVideo(viewer, requests)' /\ Clicked(viewer)'
  BY <1>5, <1>6, <1>w DEF OneVideo, Clicked
<1> QED
  BY <1>5, <1>7, <1>8, <1>9, <1>10, <1>11, <1>12, <1>w, <1>i DEF ViewerInv, Settling

\* The shared page has one video, which is closed before the next is asked for.
LEMMA SharedStep ==
  ASSUME ViewerInv, viewer.surface = "shared",
         (CloseLightbox /\ requests' = requests) \/ \E a \in DOMAIN KindOf : PlayShared(a)
  PROVE  ViewerInv'
<1>i. /\ Sequence(requests) /\ Shaped(viewer) /\ Waits(viewer, requests) /\ OneLink(viewer, requests)
      /\ LinkHere(viewer, requests) /\ OneVideo(viewer, requests) /\ viewer.saved[1] = viewer.saved[2]
  BY DEF ViewerInv, Settling
<1>1. CASE CloseLightbox /\ requests' = requests
  <2>1. viewer' = [viewer EXCEPT !.playing = None]
    BY <1>1 DEF CloseLightbox, Look
  <2>2. /\ viewer'.surface = viewer.surface /\ viewer'.shown = viewer.shown /\ viewer'.meant = viewer.meant
        /\ viewer'.busy = viewer.busy /\ viewer'.link = viewer.link /\ viewer'.astray = viewer.astray
        /\ viewer'.saved = viewer.saved /\ viewer'.playing = None /\ viewer'.loading = viewer.loading
        /\ Shaped(viewer')
    BY <2>1, <1>i DEF Shaped
  <2>3. OnScreen(viewer') = None
    BY <2>2 DEF OnScreen
  <2> QED
    BY <1>1, <1>i, <2>2, <2>3
       DEF ViewerInv, Settling, Waits, Plays, OneLink, LinkHere, OneVideo, Clicked, Video
<1>2. ASSUME NEW a \in DOMAIN KindOf, PlayShared(a) PROVE ViewerInv'
  <2>1. /\ viewer' = [viewer EXCEPT !.loading = a, !.meant = a] /\ viewer.playing = None
        /\ viewer.loading = None /\ requests' = Append(requests, Req("play", a)) /\ a # None
    BY <1>2 DEF PlayShared, Send, SharedGrid, Video
  <2>2. AfterSending(requests, Req("play", a), requests')
    BY <1>i, <2>1, Sent
  <2>3. Req("play", a).op = "play" /\ Req("play", a).about = a
    BY DEF Req
  <2>4. /\ viewer'.surface = viewer.surface /\ viewer'.shown = viewer.shown /\ viewer'.meant = a
        /\ viewer'.busy = viewer.busy /\ viewer'.link = viewer.link /\ viewer'.astray = viewer.astray
        /\ viewer'.saved = viewer.saved /\ viewer'.playing = None /\ viewer'.loading = a
        /\ Shaped(viewer')
    BY <2>1, <1>i DEF Shaped
  <2>5. OnScreen(viewer') = None
    BY <2>4 DEF OnScreen
  <2>6. ~Out(requests, "play")
    BY <1>i, <2>1 DEF OneVideo, Out
  <2>7. Waits(viewer, requests)' /\ OneLink(viewer, requests)'
    BY <1>i, <2>2, <2>3, <2>4 DEF Waits, OneLink, AfterSending
  <2>8. LinkHere(viewer, requests)'
    BY <1>i, <2>2, <2>3, <2>4 DEF LinkHere, AfterSending
  <2>9. OneVideo(viewer, requests)'
    BY <1>i, <2>1, <2>2, <2>3, <2>4, <2>6 DEF OneVideo, AfterSending, Out
  <2> QED
    BY <1>i, <2>2, <2>4, <2>5, <2>7, <2>8, <2>9
       DEF ViewerInv, Settling, AfterSending, Plays, Clicked, Video
<1> QED
  BY <1>1, <1>2

-----------------------------------------------------------------------------
(* Answers that change what is on the screen.                               *)

\* The query of a service may take rows from under the lightbox.
LEMMA DetailStep ==
  ASSUME ViewerInv, NEW i \in DOMAIN requests, DetailArrives(i) PROVE ViewerInv'
<1>i. /\ Sequence(requests) /\ Shaped(viewer) /\ Waits(viewer, requests) /\ OneLink(viewer, requests)
      /\ LinkHere(viewer, requests) /\ OneVideo(viewer, requests) /\ viewer.saved[1] = viewer.saved[2]
      /\ Plays(viewer, requests) /\ Clicked(viewer)
  BY DEF ViewerInv, Settling
<1>1. PICK rows : LET v == [viewer EXCEPT !.cache[requests[i].service] = rows] IN
        Told([v EXCEPT !.since = IF OnScreen(v) # OnScreen(viewer) THEN @ \union {"shifted"} ELSE @], i)
  BY DEF DetailArrives
<1> DEFINE v == [viewer EXCEPT !.cache[requests[i].service] = rows]
           since == IF OnScreen(v) # OnScreen(viewer) THEN viewer.since \union {"shifted"} ELSE viewer.since
<1>2. /\ v.surface = viewer.surface /\ v.shown = viewer.shown /\ v.listed = viewer.listed
      /\ v.index = viewer.index /\ v.playing = viewer.playing /\ v.loading = viewer.loading
      /\ v.meant = viewer.meant /\ v.busy = viewer.busy /\ v.link = viewer.link /\ v.astray = viewer.astray
      /\ v.saved = viewer.saved /\ v.since = viewer.since /\ Shaped(v)
  BY <1>i DEF Shaped
<1>3. viewer' = [v EXCEPT !.since = since] /\ requests' = RemoveAt(requests, i)
  BY <1>1, <1>2 DEF Told, Answered
<1> HIDE DEF v, since
<1>4. /\ viewer'.surface = v.surface /\ viewer'.shown = v.shown /\ viewer'.listed = v.listed
      /\ viewer'.cache = v.cache
      /\ viewer'.index = v.index /\ viewer'.playing = v.playing /\ viewer'.loading = v.loading
      /\ viewer'.meant = v.meant /\ viewer'.busy = v.busy /\ viewer'.link = v.link
      /\ viewer'.astray = v.astray /\ viewer'.saved = v.saved /\ viewer'.since = since /\ Shaped(viewer')
  BY <1>2, <1>3 DEF Shaped
<1>5. OnScreen(viewer') = OnScreen(v)
  BY <1>4, SameScreen
<1>6. /\ viewer.since \subseteq since
      /\ OnScreen(v) = OnScreen(viewer) \/ "shifted" \in since
  BY DEF since
<1>7. AfterAnswer(requests, i, requests') /\ requests[i].op = "detail"
  BY <1>3, <1>i, TakenOut DEF DetailArrives
<1>8. Sequence(requests') /\ Waits(viewer, requests)' /\ OneLink(viewer, requests)'
  <2>1. Sequence(requests') /\ OneLink(viewer, requests)'
    BY <1>i, <1>2, <1>4, <1>7 DEF OneLink, AfterAnswer
  <2>2. Waits(viewer, requests)'
    BY <1>i, <1>2, <1>4, <1>7 DEF Waits, Buttons, AfterAnswer
  <2> QED
    BY <2>1, <2>2
<1>9. LinkHere(viewer, requests)'
  BY <1>i, <1>2, <1>4, <1>7 DEF LinkHere, AfterAnswer
<1>10. OneVideo(viewer, requests)'
  BY <1>i, <1>2, <1>4, <1>7 DEF OneVideo, AfterAnswer
<1>11. Plays(viewer, requests)'
  BY <1>i, <1>2, <1>4, <1>5, <1>6, <1>7 DEF Plays, AfterAnswer
<1>12. Clicked(viewer)'
  BY <1>i, <1>2, <1>4, <1>5, <1>6 DEF Clicked
<1> QED
  BY <1>i, <1>2, <1>4, <1>8, <1>9, <1>10, <1>11, <1>12 DEF ViewerInv, Settling

\* The answer for a video, or its failure: the video that waits for its own call
\* keeps it.
LEMMA PlaybackStep ==
  ASSUME ViewerInv, NEW i \in DOMAIN requests, PlaybackArrives(i) \/ PlaybackFails(i) PROVE ViewerInv'
<1> DEFINE a == requests[i].about
           loading == IF viewer.loading = a \/ viewer.surface = "shared" THEN None ELSE viewer.loading
<1>i. /\ Sequence(requests) /\ Shaped(viewer) /\ Waits(viewer, requests) /\ OneLink(viewer, requests)
      /\ LinkHere(viewer, requests) /\ OneVideo(viewer, requests) /\ viewer.saved[1] = viewer.saved[2]
      /\ Plays(viewer, requests) /\ Clicked(viewer)
  BY DEF ViewerInv, Settling
<1>1. PICK playing, since :
        /\ viewer' = [viewer EXCEPT !.playing = playing, !.loading = loading, !.since = since]
        /\ requests' = RemoveAt(requests, i) /\ requests[i].op = "play"
        /\ viewer.since \subseteq since
        /\ \/ /\ playing = a
              /\ viewer.surface # "shared" /\ viewer.playing # None /\ viewer.playing = OnScreen(viewer)
                   /\ a # viewer.playing => since # {}
           \/ /\ playing = viewer.playing
              /\ OnScreen(viewer) = a => since # {}
  <2>1. CASE PlaybackArrives(i)
    <3> DEFINE since == IF viewer.surface # "shared" /\ viewer.playing # None /\ viewer.playing = OnScreen(viewer)
                             /\ a # viewer.playing THEN viewer.since \union {"overtaken"} ELSE viewer.since
    <3>1. /\ viewer' = [viewer EXCEPT !.playing = a, !.loading = loading, !.since = since]
          /\ requests' = RemoveAt(requests, i) /\ requests[i].op = "play"
      BY <1>i, <2>1 DEF PlaybackArrives, Told, Answered, Shaped
    <3> QED
      BY <3>1
  <2>2. CASE PlaybackFails(i)
    <3> DEFINE since == IF OnScreen(viewer) = a THEN viewer.since \union {"failed"} ELSE viewer.since
    <3>1. /\ viewer' = [viewer EXCEPT !.playing = viewer.playing, !.loading = loading, !.since = since]
          /\ requests' = RemoveAt(requests, i) /\ requests[i].op = "play"
      BY <1>i, <2>2 DEF PlaybackFails, Told, Answered, Shaped
    <3> QED
      BY <3>1
  <2> QED
    BY <2>1, <2>2
<1>2. /\ viewer'.surface = viewer.surface /\ viewer'.shown = viewer.shown /\ viewer'.listed = viewer.listed
      /\ viewer'.cache = viewer.cache
      /\ viewer'.index = viewer.index /\ viewer'.playing = playing /\ viewer'.loading = loading
      /\ viewer'.meant = viewer.meant /\ viewer'.busy = viewer.busy /\ viewer'.link = viewer.link
      /\ viewer'.astray = viewer.astray /\ viewer'.saved = viewer.saved /\ viewer'.since = since
      /\ Shaped(viewer')
  <2> HIDE DEF loading
  <2> QED
    BY <1>1, <1>i DEF Shaped
<1>3. AfterAnswer(requests, i, requests')
  BY <1>1, <1>i, TakenOut
<1>4. Sequence(requests') /\ Waits(viewer, requests)' /\ OneLink(viewer, requests)'
  <2>1. Sequence(requests') /\ OneLink(viewer, requests)'
    BY <1>1, <1>i, <1>2, <1>3 DEF OneLink, AfterAnswer
  <2>2. \A op \in viewer'.busy : op \in Buttons /\ Out(requests', op)
    BY <1>1, <1>i, <1>2, <1>3 DEF Waits, Buttons, AfterAnswer, Out
  <2>3. viewer'.loading # None => Wanted(requests', "play", viewer'.loading)
    BY <1>1, <1>i, <1>2, <1>3 DEF Waits, Buttons, AfterAnswer
  <2> QED
    BY <2>1, <2>2, <2>3 DEF Waits
<1>5. LinkHere(viewer, requests)'
  BY <1>1, <1>i, <1>2, <1>3 DEF LinkHere, AfterAnswer
<1>6. CASE viewer.surface = "shared"
  <2>1. OnScreen(viewer') = playing
    BY <1>2, <1>6 DEF OnScreen
  <2>2. playing # None => playing = viewer.meant
    BY <1>1, <1>6, <1>i DEF OneVideo
  <2>3. ~Out(requests', "play")
    BY <1>1, <1>3, <1>6, <1>i DEF OneVideo, AfterAnswer
  <2>4. OneVideo(viewer, requests)'
    BY <1>2, <2>2, <2>3 DEF OneVideo, Out, Single
  <2>5. Plays(viewer, requests)' /\ Clicked(viewer)'
    BY <1>2, <2>1, <2>2 DEF Plays, Clicked
  <2> QED
    BY <1>2, <1>4, <1>5, <1>i, <2>4, <2>5 DEF ViewerInv, Settling
<1>7. CASE viewer.surface # "shared"
  <2>1. OnScreen(viewer') = OnScreen(viewer)
    BY <1>2, <1>7, SameTile
  <2>2. Plays(viewer, requests)'
    BY <1>1, <1>2, <1>3, <1>7, <1>i, <2>1 DEF Plays, AfterAnswer, Video
  <2>3. Clicked(viewer)'
    BY <1>1, <1>2, <1>i, <2>1 DEF Clicked
  <2>4. OneVideo(viewer, requests)'
    BY <1>2, <1>7 DEF OneVideo
  <2> QED
    BY <1>2, <1>4, <1>5, <1>i, <2>2, <2>3, <2>4 DEF ViewerInv, Settling
<1> QED
  BY <1>6, <1>7

-----------------------------------------------------------------------------
(* The drawer and the page of a service.                                    *)

LEMMA OpenServiceStep == ASSUME ViewerInv, NEW s, OpenService(s) PROVE ViewerInv'
<1>i. /\ Sequence(requests) /\ Shaped(viewer) /\ Waits(viewer, requests) /\ OneLink(viewer, requests)
      /\ LinkHere(viewer, requests) /\ OneVideo(viewer, requests) /\ viewer.saved[1] = viewer.saved[2]
  BY DEF ViewerInv, Settling
<1>1. PICK listed, since :
        /\ viewer' = [viewer EXCEPT !.shown = s, !.listed = listed, !.since = since]
        /\ requests' = requests /\ viewer.shown = None
        /\ viewer.index # 0 => "reopened" \in since
  BY DEF OpenService, Look
<1>2. /\ viewer'.surface = viewer.surface /\ viewer'.shown = s
      /\ viewer'.index = viewer.index /\ viewer'.playing = viewer.playing /\ viewer'.since = since
      /\ viewer'.loading = viewer.loading /\ viewer'.meant = viewer.meant /\ viewer'.busy = viewer.busy
      /\ viewer'.link = viewer.link /\ viewer'.astray = viewer.astray /\ viewer'.saved = viewer.saved
      /\ Shaped(viewer')
  <2> DEFINE u == [viewer EXCEPT !.shown = s]
             w == [u EXCEPT !.listed = listed]
  <2>1. /\ u.surface = viewer.surface /\ u.shown = s
        /\ u.index = viewer.index /\ u.playing = viewer.playing
        /\ u.loading = viewer.loading /\ u.meant = viewer.meant /\ u.busy = viewer.busy
        /\ u.link = viewer.link /\ u.astray = viewer.astray /\ u.saved = viewer.saved
        /\ Shaped(u)
    BY <1>i DEF Shaped
  <2> HIDE DEF u
  <2>2. /\ w.surface = viewer.surface /\ w.shown = s
        /\ w.index = viewer.index /\ w.playing = viewer.playing
        /\ w.loading = viewer.loading /\ w.meant = viewer.meant /\ w.busy = viewer.busy
        /\ w.link = viewer.link /\ w.astray = viewer.astray /\ w.saved = viewer.saved
        /\ Shaped(w)
    BY <2>1 DEF Shaped
  <2>3. viewer' = [w EXCEPT !.since = since]
    BY <1>1 DEF u
  <2> HIDE DEF w
  <2> QED
    BY <2>2, <2>3 DEF Shaped
<1>3. viewer'.surface # "shared" /\ OnScreen(viewer') # None => "reopened" \in viewer'.since
  BY <1>1, <1>2, NothingSelected
<1>4. viewer'.surface = "shared" => OnScreen(viewer') = viewer'.playing
  BY DEF OnScreen
<1>5. Sequence(requests') /\ Waits(viewer, requests)' /\ OneLink(viewer, requests)' /\ OneVideo(viewer, requests)'
  BY <1>1, <1>2, <1>i DEF Waits, OneLink, OneVideo
<1>6. LinkHere(viewer, requests)'
  BY <1>1, <1>2, <1>i DEF LinkHere, Out
<1>7. Plays(viewer, requests)'
  BY <1>3, <1>4 DEF Plays, Video
<1>8. Clicked(viewer)'
  BY <1>2, <1>3, <1>4, <1>i DEF Clicked, OneVideo
<1> QED
  BY <1>2, <1>5, <1>6, <1>7, <1>8, <1>i DEF ViewerInv, Settling

\* What is unmounted waits for nothing.
LEMMA FreshSettles ==
  ASSUME NEW surface \in Surfaces, NEW shown, NEW kept, NEW q, Sequence(q),
         \A i \in DOMAIN q : q[i].op = "detail"
  PROVE  Settling(FreshViewer(surface, shown, kept), q)
<1> DEFINE v == FreshViewer(surface, shown, kept)
<1>1. /\ v.surface = surface /\ v.shown = shown /\ v.index = 0 /\ v.playing = None /\ v.loading = None
      /\ v.link = None /\ v.busy = {} /\ v.since = {} /\ v.saved = <<None, None>> /\ Shaped(v)
  BY DEF FreshViewer, Shaped
<1> HIDE DEF v
<1>2. OnScreen(v) = None
  BY <1>1, NothingSelected DEF OnScreen
<1>3. ~Out(q, "link") /\ ~Out(q, "play")
  BY DEF Out
<1>4. Waits(v, q) /\ Plays(v, q) /\ Clicked(v)
  BY <1>1, <1>2 DEF Waits, Plays, Clicked, Video
<1>5. OneLink(v, q) /\ LinkHere(v, q) /\ OneVideo(v, q)
  BY <1>1, <1>3 DEF OneLink, LinkHere, OneVideo, Out, Single
<1> QED
  BY <1>1, <1>4, <1>5 DEF Settling, v

LEMMA CloseStep == ASSUME ViewerInv, Close PROVE ViewerInv'
<1>i. /\ Sequence(requests) /\ Shaped(viewer) /\ Waits(viewer, requests) /\ OneLink(viewer, requests)
      /\ LinkHere(viewer, requests) /\ viewer.saved[1] = viewer.saved[2]
  BY DEF ViewerInv, Settling
<1>1. CASE viewer.surface = "drawer"
  <2>1. PICK lost : lost = (viewer.astray \/ viewer.link # None \/ UnderWay("link"))
    OBVIOUS
  <2>2. viewer' = [viewer EXCEPT !.shown = None, !.astray = lost] /\ requests' = requests
    BY <1>1, <2>1 DEF Close, Look
  <2>3. /\ viewer'.surface = viewer.surface /\ viewer'.shown = None
        /\ viewer'.index = viewer.index /\ viewer'.playing = viewer.playing /\ viewer'.since = viewer.since
        /\ viewer'.loading = viewer.loading /\ viewer'.meant = viewer.meant /\ viewer'.busy = viewer.busy
        /\ viewer'.link = viewer.link /\ viewer'.astray = lost /\ viewer'.saved = viewer.saved
        /\ viewer'.listed = viewer.listed /\ viewer'.cache = viewer.cache
        /\ Shaped(viewer')
    BY <1>i, <2>2 DEF Shaped
  <2>4. Sequence(requests') /\ Waits(viewer, requests)' /\ OneLink(viewer, requests)' /\ OneVideo(viewer, requests)'
        /\ Clicked(viewer)'
    BY <1>1, <1>i, <2>2, <2>3 DEF Waits, OneLink, OneVideo, Clicked
  <2>5. LinkHere(viewer, requests)'
    BY <1>i, <2>1, <2>2, <2>3 DEF LinkHere, Out, UnderWay
  <2>6. Plays(viewer, requests)'
    BY <1>1, <2>3 DEF Plays, OnScreen, Video
  <2> QED
    BY <1>i, <2>3, <2>4, <2>5, <2>6 DEF ViewerInv, Settling
<1>2. CASE viewer.surface # "drawer"
  <2>1. viewer' = FreshViewer(viewer.surface, None, viewer.cache)
        /\ requests' = IF UnderWay("detail") THEN <<Pending("detail")>> ELSE << >>
    BY <1>2 DEF Close
  <2>2. UnderWay("detail") => Pending("detail").op = "detail"
    BY DEF UnderWay, Pending
  <2>3. Sequence(requests') /\ \A i \in DOMAIN requests' : requests'[i].op = "detail"
    BY <2>1, <2>2, ShortSequences
  <2> QED
    BY <1>i, <2>1, <2>3, FreshSettles DEF ViewerInv, Shaped
<1> QED
  BY <1>1, <1>2

LEMMA FetchDetailStep == ASSUME ViewerInv, FetchDetail PROVE ViewerInv'
<1>i. /\ Sequence(requests) /\ Shaped(viewer) /\ Waits(viewer, requests) /\ OneLink(viewer, requests)
      /\ LinkHere(viewer, requests) /\ viewer.saved[1] = viewer.saved[2]
  BY DEF ViewerInv, Settling
<1>1. viewer' = viewer /\ requests' = Append(requests, Req("detail", None))
  BY DEF FetchDetail, Send
<1>2. AfterSending(requests, Req("detail", None), requests')
  BY <1>1, <1>i, Sent
<1>3. Req("detail", None).op = "detail"
  BY DEF Req
<1>4. Aside(viewer, viewer')
  BY <1>1, <1>i DEF Aside
<1>5. Sequence(requests)' /\ Waits(viewer, requests)' /\ OneLink(viewer, requests)'
  BY <1>1, <1>2, <1>3, <1>i DEF Waits, OneLink, AfterSending
<1>6. LinkHere(viewer, requests)'
  BY <1>1, <1>2, <1>3, <1>i DEF LinkHere, AfterSending
<1>7. SamePlays(requests, requests')
  BY <1>2, <1>3 DEF SamePlays, AfterSending
<1> QED
  BY <1>4, <1>5, <1>6, <1>7, AsideStep

-----------------------------------------------------------------------------
(* The theorem.                                                             *)

LEMMA ViewerInitially == ViewerInit => ViewerInv
<1> SUFFICES ASSUME ViewerInit PROVE ViewerInv
  OBVIOUS
<1>1. \E surface \in Surfaces : \E shown, kept :
        viewer = FreshViewer(surface, shown, kept) /\ requests = << >>
  BY DEF ViewerInit, Surfaces
<1>2. Sequence(requests) /\ \A i \in DOMAIN requests : requests[i].op = "detail"
  BY <1>1, ShortSequences
<1> QED
  BY <1>1, <1>2, FreshSettles DEF ViewerInv

LEMMA ViewerStep == ViewerInv /\ [ViewerNext]_viewing => ViewerInv'
<1> SUFFICES ASSUME ViewerInv, [ViewerNext]_viewing PROVE ViewerInv'
  OBVIOUS
<1>i. Shaped(viewer) /\ viewer.saved[1] = viewer.saved[2]
  BY DEF ViewerInv, Settling
<1>1. CASE UNCHANGED <<viewer, requests>>
  BY <1>1 DEF ViewerInv
<1>2. ASSUME NEW s \in Services, OpenService(s) \/ Attach(s) \/ TrashIt(s) PROVE ViewerInv'
  BY <1>1, <1>2, OpenServiceStep DEF Attach, TrashIt
<1>3. ASSUME NEW i, Pick(i) \/ StepTo(i) PROVE ViewerInv'
  BY <1>3, IndexStep DEF Pick, StepTo
<1>4. ASSUME NEW a, PlayShared(a), a \in DOMAIN KindOf PROVE ViewerInv'
  BY <1>4, SharedStep DEF PlayShared
<1>5. ASSUME NEW a, AskDocument(a) PROVE ViewerInv'
  BY <1>5, PressStep DEF AskDocument, Buttons
<1>6. CASE AskCopy \/ AskPhotos
  BY <1>6, PressStep DEF AskCopy, AskPhotos, Buttons
<1>7. CASE AskLink
  BY <1>7, PressStep DEF AskLink, Buttons
<1>8. CASE CloseLightbox
  <2>1. CASE viewer.surface = "shared"
    BY <1>8, <2>1, SharedStep DEF CloseLightbox, Look
  <2>2. CASE viewer.surface # "shared"
    BY <1>8, <2>2, IndexStep DEF CloseLightbox
  <2> QED
    BY <2>1, <2>2
<1>9. ASSUME NEW i \in DOMAIN requests, LinkArrives(i) PROVE ViewerInv'
  <2>1. viewer' = [viewer EXCEPT !.busy = @ \ {requests[i].op}, !.link = requests[i].service, !.saved = viewer.saved]
    BY <1>9, <1>i DEF LinkArrives, Told, Shaped
  <2>2. requests[i].op = "link" /\ Answered(i)
    BY <1>9 DEF LinkArrives, Told
  <2> QED
    BY <1>i, <2>1, <2>2, AnsweredStep
<1>10. ASSUME NEW i \in DOMAIN requests, FileArrives(i) \/ Fails(i) PROVE ViewerInv'
  <2>1. viewer' = [viewer EXCEPT !.busy = @ \ {requests[i].op}, !.link = viewer.link, !.saved = viewer.saved]
    BY <1>10, <1>i DEF FileArrives, Fails, Told, Shaped
  <2>2. requests[i].op # "play" /\ Answered(i)
    BY <1>10 DEF FileArrives, Fails, Told
  <2> QED
    BY <1>i, <2>1, <2>2, AnsweredStep
<1>11. ASSUME NEW i \in DOMAIN requests, CopyArrives(i) PROVE ViewerInv'
  <2>1. PICK saved : saved[1] = saved[2]
          /\ viewer' = [viewer EXCEPT !.busy = @ \ {"mp4"}, !.saved = saved]
    BY <1>11, <1>i DEF CopyArrives, Told
  <2>2. requests[i].op = "mp4" /\ Answered(i)
    BY <1>11 DEF CopyArrives, Told
  <2>3. viewer' = [viewer EXCEPT !.busy = @ \ {requests[i].op}, !.link = viewer.link, !.saved = saved]
    BY <1>i, <2>1, <2>2 DEF Shaped
  <2> QED
    BY <2>1, <2>2, <2>3, AnsweredStep
<1>12. ASSUME NEW i \in DOMAIN requests, DetailArrives(i) \/ PlaybackArrives(i) \/ PlaybackFails(i)
       PROVE ViewerInv'
  BY <1>12, DetailStep, PlaybackStep
<1>13. ASSUME NEW a \in Streams, CopyReady(a) PROVE ViewerInv'
  BY <1>1, <1>13 DEF CopyReady
<1>14. CASE Close \/ FetchDetail \/ SaveCurrent \/ CloseLink
  BY <1>14, CloseStep, FetchDetailStep, SaveStep, CloseLinkStep
<1>15. CASE UNCHANGED viewing
  BY <1>1, <1>15 DEF viewing
<1> QED
  BY <1>2, <1>3, <1>4, <1>5, <1>6, <1>7, <1>8, <1>9, <1>10, <1>11, <1>12, <1>13, <1>14, <1>15 DEF ViewerNext

\* The viewer of a service settles on what was clicked, for any services, attachments
\* and number of calls, in whatever order they are answered and however many fail.
THEOREM ViewerAlwaysSettles == ViewerSpec => []ViewerSettles
<1>1. ViewerInv => ViewerSettles
  <2> SUFFICES ASSUME ViewerInv PROVE ViewerSettles
    OBVIOUS
  <2>1. Quiet => \A op : ~Out(requests, op) /\ \A a : ~Wanted(requests, op, a)
    BY DEF Quiet, Out, Wanted
  <2>2. NothingWaits
    BY <2>1 DEF NothingWaits, ViewerInv, Settling, Waits
  <2>3. VideoPlays
    BY <2>1 DEF VideoPlays, ViewerInv, Settling, Plays
  <2>4. ShowsClicked
    BY DEF ShowsClicked, ViewerInv, Settling, Clicked
  <2>5. LinkOfShown
    BY DEF LinkOfShown, ViewerInv, Settling, LinkHere
  <2> QED
    BY <2>2, <2>3, <2>4, <2>5 DEF ViewerSettles, ViewerInv, Settling
<1> QED
  BY <1>1, ViewerInitially, ViewerStep, PTL DEF ViewerSpec

-----------------------------------------------------------------------------
(***************************************************************************)
(* Lists.  The argument: a page that was turned to has rows, a list that   *)
(* grows holds its first pages once each, and the end of an endless list   *)
(* is observed, as long as nothing excuses them; and a row in the order of *)
(* the API is on the page, before it or after it.                          *)
(***************************************************************************)
Slices == [rows : Seq(Items \X Nat), pages : Nat]
ListShape ==
  [screen : Screens, phone : BOOLEAN, language : Languages, page : Nat \ {0}, limit : Limits,
   typed : Filters, search : Filters, filter : Filters, shown : Slices, loading : BOOLEAN,
   items : Seq(Items \X Nat), parts : Seq(Slices), observed : BOOLEAN]
ListsTyped ==
  /\ stored \in [Items -> Nat] /\ earlier \subseteq [Items -> Nat] /\ list \in ListShape
  /\ list.screen = "organizations" => ~list.phone

Matches(l) == Matching(l.search, l.filter)
Listing(ids) == ListingIn(stored, ids)

\* A table that was turned to a page finds rows there, unless it has an excuse.
Tables == {"users", "owners", "assets", "services"}
TurnedFits ==
  ~list.phone /\ list.screen \in Tables /\ why = {} =>
    list.page = 1 \/ (list.page - 1) * list.limit < Cardinality(Matches(list))
\* Where no effect follows the search, the page is the first while it waits.
TypedFirst ==
  ~list.phone /\ list.screen \in {"users", "owners"} /\ why = {} /\ list.typed # list.search =>
    list.page = 1

\* A list that grows holds the first pages, and those once.
Grown ==
  LET read == IF list.loading THEN list.page - 1 ELSE list.page
  IN /\ (list.page - 1) * Batch < Cardinality(Matches(list))
     /\ list.items = PageOf(Listing(Matches(list)), 1, read * Batch)
     /\ ~list.loading => list.shown = Fresh
GrownFits ==
  Feed(list) /\ why = {} =>
    IF list.page = 1 THEN list.loading \/ list.items = list.shown.rows ELSE Grown

\* The end of an endless list is observed whenever it has one.
EndObserved ==
  Scroll(list) =>
    /\ list.filter = Off /\ list.page = 1
    /\ why = {} /\ HasNext(list) /\ Sentinel(list) => list.observed

ListsInv == ListsTyped /\ TurnedFits /\ TypedFirst /\ GrownFits /\ EndObserved
-----------------------------------------------------------------------------
\* A page begins before the end exactly when more rows match than come before it.
LEMMA MorePages ==
  ASSUME NEW n \in Nat, NEW d \in Nat \ {0}, NEW p \in Nat
  PROVE  /\ (n + d - 1) \div d \in Nat
         /\ p < (n + d - 1) \div d <=> p * d < n
<1> DEFINE q == (n + d - 1) \div d
           r == (n + d - 1) % d
<1>1. q \in Nat /\ r \in 0..(d - 1) /\ n + d - 1 = q * d + r
  OBVIOUS
<1> HIDE DEF q, r
<1>2. ASSUME p < q PROVE p * d < n
  <2>1. PICK k \in Nat : q = p + 1 + k
    <3>1. q - p - 1 \in Nat
      BY <1>1, <1>2
    <3> QED
      BY <3>1, <1>1
  <2>2. k * d \in Nat /\ p * d \in Nat
    OBVIOUS
  <2>3. q * d = p * d + d + k * d
    BY <2>1
  <2> QED
    BY <1>1, <2>2, <2>3
<1>3. ASSUME ~(p < q) PROVE ~(p * d < n)
  <2>1. PICK k \in Nat : p = q + k
    <3>1. p - q \in Nat
      BY <1>1, <1>3
    <3> QED
      BY <3>1, <1>1
  <2>2. k * d \in Nat /\ q * d \in Nat
    BY <1>1
  <2>3. p * d = q * d + k * d
    BY <2>1, <1>1
  <2> QED
    BY <1>1, <2>2, <2>3
<1> QED
  BY <1>1, <1>2, <1>3 DEF q

Increasing(s) == \A j, k \in DOMAIN s : j < k => s[j] < s[k]
Orders(ids) == {s \in [1..Cardinality(ids) -> ids] : Increasing(s)}

\* Finitely many rows can be put in order: the least first, then the others.
LEMMA OrderExists ==
  ASSUME NEW ids \in SUBSET Nat, IsFiniteSet(ids) PROVE Orders(ids) # {}
<1> DEFINE Bad == {n \in Nat : \E S \in SUBSET Nat : IsFiniteSet(S) /\ Cardinality(S) = n /\ Orders(S) = {}}
<1>1. SUFFICES ASSUME Bad # {} PROVE FALSE
  BY FS_CardinalityType
<1>2. PICK n \in Bad : \A m \in Bad : ~(<<m, n>> \in OpToRel(<, Nat))
  BY <1>1, WFMin, NatLessThanWellFounded, Zenon
<1>3. \A m \in Bad : ~(m < n)
  BY <1>2, Zenon DEF OpToRel
<1>4. PICK S \in SUBSET Nat : IsFiniteSet(S) /\ Cardinality(S) = n /\ Orders(S) = {}
  OBVIOUS
<1>5. S # {}
  <2>1. SUFFICES ASSUME S = {} PROVE FALSE
    OBVIOUS
  <2>2. [k \in 1..0 |-> 0] \in Orders(S)
    BY <2>1, FS_EmptySet DEF Orders, Increasing
  <2> QED
    BY <2>2, <1>4
<1>6. PICK x \in S : \A y \in S : ~(<<y, x>> \in OpToRel(<, Nat))
  BY <1>5, WFMin, NatLessThanWellFounded, Zenon
<1>7. \A y \in S \ {x} : x < y
  <2>1. \A y \in S : ~(y < x)
    BY <1>6, Zenon DEF OpToRel
  <2>2. \A y \in Nat : y # x /\ ~(y < x) => x < y
    OBVIOUS
  <2> QED
    BY <2>1, <2>2
<1>8. IsFiniteSet(S \ {x}) /\ Cardinality(S \ {x}) = n - 1 /\ n \in Nat \ {0}
  BY <1>4, <1>5, FS_RemoveElement, FS_EmptySet
<1>9. Orders(S \ {x}) # {}
  <2>1. n - 1 \notin Bad /\ n - 1 \in Nat
    BY <1>3, <1>8
  <2> QED
    BY <2>1, <1>8
<1>10. PICK t \in [1..(n - 1) -> S \ {x}] : Increasing(t)
  BY <1>8, <1>9 DEF Orders
<1> DEFINE s == [k \in 1..n |-> IF k = 1 THEN x ELSE t[k - 1]]
<1>11. s \in [1..n -> S]
  BY <1>8, <1>10
<1>12. Increasing(s)
  <2>1. SUFFICES ASSUME NEW j \in 1..n, NEW k \in 1..n, j < k PROVE s[j] < s[k]
    BY DEF Increasing
  <2>2. CASE j = 1
    <3>1. t[k - 1] \in S \ {x}
      BY <1>10, <2>1
    <3>2. x < t[k - 1]
      BY <3>1, <1>7
    <3> QED
      BY <3>2, <2>1, <2>2
  <2>3. CASE j # 1
    <3>1. j - 1 \in 1..(n - 1) /\ k - 1 \in 1..(n - 1) /\ j - 1 < k - 1
      BY <2>1, <2>3, <1>8
    <3>2. t[j - 1] < t[k - 1]
      BY <3>1, <1>10 DEF Increasing
    <3> QED
      BY <3>2, <2>1, <2>3, <1>8
  <2> QED
    BY <2>2, <2>3
<1> QED
  BY <1>4, <1>11, <1>12 DEF Orders

\* The order has every row, and later rows after earlier ones.
LEMMA InOrderFacts ==
  ASSUME NEW ids \in SUBSET Nat, IsFiniteSet(ids)
  PROVE  /\ Cardinality(ids) \in Nat
         /\ InOrder(ids) \in [1..Cardinality(ids) -> ids]
         /\ \A j, k \in 1..Cardinality(ids) : j < k => InOrder(ids)[j] < InOrder(ids)[k]
         /\ \A i \in ids : \E k \in 1..Cardinality(ids) : InOrder(ids)[k] = i
<1> DEFINE n == Cardinality(ids)
           s == InOrder(ids)
<1>1. n \in Nat
  BY FS_CardinalityType
<1>2. \E t \in [1..n -> ids] : \A j, k \in DOMAIN t : j < k => t[j] < t[k]
  BY OrderExists DEF Orders, Increasing
<1>3. s \in [1..n -> ids] /\ \A j, k \in DOMAIN s : j < k => s[j] < s[k]
  BY <1>2 DEF InOrder
<1> HIDE DEF s
<1>4. \A j, k \in 1..n : j < k => s[j] < s[k]
  BY <1>3
<1>5. s \in Injection(1..n, ids)
  <2>1. SUFFICES ASSUME NEW j \in 1..n, NEW k \in 1..n, s[j] = s[k] PROVE j = k
    BY <1>3 DEF Injection, IsInjective
  <2>2. s[j] \in Nat /\ s[k] \in Nat
    BY <1>3
  <2> QED
    BY <1>4, <2>1, <2>2, <1>1
<1>6. IsFiniteSet(1..n) /\ Cardinality(1..n) = n
  BY <1>1, FS_Interval
<1>7. s \in Surjection(1..n, ids)
  BY <1>5, <1>6, FS_Injection
<1>8. \A i \in ids : \E k \in 1..n : s[k] = i
  BY <1>7 DEF Surjection
<1> QED
  BY <1>1, <1>3, <1>4, <1>8 DEF s
-----------------------------------------------------------------------------
\* What is listed are rows that exist.
LEMMA MatchingFacts ==
  ASSUME NEW s, NEW f
  PROVE  /\ Matching(s, f) \subseteq Items /\ Matching(s, f) \in SUBSET Nat
         /\ IsFiniteSet(Matching(s, f)) /\ Cardinality(Matching(s, f)) \in Nat
<1>1. Matching(s, f) \subseteq Items
  BY DEF Matching, MatchingIn, Present
<1>2. IsFiniteSet(Matching(s, f))
  BY <1>1, ListsAssumption, FS_Subset
<1> QED
  BY <1>1, <1>2, ListsAssumption, FS_CardinalityType

\* The rows of some ids are numbered in their order.
LEMMA RowsFacts ==
  ASSUME stored \in [Items -> Nat], NEW ids \in SUBSET Items
  PROVE  /\ Cardinality(ids) \in Nat
         /\ Listing(ids) \in [1..Cardinality(ids) -> ids \X Nat]
         /\ Listing(ids) \in Seq(Items \X Nat) /\ Len(Listing(ids)) = Cardinality(ids)
         /\ \A k \in 1..Cardinality(ids) : Listing(ids)[k][1] = InOrder(ids)[k]
<1>1. ids \in SUBSET Nat /\ IsFiniteSet(ids)
  BY ListsAssumption, FS_Subset
<1> DEFINE n == Cardinality(ids)
           s == InOrder(ids)
<1>2. n \in Nat /\ s \in [1..n -> ids]
  BY <1>1, InOrderFacts
<1> HIDE DEF n, s
<1>3. \A k \in 1..n : <<s[k], stored[s[k]]>> \in ids \X Nat
  BY <1>2
<1>4. Listing(ids) = [k \in 1..n |-> <<s[k], stored[s[k]]>>]
  <2>1. DOMAIN s = 1..n
    BY <1>2
  <2> QED
    BY <2>1 DEF Listing, ListingIn, s
<1>5. Listing(ids) \in [1..n -> ids \X Nat] /\ \A k \in 1..n : Listing(ids)[k][1] = s[k]
  BY <1>3, <1>4
<1>6. Listing(ids) \in [1..n -> Items \X Nat]
  BY <1>5
<1>7. Listing(ids) \in Seq(Items \X Nat) /\ Len(Listing(ids)) = n
  BY <1>2, <1>6
<1> QED
  BY <1>2, <1>5, <1>7 DEF n, s

\* Where a page of s begins and ends.
PageStart(p, d) == (p - 1) * d
PageEnd(s, p, d) == IF p * d < Len(s) THEN p * d ELSE Len(s)
PageLen(s, p, d) ==
  IF PageStart(p, d) < PageEnd(s, p, d) THEN PageEnd(s, p, d) - PageStart(p, d)
  ELSE 0
PageFits(X, s, p, d) ==
  /\ PageStart(p, d) \in Nat /\ PageEnd(s, p, d) \in Nat /\ PageEnd(s, p, d) <= Len(s)
  /\ PageOf(s, p, d) \in Seq(X) /\ Len(PageOf(s, p, d)) = PageLen(s, p, d)
  /\ \A k \in 1..PageLen(s, p, d) :
       PageStart(p, d) + k \in DOMAIN s /\ PageOf(s, p, d)[k] = s[PageStart(p, d) + k]

\* A page is what is between its start and its end.
LEMMA PageFacts ==
  ASSUME NEW X, NEW s \in Seq(X), NEW p \in Nat \ {0}, NEW d \in Nat
  PROVE  PageFits(X, s, p, d)
<1> DEFINE lo == PageStart(p, d)
           hi == PageEnd(s, p, d)
           n == IF lo < hi THEN hi - lo ELSE 0
<1>1. p * d \in Nat /\ (p - 1) * d \in Nat /\ Len(s) \in Nat
  OBVIOUS
<1>2. lo \in Nat /\ hi \in Nat /\ hi <= Len(s)
  BY <1>1 DEF PageStart, PageEnd
<1>3. PageOf(s, p, d) = SubSeq(s, lo + 1, hi)
  BY DEF PageOf, PageStart, PageEnd
<1> HIDE DEF lo, hi
<1>4. \A k \in (lo + 1)..hi : k \in 1..Len(s)
  BY <1>2
<1>5. n \in Nat /\ IF lo + 1 <= hi + 1 THEN hi - lo >= 0 /\ (hi - lo = n) ELSE n = 0
  BY <1>2
<1>6. SubSeq(s, lo + 1, hi) \in Seq(X) /\ Len(SubSeq(s, lo + 1, hi)) = n
      /\ \A k \in 1..n : SubSeq(s, lo + 1, hi)[k] = s[lo + k]
  BY <1>2, <1>4, <1>5
<1>7. \A k \in 1..n : lo + k \in DOMAIN s
  BY <1>2
<1> QED
  BY <1>2, <1>3, <1>5, <1>6, <1>7 DEF lo, hi, PageLen, PageFits
\* The ids on a page, and the lengths of the rows and of their order agree.
PageCount(n, d) == (n + d - 1) \div d
Ends(ids, p, d) == IF p * d < Cardinality(ids) THEN p * d ELSE Cardinality(ids)
OnPage(ids, p, d) == {InOrder(ids)[k] : k \in (PageStart(p, d) + 1)..Ends(ids, p, d)}

LEMMA OnPageFacts ==
  ASSUME stored \in [Items -> Nat], NEW ids \in SUBSET Items, NEW p \in Nat \ {0}, NEW d \in Nat
  PROVE  /\ Ids(PageOf(Listing(ids), p, d)) = OnPage(ids, p, d)
         /\ ToSet(PageOf(InOrder(ids), p, d)) = OnPage(ids, p, d)
         /\ PageStart(p, d) \in Nat /\ Ends(ids, p, d) \in Nat /\ Ends(ids, p, d) <= Cardinality(ids)
<1> DEFINE s == InOrder(ids)
           c == Cardinality(ids)
           lo == PageStart(p, d)
           hi == Ends(ids, p, d)
           n == IF lo < hi THEN hi - lo ELSE 0
<1>1. ids \in SUBSET Nat /\ IsFiniteSet(ids)
  BY ListsAssumption, FS_Subset
<1>2. c \in Nat /\ s \in [1..c -> ids] /\ s \in Seq(ids) /\ Len(s) = c
  BY <1>1, InOrderFacts
<1>3. Listing(ids) \in Seq(Items \X Nat) /\ Len(Listing(ids)) = c /\ \A k \in 1..c : Listing(ids)[k][1] = s[k]
  BY RowsFacts
<1>4. PageEnd(s, p, d) = hi /\ PageEnd(Listing(ids), p, d) = hi
  BY <1>2, <1>3 DEF PageEnd, Ends
<1>a. PageLen(s, p, d) = n /\ PageLen(Listing(ids), p, d) = n
  BY <1>4, Zenon DEF PageLen
<1>c. PageFits(ids, s, p, d) /\ PageFits(Items \X Nat, Listing(ids), p, d)
  BY <1>2, <1>3, PageFacts, Zenon
<1> HIDE DEF s, c, lo, hi, n
<1>5. /\ lo \in Nat /\ hi \in Nat /\ hi <= c
      /\ PageOf(s, p, d) \in Seq(ids) /\ Len(PageOf(s, p, d)) = n
      /\ \A k \in 1..n : lo + k \in DOMAIN s /\ PageOf(s, p, d)[k] = s[lo + k]
  BY <1>2, <1>4, <1>a, <1>c DEF lo, PageFits
<1>b. n \in Nat /\ n = IF lo < hi THEN hi - lo ELSE 0
  BY <1>5 DEF n
<1>6. /\ PageOf(Listing(ids), p, d) \in Seq(Items \X Nat) /\ Len(PageOf(Listing(ids), p, d)) = n
      /\ \A k \in 1..n : lo + k \in DOMAIN Listing(ids) /\ PageOf(Listing(ids), p, d)[k] = Listing(ids)[lo + k]
  BY <1>3, <1>4, <1>a, <1>c DEF lo, PageFits
<1>7. DOMAIN PageOf(s, p, d) = 1..n /\ DOMAIN PageOf(Listing(ids), p, d) = 1..n
  BY <1>5, <1>6, <1>b
<1>8. \A k \in 1..n : PageOf(Listing(ids), p, d)[k][1] = s[lo + k]
  <2>1. SUFFICES ASSUME NEW k \in 1..n PROVE Listing(ids)[lo + k][1] = s[lo + k]
    BY <1>6
  <2>2. lo + k \in 1..c
    BY <1>5, <1>b, <1>2
  <2> QED
    BY <2>2, <1>3
<1>9. OnPage(ids, p, d) = {s[lo + k] : k \in 1..n}
  <2>1. \A k \in 1..n : lo + k \in (lo + 1)..hi
    BY <1>5, <1>b
  <2>2. \A k \in (lo + 1)..hi : k - lo \in 1..n /\ lo + (k - lo) = k
    BY <1>5, <1>b
  <2>3. OnPage(ids, p, d) = {s[k] : k \in (lo + 1)..hi}
    BY DEF OnPage, s, lo, hi
  <2> QED
    BY <2>1, <2>2, <2>3
<1>10. Ids(PageOf(Listing(ids), p, d)) = {s[lo + k] : k \in 1..n}
  BY <1>7, <1>8 DEF Ids
<1>11. ToSet(PageOf(s, p, d)) = {s[lo + k] : k \in 1..n}
  BY <1>5, <1>7 DEF ToSet
<1> QED
  BY <1>5, <1>9, <1>10, <1>11 DEF s, c, lo, hi

\* A row that is not on a page of its order is before it, which then is not the first, or after
\* it, which then is not the last.
LEMMA Around ==
  ASSUME NEW ids \in SUBSET Items, NEW p \in Nat \ {0}, NEW d \in Nat \ {0}, NEW i \in ids
  PROVE  \/ i \in OnPage(ids, p, d)
         \/ p > 1 /\ \A r \in OnPage(ids, p, d) : i < r
         \/ p < PageCount(Cardinality(ids), d) /\ \A r \in OnPage(ids, p, d) : i > r
<1> DEFINE s == InOrder(ids)
           c == Cardinality(ids)
           lo == PageStart(p, d)
           hi == Ends(ids, p, d)
<1>1. ids \in SUBSET Nat /\ IsFiniteSet(ids)
  BY ListsAssumption, FS_Subset
<1>2. /\ c \in Nat /\ s \in [1..c -> ids]
      /\ \A j, k \in 1..c : j < k => s[j] < s[k]
      /\ \A x \in ids : \E k \in 1..c : s[k] = x
  BY <1>1, InOrderFacts
<1>3. p * d \in Nat /\ (p - 1) * d \in Nat
  OBVIOUS
<1>4. lo \in Nat /\ hi \in Nat /\ hi <= c
  BY <1>2, <1>3 DEF PageStart, Ends
<1>5. PICK k \in 1..c : s[k] = i
  BY <1>2
<1>6. OnPage(ids, p, d) = {s[j] : j \in (lo + 1)..hi}
  BY DEF OnPage
<1> HIDE DEF s, lo, hi
<1>7. CASE k <= lo
  <2>1. p # 1
    BY <1>7, <1>5 DEF lo, PageStart
  <2>2. \A j \in (lo + 1)..hi : j \in 1..c /\ k < j
    BY <1>7, <1>4, <1>2
  <2>3. \A j \in (lo + 1)..hi : i < s[j]
    BY <2>2, <1>2, <1>5
  <2> QED
    BY <2>1, <2>3, <1>6
<1>8. CASE hi < k
  <2>1. hi = p * d /\ p * d < c
    BY <1>8, <1>2, <1>3 DEF hi, Ends
  <2>2. p < PageCount(c, d)
    BY <2>1, <1>2, MorePages DEF PageCount
  <2>3. \A j \in (lo + 1)..hi : j \in 1..c /\ j < k
    BY <1>8, <1>4, <1>2
  <2>4. \A j \in (lo + 1)..hi : s[j] < i /\ s[j] \in Nat /\ i \in Nat
    BY <2>3, <1>2, <1>5, <1>1
  <2>5. \A j \in (lo + 1)..hi : i > s[j]
    BY <2>4
  <2> QED
    BY <2>2, <2>5, <1>6
<1>9. CASE lo < k /\ k <= hi
  BY <1>9, <1>4, <1>5, <1>6
<1> QED
  BY <1>4, <1>5, <1>7, <1>8, <1>9
\* The pages read so far and the next are the pages read then.
LEMMA Joined ==
  ASSUME NEW X, NEW s \in Seq(X), NEW p \in Nat \ {0}, NEW d \in Nat \ {0}, p * d < Len(s)
  PROVE  PageOf(s, 1, p * d) \o PageOf(s, p + 1, d) = PageOf(s, 1, (p + 1) * d)
<1> DEFINE m == p * d
           m2 == (p + 1) * d
           a == PageOf(s, 1, m)
           b == PageOf(s, p + 1, d)
           c == PageOf(s, 1, m2)
           e == IF m2 < Len(s) THEN m2 ELSE Len(s)
<1>1. m \in Nat /\ m2 \in Nat /\ m2 = m + d /\ Len(s) \in Nat
  OBVIOUS
<1>2. PageFits(X, s, 1, m) /\ PageFits(X, s, p + 1, d) /\ PageFits(X, s, 1, m2)
  <2>1. p + 1 \in Nat \ {0} /\ 1 \in Nat \ {0} /\ d \in Nat
    OBVIOUS
  <2> HIDE DEF m, m2
  <2> QED
    BY <1>1, <2>1, PageFacts, Zenon
<1>3. PageStart(1, m) = 0 /\ PageStart(1, m2) = 0 /\ PageStart(p + 1, d) = m
  BY <1>1 DEF PageStart
<1>4. PageEnd(s, 1, m) = m /\ PageEnd(s, p + 1, d) = e /\ PageEnd(s, 1, m2) = e
  <2> HIDE DEF m, m2
  <2>1. 1 * m = m /\ 1 * m2 = m2 /\ m < Len(s)
    BY <1>1 DEF m
  <2>2. PageEnd(s, 1, m) = m /\ PageEnd(s, 1, m2) = e
    BY <2>1 DEF PageEnd
  <2>3. PageEnd(s, p + 1, d) = e
    BY DEF PageEnd, m2
  <2> QED
    BY <2>2, <2>3
<1>5. m < Len(s)
  OBVIOUS
<1> HIDE DEF m, m2, a, b, c
<1>6. e \in Nat /\ m < e
  BY <1>1, <1>5
<1> HIDE DEF e
<1>7. PageLen(s, 1, m) = m /\ PageLen(s, p + 1, d) = e - m /\ PageLen(s, 1, m2) = e
  BY <1>1, <1>3, <1>4, <1>6 DEF PageLen
<1>8. a \in Seq(X) /\ Len(a) = m /\ \A k \in 1..m : a[k] = s[0 + k]
  BY <1>2, <1>3, <1>7 DEF PageFits, a
<1>9. b \in Seq(X) /\ Len(b) = e - m /\ \A k \in 1..(e - m) : b[k] = s[m + k]
  BY <1>2, <1>3, <1>7 DEF PageFits, b
<1>10. c \in Seq(X) /\ Len(c) = e /\ \A k \in 1..e : c[k] = s[0 + k]
  BY <1>2, <1>3, <1>7 DEF PageFits, c
<1>11. a \o b \in Seq(X) /\ Len(a \o b) = e
  <2>1. a \o b \in Seq(X) /\ Len(a \o b) = Len(a) + Len(b)
    BY <1>8, <1>9, ConcatProperties
  <2>2. Len(a) = m /\ Len(b) = e - m
    BY <1>8, <1>9
  <2>3. m + (e - m) = e
    BY <1>1, <1>6
  <2> QED
    BY <2>1, <2>2, <2>3
<1>12. \A k \in 1..e : (a \o b)[k] = s[k]
  <2>1. SUFFICES ASSUME NEW k \in 1..e PROVE (a \o b)[k] = s[k]
    OBVIOUS
  <2>2. CASE k <= m
    <3>1. k \in 1..m /\ (a \o b)[k] = a[k]
      BY <2>2, <1>1, <1>6, <1>8, <1>9
    <3> QED
      BY <3>1, <1>8
  <2>3. CASE k > m
    <3>1. k - m \in 1..(e - m) /\ (a \o b)[k] = b[k - m] /\ m + (k - m) = k
      BY <2>3, <1>1, <1>6, <1>8, <1>9
    <3> QED
      BY <3>1, <1>9
  <2>4. k <= m \/ k > m
    BY <1>1
  <2> QED
    BY <2>2, <2>3, <2>4
<1>13. \A k \in 1..e : c[k] = s[k]
  BY <1>10
<1>14. a \o b = c
  <2>1. Len(a \o b) = Len(c) /\ \A k \in 1..Len(a \o b) : (a \o b)[k] = c[k]
    BY <1>10, <1>11, <1>12, <1>13
  <2> QED
    BY <1>10, <1>11, <2>1, SeqEqual
<1> QED
  BY <1>14 DEF a, b, c, m, m2

\* The first pages, when they are enough, have every row, and each once.
LEMMA FirstPages ==
  ASSUME stored \in [Items -> Nat], NEW ids \in SUBSET Items, NEW m \in Nat
  PROVE  /\ Cardinality(Ids(PageOf(Listing(ids), 1, m))) = Len(PageOf(Listing(ids), 1, m))
         /\ ~(m < Cardinality(ids)) => OnPage(ids, 1, m) = ids
<1> DEFINE s == InOrder(ids)
           c == Cardinality(ids)
           e == Ends(ids, 1, m)
<1>1. ids \in SUBSET Nat /\ IsFiniteSet(ids)
  BY ListsAssumption, FS_Subset
<1>2. /\ c \in Nat /\ s \in [1..c -> ids]
      /\ \A j, k \in 1..c : j < k => s[j] < s[k]
      /\ \A x \in ids : \E k \in 1..c : s[k] = x
  BY <1>1, InOrderFacts
<1>3. PageStart(1, m) = 0 /\ e = IF m < c THEN m ELSE c
  BY DEF PageStart, Ends
<1>4. e \in Nat /\ e <= c
  BY <1>2, <1>3
<1>5. OnPage(ids, 1, m) = {s[k] : k \in 1..e}
  BY <1>3 DEF OnPage
<1> HIDE DEF s, c, e
<1>6. ~(m < c) => OnPage(ids, 1, m) = ids
  <2>1. SUFFICES ASSUME ~(m < c) PROVE OnPage(ids, 1, m) = ids
    OBVIOUS
  <2>2. e = c
    BY <2>1, <1>3
  <2> QED
    BY <2>2, <1>5, <1>2
<1> DEFINE t == [k \in 1..e |-> s[k]]
<1>7. t \in Bijection(1..e, {s[k] : k \in 1..e})
  <2>1. t \in [1..e -> {s[k] : k \in 1..e}]
    OBVIOUS
  <2>2. \A j, k \in 1..e : t[j] = t[k] => j = k
    <3>1. SUFFICES ASSUME NEW j \in 1..e, NEW k \in 1..e, s[j] = s[k] PROVE j = k
      OBVIOUS
    <3>2. j \in 1..c /\ k \in 1..c
      BY <1>2, <1>4
    <3>3. s[j] \in Nat /\ s[k] \in Nat
      BY <3>2, <1>2, <1>1
    <3> QED
      BY <3>1, <3>2, <3>3, <1>2
  <2>3. \A x \in {s[k] : k \in 1..e} : \E k \in 1..e : t[k] = x
    OBVIOUS
  <2> HIDE DEF t
  <2> QED
    BY <2>1, <2>2, <2>3 DEF Bijection, Injection, Surjection, IsInjective
<1>8. Cardinality({s[k] : k \in 1..e}) = e
  <2>1. IsFiniteSet(1..e) /\ Cardinality(1..e) = e
    BY <1>4, FS_Interval
  <2>2. ExistsBijection(1..e, {s[k] : k \in 1..e})
    BY <1>7 DEF ExistsBijection
  <2> QED
    BY <2>1, <2>2, FS_Bijection
<1>9. Len(PageOf(Listing(ids), 1, m)) = e
  <2>1. Listing(ids) \in Seq(Items \X Nat) /\ Len(Listing(ids)) = c
    BY RowsFacts DEF c
  <2>2. PageFits(Items \X Nat, Listing(ids), 1, m)
    <3>1. 1 \in Nat \ {0}
      OBVIOUS
    <3> QED
      BY <2>1, <3>1, PageFacts, Zenon
  <2>3. PageEnd(Listing(ids), 1, m) = e
    BY <2>1, <1>3 DEF PageEnd
  <2>4. PageLen(Listing(ids), 1, m) = e
    BY <2>3, <1>3, <1>4 DEF PageLen
  <2> QED
    BY <2>2, <2>4 DEF PageFits
<1>10. Ids(PageOf(Listing(ids), 1, m)) = OnPage(ids, 1, m)
  BY OnPageFacts
<1> QED
  BY <1>5, <1>6, <1>8, <1>9, <1>10 DEF c

\* What the API answers is an answer, whatever was stored then.
LEMMA SliceInTyped ==
  ASSUME NEW rows \in [Items -> Nat], NEW s, NEW f, NEW p \in Nat \ {0}, NEW d \in Nat \ {0}
  PROVE  SliceIn(rows, s, f, p, d) \in Slices
<1> DEFINE ids == MatchingIn(rows, s, f)
           n == Cardinality(ids)
           r == ListingIn(rows, ids)
<1>1. ids \subseteq Items
  BY DEF MatchingIn, Present
<1>2. ids \in SUBSET Nat /\ IsFiniteSet(ids)
  BY <1>1, ListsAssumption, FS_Subset
<1> HIDE DEF ids
<1>3. n \in Nat /\ InOrder(ids) \in [1..n -> ids]
  BY <1>2, InOrderFacts
<1>4. r = [k \in 1..n |-> <<InOrder(ids)[k], rows[InOrder(ids)[k]]>>]
  BY <1>3 DEF ListingIn
<1>5. r \in [1..n -> Items \X Nat]
  BY <1>1, <1>3, <1>4
<1> HIDE DEF r
<1>6. r \in Seq(Items \X Nat)
  BY <1>3, <1>5
<1>7. PageFits(Items \X Nat, r, p, d)
  BY <1>6, PageFacts, Zenon
<1>8. PageOf(r, p, d) \in Seq(Items \X Nat)
  BY <1>7 DEF PageFits
<1>9. (n + d - 1) \div d \in Nat
  BY <1>3, MorePages
<1>10. SliceIn(rows, s, f, p, d) = [rows |-> PageOf(r, p, d), pages |-> (n + d - 1) \div d]
  BY DEF SliceIn, ids, r
<1> QED
  BY <1>8, <1>9, <1>10 DEF Slices

LEMMA SliceTyped ==
  ASSUME stored \in [Items -> Nat], NEW s, NEW f, NEW p \in Nat \ {0}, NEW d \in Nat \ {0}
  PROVE  Slice(s, f, p, d) \in Slices
BY SliceInTyped DEF Slice
-----------------------------------------------------------------------------
\* What each page asks for.
LEMMA AskedIs ==
  ASSUME NEW l \in ListShape
  PROVE  /\ Feed(l) => Asked(l) = Asking(l, Batch)
         /\ l.screen \in Tables \union {"trash"} /\ ~Feed(l) => Asked(l) = Asking(l, l.limit)
         /\ l.screen = "organizations" => Asked(l) = AskOrganizations
<1>1. CASE l.screen = "users"
  BY <1>1 DEF Asked, AskUsers, Feed, Tables
<1>2. CASE l.screen = "owners"
  BY <1>2 DEF Asked, AskOwners, Feed, Tables
<1>3. CASE l.screen = "assets"
  BY <1>3 DEF Asked, AskAssets, Feed, Tables
<1>4. CASE l.screen = "services"
  BY <1>4 DEF Asked, AskServices, Feed, Tables
<1>5. CASE l.screen = "trash"
  BY <1>5 DEF Asked, AskTrash, Feed, Tables
<1>6. CASE l.screen = "organizations"
  BY <1>6 DEF Asked, Feed, Tables
<1>7. l.screen \in Screens
  BY DEF ListShape
<1> QED
  BY <1>1, <1>2, <1>3, <1>4, <1>5, <1>6, <1>7 DEF Screens

\* What the API would answer each page.
LEMMA FreshOfIs ==
  ASSUME NEW l \in ListShape
  PROVE  /\ Feed(l) => FreshOf(l) = Slice(l.search, l.filter, l.page, Batch)
         /\ l.screen \in Tables \union {"trash"} /\ ~Feed(l) =>
              FreshOf(l) = Slice(l.search, l.filter, l.page, l.limit)
         /\ l.screen = "organizations" => FreshOf(l) = Slice(Off, Off, 1, Cardinality(Items) + 1)
<1>1. ASSUME Feed(l) PROVE FreshOf(l) = Slice(l.search, l.filter, l.page, Batch)
  BY <1>1, AskedIs DEF FreshOf, Asking
<1>2. ASSUME l.screen \in Tables \union {"trash"}, ~Feed(l)
      PROVE  FreshOf(l) = Slice(l.search, l.filter, l.page, l.limit)
  BY <1>2, AskedIs DEF FreshOf, Asking
<1>3. ASSUME l.screen = "organizations" PROVE FreshOf(l) = Slice(Off, Off, 1, Cardinality(Items) + 1)
  BY <1>3, AskedIs DEF FreshOf, Asking, AskOrganizations
<1> QED
  BY <1>1, <1>2, <1>3

LEMMA FreshIs ==
  ASSUME ListsTyped
  PROVE  /\ Feed(list) => Fresh = Slice(list.search, list.filter, list.page, Batch)
         /\ list.screen \in Tables \union {"trash"} /\ ~Feed(list) =>
              Fresh = Slice(list.search, list.filter, list.page, list.limit)
         /\ list.screen = "organizations" => Fresh = Slice(Off, Off, 1, Cardinality(Items) + 1)
BY FreshOfIs DEF ListsTyped, Fresh

Answering(answer, ids, p, d) ==
  /\ answer.rows = PageOf(Listing(ids), p, d) /\ Ids(answer.rows) = OnPage(ids, p, d)
  /\ answer.pages = PageCount(Cardinality(ids), d)
  /\ answer.rows = <<>> <=> ~((p - 1) * d < Cardinality(ids))

\* What is shown of a page of a query.
LEMMA ShownIs ==
  ASSUME stored \in [Items -> Nat], NEW s, NEW f, NEW p \in Nat \ {0}, NEW d \in Nat \ {0}
  PROVE  Answering(Slice(s, f, p, d), Matching(s, f), p, d)
<1> DEFINE ids == Matching(s, f)
           n == Cardinality(ids)
           rows == PageOf(Listing(ids), p, d)
<1>1. ids \in SUBSET Items /\ n \in Nat
  BY MatchingFacts
<1> HIDE DEF ids
<1>2. Slice(s, f, p, d) = [rows |-> rows, pages |-> PageCount(n, d)]
  BY DEF Slice, SliceIn, PageCount, ids, Matching, Listing
<1>3. Listing(ids) \in Seq(Items \X Nat) /\ Len(Listing(ids)) = n
  BY <1>1, RowsFacts
<1>4. PageFits(Items \X Nat, Listing(ids), p, d)
  BY <1>3, PageFacts, Zenon
<1>5. rows \in Seq(Items \X Nat) /\ Len(rows) = PageLen(Listing(ids), p, d)
  BY <1>4 DEF PageFits
<1>6. PageLen(Listing(ids), p, d) = 0 <=> ~((p - 1) * d < n)
  <2>1. (p - 1) * d \in Nat /\ p * d \in Nat /\ p * d = (p - 1) * d + d
    OBVIOUS
  <2>2. PageStart(p, d) = (p - 1) * d /\ PageEnd(Listing(ids), p, d) = IF p * d < n THEN p * d ELSE n
    BY <1>3 DEF PageStart, PageEnd
  <2> QED
    BY <2>1, <2>2, <1>1 DEF PageLen
<1>7. rows = <<>> <=> ~((p - 1) * d < n)
  BY <1>5, <1>6
<1>8. Ids(rows) = OnPage(ids, p, d)
  BY <1>1, OnPageFacts
<1> QED
  BY <1>2, <1>7, <1>8 DEF ids, Answering
-----------------------------------------------------------------------------
(* From the invariant to the property, by kind of list. *)

\* Where rows match, their number is not zero.
LEMMA SomeMatch ==
  ASSUME NEW s, NEW f, NEW i \in Matching(s, f) PROVE 0 < Cardinality(Matching(s, f))
BY MatchingFacts, FS_EmptySet

LEMMA TableReaches ==
  ASSUME ListsInv, ListSettled, why = {}, ~list.phone, list.screen \in Tables \union {"trash"},
         NEW i \in Matches(list)
  PROVE  i \in Reach
<1> DEFINE ids == Matches(list)
           n == Cardinality(ids)
           p == list.page
           d == list.limit
           foot == Footer(list)
<1>1. list \in ListShape /\ stored \in [Items -> Nat] /\ p \in Nat \ {0} /\ d \in Nat \ {0}
  BY ListsAssumption DEF ListsInv, ListsTyped, ListShape
<1>2. ids \in SUBSET Items /\ n \in Nat /\ 0 < n
  BY MatchingFacts, SomeMatch DEF Matches
<1>3. ~Feed(list) /\ ~Scroll(list) /\ list.screen # "organizations"
  BY DEF Feed, Scroll, Tables
<1>4. list.shown = Slice(list.search, list.filter, p, d) /\ ~list.loading
  BY <1>3, FreshIs DEF ListSettled, ListsInv
<1>a. Answering(list.shown, ids, p, d)
  BY <1>1, <1>4, ShownIs, Zenon DEF Matches
<1>5. /\ Ids(list.shown.rows) = OnPage(ids, p, d)
      /\ list.shown.pages = PageCount(n, d)
      /\ list.shown.rows = <<>> <=> ~((p - 1) * d < n)
  BY <1>a DEF Answering
<1> HIDE DEF ids, n
<1>6. foot.there /\ foot.page = p /\ foot.last = PageCount(n, d)
  <2>1. CASE list.screen = "trash"
    <3>1. 0 < PageCount(n, d)
      BY <1>1, <1>2, MorePages DEF PageCount
    <3>2. PageCount(n, d) > 0
      BY <3>1, <1>1, <1>2, MorePages DEF PageCount
    <3> QED
      BY <3>2, <2>1, <1>4, <1>5 DEF Footer, TrashFooter
  <2>2. CASE list.screen \in Tables
    <3>1. (p - 1) * d < n
      <4>1. p = 1 \/ (p - 1) * d < n
        BY <2>2 DEF ListsInv, TurnedFits, ids, n
      <4>2. CASE p = 1
        BY <4>2, <1>1, <1>2
      <4> QED
        BY <4>1, <4>2
    <3>2. list.shown.rows # <<>>
      BY <3>1, <1>5
    <3>3. list.screen = "users" \/ list.screen = "owners" \/ list.screen = "assets" \/ list.screen = "services"
      BY <2>2 DEF Tables
    <3> QED
      BY <3>2, <3>3, <1>5 DEF Footer, UsersFooter, OwnersFooter, AssetsFooter, ServicesFooter
  <2> QED
    BY <2>1, <2>2
<1>7. Reach = OnPage(ids, p, d) \union
         {j \in ids : /\ foot.there
                      /\ \/ foot.page > 1 /\ \A r \in OnPage(ids, p, d) : j < r
                         \/ foot.page < foot.last /\ \A r \in OnPage(ids, p, d) : j > r}
  BY <1>3, <1>5, Zenon DEF Reach, Matches, ids
<1> HIDE DEF foot
<1>8. i \in ids
  BY DEF ids
<1> QED
  BY <1>1, <1>2, <1>6, <1>7, <1>8, Around DEF n

LEMMA OrganizationsReach ==
  ASSUME ListsInv, ListSettled, list.screen = "organizations", NEW i \in Matches(list)
  PROVE  i \in Reach
<1> DEFINE ids == Matches(list)
           n == Cardinality(ids)
           d == list.limit
           foot == Footer(list)
           pages == Max({1, (Len(Found(list)) + list.limit - 1) \div list.limit})
<1>1. list \in ListShape /\ stored \in [Items -> Nat] /\ list.page \in Nat \ {0} /\ d \in Nat \ {0}
  BY ListsAssumption DEF ListsInv, ListsTyped, ListShape
<1>2. ids \in SUBSET Items /\ IsFiniteSet(ids) /\ n \in Nat /\ 0 < n
  BY MatchingFacts, SomeMatch DEF Matches
<1>3. ~Feed(list) /\ ~Scroll(list)
  BY DEF Feed, Scroll
<1>4. Ids(list.shown.rows) = Matching(Off, Off)
  <2> DEFINE all == Matching(Off, Off)
             c == Cardinality(Items)
  <2>1. c \in Nat /\ all \in SUBSET Items /\ Cardinality(all) \in Nat /\ Cardinality(all) <= c
    BY ListsAssumption, MatchingFacts, FS_CardinalityType, FS_Subset
  <2>2. list.shown = Slice(Off, Off, 1, c + 1)
    BY FreshIs DEF ListSettled, ListsInv
  <2>3. Ids(list.shown.rows) = OnPage(all, 1, c + 1)
    <3>1. c + 1 \in Nat \ {0} /\ 1 \in Nat \ {0}
      BY <2>1
    <3>2. Answering(list.shown, all, 1, c + 1)
      BY <1>1, <2>2, <3>1, ShownIs, Zenon
    <3> QED
      BY <3>2 DEF Answering
  <2>4. ~(c + 1 < Cardinality(all))
    BY <2>1
  <2> HIDE DEF all, c
  <2>5. OnPage(all, 1, c + 1) = all
    BY <1>1, <2>1, <2>4, FirstPages
  <2> QED
    BY <2>3, <2>5 DEF all
<1>5. Found(list) = InOrder(ids)
  <2>1. Matching(Off, Off) = Present(stored)
    <3>1. Matching(Off, Off) = Present(stored) \intersect Items
      BY ListsAssumption DEF Matching, MatchingIn
    <3> QED
      BY <3>1 DEF Present
  <2> QED
    BY <1>4, <2>1 DEF Found, Matches, Matching, MatchingIn
<1> HIDE DEF ids, n
<1>6. Found(list) \in [1..n -> ids] /\ Len(Found(list)) = n /\ Found(list) # <<>>
  <2>1. InOrder(ids) \in [1..n -> ids]
    BY <1>2, ListsAssumption, InOrderFacts DEF n
  <2>2. Len(InOrder(ids)) = n
    BY <2>1, <1>2
  <2> QED
    BY <2>1, <2>2, <1>2, <1>5
<1>7. pages \in Nat \ {0} /\ PageCount(n, d) <= pages
  <2>1. PageCount(n, d) \in Nat
    BY <1>1, <1>2, MorePages DEF PageCount
  <2>2. pages = Max({1, PageCount(n, d)})
    BY <1>6 DEF PageCount
  <2>3. \E x \in {1, PageCount(n, d)} : \A y \in {1, PageCount(n, d)} : x >= y
    BY <2>1
  <2>4. pages \in {1, PageCount(n, d)} /\ \A y \in {1, PageCount(n, d)} : pages >= y
    BY <2>2, <2>3 DEF Max
  <2> QED
    BY <2>1, <2>4
<1> DEFINE p == IF list.page < pages THEN list.page ELSE pages
<1>8. foot.there /\ foot.page = p /\ foot.last = pages
  BY <1>6 DEF Footer, OrganizationsFooter
<1>9. p \in Nat \ {0}
  BY <1>1, <1>7
<1> HIDE DEF p, pages
<1>10. ToSet(PageOf(Found(list), p, d)) = OnPage(ids, p, d)
  BY <1>1, <1>2, <1>5, <1>9, OnPageFacts
<1>11. Reach = OnPage(ids, p, d) \union
         {j \in ids : /\ foot.there
                      /\ \/ foot.page > 1 /\ \A r \in OnPage(ids, p, d) : j < r
                         \/ foot.page < foot.last /\ \A r \in OnPage(ids, p, d) : j > r}
  BY <1>3, <1>8, <1>10, Zenon DEF Reach, Matches, ids
<1> HIDE DEF foot
<1>12. \/ i \in OnPage(ids, p, d)
       \/ p > 1 /\ \A r \in OnPage(ids, p, d) : i < r
       \/ p < PageCount(n, d) /\ \A r \in OnPage(ids, p, d) : i > r
  BY <1>1, <1>2, <1>9, Around DEF ids, n
<1>13. p < PageCount(n, d) => p < pages
  BY <1>1, <1>2, <1>7, <1>9, MorePages DEF PageCount
<1>14. i \in ids
  BY DEF ids
<1> QED
  BY <1>8, <1>11, <1>12, <1>13, <1>14
LEMMA FeedReaches ==
  ASSUME ListsInv, ListSettled, why = {}, Feed(list)
  PROVE  /\ Matches(list) \subseteq Reach
         /\ Cardinality(Ids(list.items)) = Len(list.items)
<1> DEFINE ids == Matches(list)
           n == Cardinality(ids)
           p == list.page
           m == p * Batch
<1>1. list \in ListShape /\ stored \in [Items -> Nat] /\ p \in Nat \ {0} /\ Batch \in Nat \ {0}
  BY ListsAssumption DEF ListsInv, ListsTyped, ListShape
<1>2. ids \in SUBSET Items /\ n \in Nat
  BY MatchingFacts DEF Matches
<1>3. list.shown = Slice(list.search, list.filter, p, Batch) /\ ~list.loading
  BY FreshIs DEF ListSettled, ListsInv
<1>4. Answering(list.shown, ids, p, Batch)
  BY <1>1, <1>3, ShownIs, Zenon DEF Matches
<1>5. m \in Nat \ {0}
  BY <1>1
<1>6. list.items = PageOf(Listing(ids), 1, m)
  <2>1. CASE p = 1
    <3>1. m = Batch
      BY <2>1, <1>1
    <3>2. list.items = list.shown.rows
      BY <2>1, <1>3 DEF ListsInv, GrownFits
    <3> QED
      BY <2>1, <3>1, <3>2, <1>4 DEF Answering
  <2>2. CASE p # 1
    BY <2>2, <1>3 DEF ListsInv, GrownFits, Grown
  <2> QED
    BY <2>1, <2>2
<1>7. Ids(list.items) = OnPage(ids, 1, m)
  BY <1>1, <1>2, <1>5, <1>6, OnPageFacts
<1>8. Cardinality(Ids(list.items)) = Len(list.items)
  BY <1>1, <1>2, <1>5, <1>6, FirstPages
<1>9. SUFFICES ASSUME NEW i \in ids PROVE i \in Reach
  BY <1>8
<1>10. 0 < n
  BY SomeMatch DEF Matches
<1>11. Reach = Ids(list.items) \union (IF More(list) THEN ids ELSE {})
  BY DEF Reach, Matches
<1>12. CASE More(list)
  BY <1>9, <1>11, <1>12
<1>13. CASE ~More(list)
  <2>1. list.items # <<>>
    <3>1. 1 \in Nat \ {0}
      OBVIOUS
    <3>2. Answering(Slice(list.search, list.filter, 1, m), ids, 1, m)
      BY <1>1, <1>5, <3>1, ShownIs, Zenon DEF Matches
    <3>3. list.items = <<>> <=> ~((1 - 1) * m < n)
      BY <3>2, <1>6 DEF Answering
    <3> HIDE DEF m, n
    <3> QED
      BY <3>3, <1>5, <1>10, <1>2
  <2>2. ~(p < list.shown.pages)
    BY <2>1, <1>13, <1>3 DEF More, MoreServices, MoreTrash
  <2>3. ~(m < n)
    BY <2>2, <1>1, <1>2, <1>4, MorePages DEF Answering, PageCount
  <2>4. OnPage(ids, 1, m) = ids
    BY <2>3, <1>1, <1>2, <1>5, FirstPages
  <2> QED
    BY <2>4, <1>7, <1>9, <1>11
<1> QED
  BY <1>12, <1>13

LEMMA ScrollReaches ==
  ASSUME ListsInv, ListSettled, why = {}, Scroll(list), NEW i \in Matches(list)
  PROVE  i \in Reach
<1> DEFINE ids == Matching(list.search, Off)
           n == Cardinality(ids)
           parts == list.parts
           L == Len(parts)
<1>1. /\ list \in ListShape /\ stored \in [Items -> Nat] /\ Batch \in Nat \ {0}
      /\ list.limit \in Nat \ {0} /\ parts \in Seq(Slices)
  BY ListsAssumption DEF ListsInv, ListsTyped, ListShape
<1>2. ids \in SUBSET Items /\ IsFiniteSet(ids) /\ n \in Nat
  BY MatchingFacts
<1>3. list.filter = Off /\ list.page = 1 /\ i \in ids /\ 0 < n
  BY SomeMatch DEF ListsInv, EndObserved, Matches
<1>4. list.shown = Slice(list.search, Off, 1, list.limit) /\ ~list.loading
  <2>1. ~Feed(list) /\ list.screen \in Tables
    BY DEF Feed, Scroll, Tables
  <2> QED
    BY <1>3, <2>1, FreshIs DEF ListSettled, ListsInv
<1>5. Sentinel(list)
  <2>1. 1 \in Nat \ {0}
    OBVIOUS
  <2>2. Answering(list.shown, ids, 1, list.limit)
    BY <1>1, <1>4, <2>1, ShownIs, Zenon
  <2>3. (1 - 1) * list.limit = 0
    BY <1>1
  <2>4. list.shown.rows # <<>>
    BY <1>3, <2>2, <2>3 DEF Answering
  <2> QED
    BY <1>4, <2>4 DEF Sentinel
<1>6. parts # <<>> /\ parts = Reloaded /\ ~HasNext(list)
  BY <1>5 DEF ListSettled, NoPages, ListsInv, EndObserved
<1>7. L \in Nat \ {0} /\ DOMAIN parts = 1..L /\ Last(parts) = parts[L]
  BY <1>1, <1>6 DEF Last
<1>8. \A j \in 1..L : Answering(parts[j], ids, j, Batch)
  <2>1. SUFFICES ASSUME NEW j \in 1..L PROVE Answering(parts[j], ids, j, Batch)
    OBVIOUS
  <2>2. parts[j] = Slice(list.search, Off, j, Batch)
    BY <1>6, <1>7 DEF Reloaded, Part
  <2>3. j \in Nat \ {0}
    BY <1>7
  <2> QED
    BY <1>1, <2>2, <2>3, ShownIs, Zenon
<1>9. Last(parts).pages = PageCount(n, Batch)
  BY <1>7, <1>8 DEF Answering
<1>10. ~(L < PageCount(n, Batch))
  BY <1>6, <1>9 DEF HasNext, NoPages
<1>11. ~(L * Batch < n)
  BY <1>1, <1>2, <1>7, <1>10, MorePages DEF PageCount
<1>12. PICK k \in 1..n : InOrder(ids)[k] = i
  BY <1>2, <1>3, ListsAssumption, InOrderFacts
<1> HIDE DEF ids, n, parts, L
<1> DEFINE j == PageCount(k, Batch)
<1>13. k \in Nat /\ 0 < k /\ k <= n
  BY <1>12, <1>2
<1>14. j \in Nat /\ ~(j * Batch < k)
  BY <1>1, <1>13, MorePages DEF PageCount
<1>15. 0 < j
  <2>1. 0 * Batch < k
    BY <1>1, <1>13
  <2> QED
    BY <1>1, <1>13, <2>1, MorePages DEF PageCount
<1>16. j <= L
  <2>1. L * Batch \in Nat
    BY <1>1, <1>7
  <2>2. ~(L * Batch < k)
    BY <1>11, <1>13, <1>2, <2>1
  <2>3. ~(L < j)
    BY <1>1, <1>7, <1>13, <2>2, MorePages DEF PageCount
  <2> HIDE DEF j
  <2> QED
    BY <2>3, <1>7, <1>14
<1>17. (j - 1) * Batch < k
  <2>1. j - 1 \in Nat /\ j - 1 < PageCount(k, Batch)
    BY <1>14, <1>15
  <2> QED
    BY <2>1, <1>1, <1>13, MorePages DEF PageCount
<1> HIDE DEF j
<1>18. j \in 1..L
  BY <1>7, <1>14, <1>15, <1>16
<1>19. i \in OnPage(ids, j, Batch)
  <2>1. PageStart(j, Batch) \in Nat /\ PageStart(j, Batch) < k
    BY <1>1, <1>14, <1>15, <1>17 DEF PageStart
  <2>2. j * Batch \in Nat /\ k <= j * Batch
    BY <1>1, <1>13, <1>14
  <2>3. Ends(ids, j, Batch) \in Nat /\ k <= Ends(ids, j, Batch)
    BY <2>2, <1>2, <1>13 DEF Ends, n
  <2>4. k \in (PageStart(j, Batch) + 1)..Ends(ids, j, Batch)
    BY <2>1, <2>3, <1>13
  <2> QED
    BY <2>4, <1>12 DEF OnPage
<1>20. i \in Ids(parts[j].rows)
  BY <1>8, <1>18, <1>19 DEF Answering
<1>21. Reach = UNION {Ids(parts[x].rows) : x \in DOMAIN parts}
  BY Zenon DEF Reach, Feed, Scroll, parts
<1> QED
  BY <1>7, <1>18, <1>20, <1>21

\* The property follows from the invariant.
LEMMA InvariantReaches == ListsInv => NothingOutOfReach
<1>1. SUFFICES ASSUME ListsInv, ListSettled, ~(list.phone /\ list.screen \in {"users", "owners"}), why = {}
               PROVE  /\ Matches(list) \subseteq Reach
                      /\ Feed(list) => Cardinality(Ids(list.items)) = Len(list.items)
  BY DEF NothingOutOfReach, Matches
<1>2. list.screen \in Screens /\ list.phone \in BOOLEAN /\ (list.screen = "organizations" => ~list.phone)
  BY <1>1 DEF ListsInv, ListsTyped, ListShape
<1>3. CASE Feed(list)
  BY <1>1, <1>3, FeedReaches
<1>4. CASE Scroll(list)
  BY <1>1, <1>4, ScrollReaches DEF Feed, Scroll
<1>5. CASE ~list.phone /\ list.screen # "organizations"
  BY <1>1, <1>2, <1>5, TableReaches DEF Screens, Tables, Feed
<1>6. CASE list.screen = "organizations"
  BY <1>1, <1>6, OrganizationsReach DEF Feed
<1> QED
  BY <1>1, <1>2, <1>3, <1>4, <1>5, <1>6 DEF Screens, Feed, Scroll
-----------------------------------------------------------------------------
(* The changes of a page. *)

\* A page is turned by its buttons, which a phone has only for organisations.
LEMMA FooterFacts ==
  ASSUME ListsTyped, Footer(list).there
  PROVE  /\ ~list.phone /\ ~Feed(list) /\ ~Scroll(list)
         /\ Footer(list).last \in Nat /\ Footer(list).page \in Nat \ {0}
         /\ Footer(list).page <= list.page
         /\ list.screen # "organizations" =>
              Footer(list).page = list.page /\ Footer(list).last = list.shown.pages
<1> DEFINE foot == Footer(list)
<1>1. /\ list \in ListShape /\ list.screen \in Screens /\ list.page \in Nat \ {0}
      /\ list.shown.pages \in Nat /\ list.limit \in Nat \ {0}
      /\ list.screen = "organizations" => ~list.phone
  BY ListsAssumption DEF ListsTyped, ListShape, Slices
<1>2. CASE list.screen \in Tables \union {"trash"}
  <2>1. \/ list.screen = "users" \/ list.screen = "owners" \/ list.screen = "assets"
        \/ list.screen = "services" \/ list.screen = "trash"
    BY <1>2 DEF Tables
  <2>2. ~list.phone /\ foot.page = list.page /\ foot.last = list.shown.pages
    BY <2>1 DEF Footer, UsersFooter, OwnersFooter, AssetsFooter, ServicesFooter, TrashFooter
  <2> QED
    BY <1>1, <2>2 DEF Feed, Scroll
<1>3. CASE list.screen = "organizations"
  <2> DEFINE ids == Ids(list.shown.rows) \intersect Match[list.search] \intersect Match[list.filter]
             q == (Len(Found(list)) + list.limit - 1) \div list.limit
             pages == Max({1, q})
  <2>1. ids \in SUBSET Nat /\ IsFiniteSet(ids)
    <3>1. ids \in SUBSET Items
      BY <1>1, ListsAssumption DEF ListShape
    <3> QED
      BY <3>1, ListsAssumption, FS_Subset
  <2>2. Len(Found(list)) \in Nat
    BY <2>1, InOrderFacts DEF Found
  <2>3. q \in Nat
    BY <1>1, <2>2, MorePages
  <2>4. pages \in Nat \ {0}
    <3>1. \E x \in {1, q} : \A y \in {1, q} : x >= y
      BY <2>3
    <3>2. pages \in {1, q} /\ \A y \in {1, q} : pages >= y
      BY <3>1 DEF Max
    <3> QED
      BY <3>2, <2>3
  <2>5. foot.page = IF list.page < pages THEN list.page ELSE pages
    BY <1>3 DEF Footer, OrganizationsFooter
  <2>6. foot.last = pages
    BY <1>3 DEF Footer, OrganizationsFooter
  <2> HIDE DEF pages, foot
  <2> QED
    BY <1>1, <1>3, <2>4, <2>5, <2>6 DEF Feed, Scroll, foot
<1> QED
  BY <1>1, <1>2, <1>3 DEF Screens, Tables

\* What each change makes of the page before its handler and its effects.
TypedTo(l)  == \E v \in Filters : l = [list EXCEPT !.typed = v]
SearchTo(l) == list.search # list.typed /\ l = [list EXCEPT !.search = list.typed]
FilterTo(l) ==
  /\ ~Scroll(list) /\ list.screen # "organizations"
  /\ \E f \in Filters : f # list.filter /\ l = [list EXCEPT !.filter = f]
LimitTo(l)  == Footer(list).there /\ \E n \in Limits : l = [list EXCEPT !.limit = n]
BackTo(l)   == Footer(list).there /\ Footer(list).page > 1 /\ l = [list EXCEPT !.page = list.page - 1]
NextTo(l)   ==
  /\ Footer(list).there /\ Footer(list).page < Footer(list).last
  /\ l = [list EXCEPT !.page = IF list.page < Footer(list).last THEN list.page + 1 ELSE Footer(list).last]
MoreTo(l)   == Feed(list) /\ More(list) /\ l = [list EXCEPT !.page = list.page + 1]
\* Dates picked again are a filter that is what it was.
DatesTo(l)  == Feed(list) /\ l = list
LanguageTo(l) == list.screen = "services" /\ \E g \in Languages : l = [list EXCEPT !.language = g]
Moves(l, change) ==
  \/ change = "typed" /\ TypedTo(l)
  \/ change = "search" /\ SearchTo(l)
  \/ change = "filter" /\ (FilterTo(l) \/ DatesTo(l))
  \/ change = "language" /\ LanguageTo(l)
  \/ change = "limit" /\ LimitTo(l)
  \/ change = "page" /\ BackTo(l)
  \/ change = "next" /\ (NextTo(l) \/ MoreTo(l))

SameButQuery(l) ==
  /\ l.screen = list.screen /\ l.phone = list.phone /\ l.shown = list.shown
  /\ l.loading = list.loading /\ l.items = list.items /\ l.parts = list.parts

LEMMA MovesFit ==
  ASSUME ListsTyped, NEW l, NEW change, Moves(l, change)
  PROVE  l \in ListShape /\ SameButQuery(l)
<1>1. list \in ListShape
  BY DEF ListsTyped
<1>2. list.page \in Nat \ {0} /\ list.typed \in Filters
  BY <1>1 DEF ListShape
<1>3. CASE TypedTo(l)
  BY <1>1, <1>3 DEF TypedTo, ListShape, SameButQuery
<1>4. CASE SearchTo(l)
  BY <1>1, <1>2, <1>4 DEF SearchTo, ListShape, SameButQuery
<1>5. CASE FilterTo(l)
  BY <1>1, <1>5 DEF FilterTo, ListShape, SameButQuery
<1>6. CASE LimitTo(l)
  BY <1>1, <1>6 DEF LimitTo, ListShape, SameButQuery
<1>7. CASE BackTo(l)
  <2>1. list.page - 1 \in Nat \ {0}
    BY <1>2, <1>7, FooterFacts DEF BackTo
  <2> QED
    BY <1>1, <1>7, <2>1 DEF BackTo, ListShape, SameButQuery
<1>8. CASE NextTo(l)
  <2> DEFINE p == IF list.page < Footer(list).last THEN list.page + 1 ELSE Footer(list).last
  <2>1. p \in Nat \ {0}
    BY <1>2, <1>8, FooterFacts DEF NextTo
  <2>2. l = [list EXCEPT !.page = p]
    BY <1>8 DEF NextTo
  <2> HIDE DEF p
  <2> QED
    BY <1>1, <2>1, <2>2 DEF ListShape, SameButQuery
<1>9. CASE MoreTo(l)
  <2>1. list.page + 1 \in Nat \ {0}
    BY <1>2
  <2> QED
    BY <1>1, <1>9, <2>1 DEF MoreTo, ListShape, SameButQuery
<1>10. CASE DatesTo(l)
  BY <1>1, <1>10 DEF DatesTo, SameButQuery
<1>11. CASE LanguageTo(l)
  BY <1>1, <1>11 DEF LanguageTo, ListShape, SameButQuery
<1> QED
  BY <1>3, <1>4, <1>5, <1>6, <1>7, <1>8, <1>9, <1>10, <1>11 DEF Moves
\* What a change leaves, field by field.
ToFirst(l, change) == change \in Handlers(l) \/ change \in Effects(l)
Kept(l, change) == IF change \in Effects(l) /\ Feed(l) THEN <<>> ELSE l.items
NoneExcused(change) ==
  /\ why = {}
  /\ change = "next" => list.typed = list.search /\ list.shown = Fresh
  /\ Feed(list') => change # "language"
  /\ Feed(list') /\ change \in Effects(list') => Asked(list') # Asked(list)
  /\ Feed(list') /\ Asked(list') # Asked(list) /\ ~list'.loading => list'.shown = FreshOf(list')
Rendered(l, change) ==
  /\ list' \in ListShape /\ stored' = stored /\ earlier' = earlier
  /\ list'.screen = l.screen /\ list'.phone = l.phone /\ list'.language = l.language
  /\ list'.limit = l.limit
  /\ list'.typed = l.typed /\ list'.search = l.search /\ list'.filter = l.filter
  /\ list'.page = (IF ToFirst(l, change) THEN 1 ELSE l.page)
  /\ Asked(list') = Asked(list) =>
       list'.shown = l.shown /\ list'.loading = l.loading /\ list'.items = Kept(l, change)
  /\ Asked(list') # Asked(list) =>
       list'.items = (IF list'.loading \/ ~Feed(l) THEN Kept(l, change)
                      ELSE IF list'.page = 1 THEN list'.shown.rows
                      ELSE Kept(l, change) \o list'.shown.rows)
  /\ why' = {} => /\ Scroll(list') /\ HasNext(list') /\ Sentinel(list') => list'.observed
                  /\ (Asked(list') # Asked(list) /\ list'.page = 1) \/ NoneExcused(change)

SameQuestion(a, b) ==
  /\ a.screen = b.screen /\ a.phone = b.phone /\ a.language = b.language /\ a.limit = b.limit
  /\ a.search = b.search /\ a.filter = b.filter /\ a.page = b.page
LEMMA AskedSame ==
  ASSUME NEW a \in ListShape, NEW b \in ListShape, SameQuestion(a, b) PROVE Asked(a) = Asked(b)
<1>1. Feed(a) = Feed(b)
  BY DEF Feed, SameQuestion
<1>2. Asking(a, Batch) = Asking(b, Batch) /\ Asking(a, a.limit) = Asking(b, b.limit)
  BY DEF Asking, SameQuestion
<1>3. a.screen = b.screen /\ a.screen \in Screens
  BY DEF ListShape, SameQuestion
<1> QED
  BY <1>1, <1>2, <1>3, AskedIs DEF Screens, Tables

FirstOf(x, i) == [x EXCEPT !.page = 1, !.items = i]
LikeFirst(y, x, i) ==
  /\ y \in ListShape /\ y.page = 1 /\ y.items = i /\ y.observed = x.observed
  /\ y.screen = x.screen /\ y.phone = x.phone /\ y.language = x.language
  /\ y.limit = x.limit /\ y.typed = x.typed
  /\ y.search = x.search /\ y.filter = x.filter /\ y.shown = x.shown
  /\ y.loading = x.loading /\ y.parts = x.parts
LEMMA OnFirst ==
  ASSUME NEW x \in ListShape, NEW i \in Seq(Items \X Nat) PROVE LikeFirst(FirstOf(x, i), x, i)
<1> DEFINE y == FirstOf(x, i)
<1> DEFINE first == [x EXCEPT !.page = 1]
<1>1. 1 \in Nat \ {0}
  OBVIOUS
<1>2. first \in ListShape /\ first.page = 1
  BY <1>1 DEF ListShape
<1>3. y = [first EXCEPT !.items = i]
  BY DEF ListShape, FirstOf
<1>4. y \in ListShape
  <2> HIDE DEF first, y
  <2> QED
    BY <1>2, <1>3 DEF ListShape
<1> QED
  BY <1>4 DEF ListShape, FirstOf, LikeFirst

\* What is kept are answers, and parts of a list.
LEMMA KeptTyped ==
  ASSUME ListsTyped
  PROVE  /\ \A l \in ListShape : KeptAnswers(Asked(l)) \subseteq Slices
         /\ \A s : KeptParts(s) \subseteq Seq(Slices)
<1>1. Pasts \subseteq [Items -> Nat] /\ Batch \in Nat \ {0} /\ Limits \subseteq Nat \ {0}
  BY ListsAssumption DEF ListsTyped, Pasts
<1>2. ASSUME NEW l \in ListShape PROVE KeptAnswers(Asked(l)) \subseteq Slices
  <2> DEFINE q == Asked(l)
  <2>1. q.page \in Nat \ {0} /\ q.size \in Nat \ {0}
    <3>1. Cardinality(Items) + 1 \in Nat \ {0} /\ 1 \in Nat \ {0}
      BY ListsAssumption, FS_CardinalityType
    <3>2. l.page \in Nat \ {0} /\ l.limit \in Nat \ {0} /\ l.screen \in Screens
      BY <1>1 DEF ListShape
    <3>3. CASE Feed(l)
      BY <1>1, <3>2, <3>3, AskedIs DEF Asking
    <3>4. CASE l.screen \in Tables \union {"trash"} /\ ~Feed(l)
      BY <3>2, <3>4, AskedIs DEF Asking
    <3>5. CASE l.screen = "organizations"
      <4>1. q = AskOrganizations
        BY <3>5, AskedIs
      <4>2. q.page = 1 /\ q.size = Cardinality(Items) + 1
        BY <4>1 DEF AskOrganizations, Asking
      <4> QED
        BY <3>1, <4>2
    <3> QED
      BY <3>2, <3>3, <3>4, <3>5 DEF Screens, Tables
  <2> HIDE DEF q
  <2>2. \A rows \in Pasts : SliceIn(rows, q.search, q.filter, q.page, q.size) \in Slices
    BY <1>1, <2>1, SliceInTyped
  <2> QED
    BY <2>2 DEF KeptAnswers, q
<1>3. ASSUME NEW s, NEW ps \in KeptParts(s) PROVE ps \in Seq(Slices)
  <2>1. CASE ps = NoPages
    BY <2>1 DEF NoPages
  <2>2. CASE ps # NoPages
    <3>1. PICK n \in 1..Cardinality(Items) : \E h \in [1..n -> Pasts] :
            ps = [k \in DOMAIN h |-> SliceIn(h[k], s, Off, k, Batch)]
      BY <1>3, <2>2, Zenon DEF KeptParts
    <3>a. PICK h \in [1..n -> Pasts] : ps = [k \in DOMAIN h |-> SliceIn(h[k], s, Off, k, Batch)]
      BY <3>1
    <3>2. n \in Nat
      BY ListsAssumption, FS_CardinalityType
    <3>3. \A k \in 1..n : SliceIn(h[k], s, Off, k, Batch) \in Slices
      <4>1. SUFFICES ASSUME NEW k \in 1..n PROVE SliceIn(h[k], s, Off, k, Batch) \in Slices
        OBVIOUS
      <4>2. k \in Nat \ {0} /\ h[k] \in [Items -> Nat]
        BY <1>1, <3>2
      <4> QED
        BY <1>1, <4>2, SliceInTyped
    <3>4. ps = [k \in 1..n |-> SliceIn(h[k], s, Off, k, Batch)]
      BY <3>a
    <3>5. ps \in [1..n -> Slices]
      BY <3>3, <3>4
    <3> QED
      BY <3>2, <3>5
  <2> QED
    BY <2>1, <2>2
<1> QED
  BY <1>2, <1>3

\* What no excuse means.
LEMMA ExcusesSay ==
  ASSUME NEW l, NEW change, Excuses(l, change) = {}
  PROVE  /\ change = "next" => list.typed = list.search /\ list.shown = Fresh
         /\ Feed(l) => change # "language"
         /\ Feed(l) /\ change \in Effects(l) => Asked(l) # Asked(list)
         /\ Feed(l) /\ Asked(l) # Asked(list) /\ ~l.loading => l.shown = FreshOf(l)
<1> DEFINE Holds(e) ==
     CASE e = "typing"   -> change = "next" /\ list.typed # list.search
       [] e = "left"     -> change = "next" /\ list.shown # Fresh
       [] e = "dates"    -> Feed(l) /\ change \in Effects(l) /\ Asked(l) = Asked(list)
       [] e = "language" -> Feed(l) /\ change = "language"
       [] e = "kept"     -> Feed(l) /\ Asked(l) # Asked(list) /\ ~l.loading /\ l.shown # FreshOf(l)
<1>1. Excuses(l, change) = {e \in {"typing", "left", "dates", "language", "kept"} : Holds(e)}
  BY DEF Excuses
<1>2. ~Holds("typing") /\ ~Holds("left") /\ ~Holds("dates") /\ ~Holds("language") /\ ~Holds("kept")
  <2> HIDE DEF Holds
  <2> QED
    BY <1>1
<1>3. Holds("typing") <=> change = "next" /\ list.typed # list.search
  OBVIOUS
<1>4. Holds("left") <=> change = "next" /\ list.shown # Fresh
  OBVIOUS
<1>5. Holds("dates") <=> Feed(l) /\ change \in Effects(l) /\ Asked(l) = Asked(list)
  OBVIOUS
<1>6. Holds("language") <=> Feed(l) /\ change = "language"
  OBVIOUS
<1>7. Holds("kept") <=> Feed(l) /\ Asked(l) # Asked(list) /\ ~l.loading /\ l.shown # FreshOf(l)
  OBVIOUS
<1> QED
  BY <1>2, <1>3, <1>4, <1>5, <1>6, <1>7

\* The page after its handler and its effects.
Settles(x, l, change) ==
  /\ x \in ListShape
  /\ x.screen = l.screen /\ x.phone = l.phone /\ x.language = l.language
  /\ x.limit = l.limit /\ x.typed = l.typed
  /\ x.search = l.search /\ x.filter = l.filter /\ x.shown = l.shown /\ x.loading = l.loading
  /\ x.parts = l.parts /\ x.observed = l.observed
  /\ x.page = (IF ToFirst(l, change) THEN 1 ELSE l.page) /\ x.items = Kept(l, change)

LEMMA SettledIs ==
  ASSUME NEW l \in ListShape, NEW change PROVE Settles(Followed(l, change), l, change)
<1> DEFINE handled == IF change \in Handlers(l) THEN [l EXCEPT !.page = 1] ELSE l
           settled == Followed(l, change)
<1>1. settled = IF change \notin Effects(l) THEN handled
                ELSE [handled EXCEPT !.page = 1, !.items = IF Feed(l) THEN <<>> ELSE @]
  BY DEF Followed
<1>2. handled \in ListShape /\ handled = [l EXCEPT !.page = IF change \in Handlers(l) THEN 1 ELSE l.page]
  <2> DEFINE p == IF change \in Handlers(l) THEN 1 ELSE l.page
  <2>1. p \in Nat \ {0} /\ handled = [l EXCEPT !.page = p]
    BY DEF ListShape
  <2> HIDE DEF p
  <2>2. [l EXCEPT !.page = p] \in ListShape
    BY <2>1 DEF ListShape
  <2> QED
    BY <2>1, <2>2 DEF p
<1> HIDE DEF settled
<1>3. CASE change \notin Effects(l)
  <2>1. settled = handled
    BY <1>1, <1>3
  <2> HIDE DEF handled
  <2> QED
    BY <1>3, <2>1, <1>2 DEF ListShape, ToFirst, Kept, Settles, settled
<1>4. CASE change \in Effects(l)
  <2> DEFINE i == IF Feed(l) THEN <<>> ELSE handled.items
  <2>1. settled = FirstOf(handled, i)
    BY <1>1, <1>4 DEF FirstOf
  <2>2. i = Kept(l, change) /\ i \in Seq(Items \X Nat)
    BY <1>2, <1>4 DEF ListShape, Kept
  <2>3. handled \in ListShape
    BY <1>2
  <2>4. /\ handled.screen = l.screen /\ handled.phone = l.phone /\ handled.language = l.language
        /\ handled.limit = l.limit
        /\ handled.typed = l.typed /\ handled.search = l.search /\ handled.filter = l.filter
        /\ handled.shown = l.shown /\ handled.loading = l.loading
        /\ handled.parts = l.parts /\ handled.observed = l.observed
    BY <1>2 DEF ListShape
  <2> HIDE DEF handled, i
  <2>5. LikeFirst(settled, handled, i)
    BY <2>1, <2>2, <2>3, OnFirst, Zenon
  <2>6. ToFirst(l, change)
    BY <1>4 DEF ToFirst
  <2> QED
    BY <1>4, <2>2, <2>4, <2>5, <2>6 DEF LikeFirst, Settles, settled
<1> QED
  BY <1>3, <1>4

\* The page once it has, or waits for, an answer to what it asks.
AskedOf(x, y) ==
  /\ x \in ListShape /\ SameQuestion(x, y) /\ x.typed = y.typed /\ x.parts = y.parts
LEMMA AnswersAre ==
  ASSUME ListsTyped, NEW y \in ListShape, NEW x \in WithAnswer(y)
  PROVE  /\ AskedOf(x, y)
         /\ x.items = (IF x.loading \/ ~Feed(y) THEN y.items
                       ELSE IF y.page = 1 THEN x.shown.rows ELSE y.items \o x.shown.rows)
<1>1. Awaited \in Slices
  BY DEF Awaited, Slices
<1>2. CASE x = [y EXCEPT !.shown = Awaited, !.loading = TRUE]
  BY <1>1, <1>2 DEF ListShape, AskedOf, SameQuestion
<1>3. CASE x # [y EXCEPT !.shown = Awaited, !.loading = TRUE]
  <2>1. PICK a \in KeptAnswers(Asked(y)) :
          x = [y EXCEPT !.shown = a, !.loading = FALSE, !.items = Grow(y, a)]
    BY <1>3 DEF WithAnswer
  <2>2. a \in Slices
    BY KeptTyped
  <2> DEFINE i == Grow(y, a)
             one == [y EXCEPT !.shown = a]
             two == [one EXCEPT !.loading = FALSE]
  <2>3. y.items \in Seq(Items \X Nat) /\ a.rows \in Seq(Items \X Nat)
    BY <2>2 DEF ListShape, Slices
  <2>4. i = (IF ~Feed(y) THEN y.items ELSE IF y.page = 1 THEN a.rows ELSE y.items \o a.rows)
    BY DEF Grow
  <2>5. i \in Seq(Items \X Nat)
    BY <2>3, <2>4, ConcatProperties
  <2> HIDE DEF i
  <2>6. x = [two EXCEPT !.items = i]
    BY <2>1 DEF ListShape, i
  <2>7. one \in ListShape
    BY <2>2 DEF ListShape
  <2>8. two \in ListShape
    <3> HIDE DEF one
    <3> QED
      BY <2>7 DEF ListShape
  <2>9. /\ two.screen = y.screen /\ two.phone = y.phone /\ two.language = y.language
        /\ two.limit = y.limit /\ two.typed = y.typed /\ two.search = y.search
        /\ two.filter = y.filter /\ two.page = y.page /\ two.parts = y.parts
        /\ two.shown = a /\ two.loading = FALSE
    BY DEF ListShape
  <2> HIDE DEF two
  <2>10. /\ x \in ListShape /\ x.items = i /\ x.shown = a /\ x.loading = FALSE
         /\ x.screen = y.screen /\ x.phone = y.phone /\ x.language = y.language
         /\ x.limit = y.limit /\ x.typed = y.typed /\ x.search = y.search
         /\ x.filter = y.filter /\ x.page = y.page /\ x.parts = y.parts
    BY <2>5, <2>6, <2>8, <2>9 DEF ListShape
  <2> QED
    BY <2>4, <2>10 DEF AskedOf, SameQuestion
<1> QED
  BY <1>2, <1>3

LEMMA RenderIs ==
  ASSUME ListsTyped, NEW l \in ListShape, SameButQuery(l), NEW change, Render(l, change)
  PROVE  Rendered(l, change)
<1> DEFINE settled == Followed(l, change)
           other == Asked(settled) # Asked(list)
<1>1. PICK asked \in (IF other THEN WithAnswer(settled) ELSE {settled}),
           parts \in (IF Scroll(l) /\ l.search # list.search THEN KeptParts(l.search) ELSE {l.parts}) :
         LET new == [asked EXCEPT !.parts = parts]
         IN /\ list' = [new EXCEPT !.observed = Watching(new, list)]
            /\ why' = (IF other /\ new.page = 1 THEN {} ELSE why \union Excuses(new, change))
                        \union Unwatched(list')
            /\ UNCHANGED <<stored, earlier>>
  BY Zenon DEF Render
<1> DEFINE new == [asked EXCEPT !.parts = parts]
<1>2. Settles(settled, l, change)
  BY SettledIs
<1>3. parts \in Seq(Slices)
  BY KeptTyped DEF ListShape
<1>4. /\ AskedOf(asked, settled)
      /\ ~other => asked = settled
      /\ other => asked.items = (IF asked.loading \/ ~Feed(settled) THEN settled.items
                       ELSE IF settled.page = 1 THEN asked.shown.rows
                       ELSE settled.items \o asked.shown.rows)
  <2>1. settled \in ListShape
    BY <1>2 DEF Settles
  <2> HIDE DEF settled
  <2>2. CASE other
    BY <1>1, <2>1, <2>2, AnswersAre
  <2>3. CASE ~other
    <3>1. asked = settled
      BY <1>1, <2>3
    <3> QED
      BY <2>1, <2>3, <3>1 DEF AskedOf, SameQuestion
  <2> QED
    BY <2>2, <2>3
<1>5. /\ new \in ListShape /\ SameQuestion(new, asked) /\ new.typed = asked.typed
      /\ new.items = asked.items /\ new.shown = asked.shown /\ new.loading = asked.loading
  BY <1>3, <1>4 DEF ListShape, SameQuestion, AskedOf
<1>6. /\ list' = [new EXCEPT !.observed = Watching(new, list)]
      /\ why' = (IF other /\ new.page = 1 THEN {} ELSE why \union Excuses(new, change))
                  \union Unwatched(list')
      /\ stored' = stored /\ earlier' = earlier
  BY <1>1
<1> HIDE DEF new, settled
<1>7. Watching(new, list) \in BOOLEAN
  BY DEF Watching, Sentinel
<1>8. /\ list' \in ListShape /\ SameQuestion(list', new) /\ list'.typed = new.typed
      /\ list'.items = new.items /\ list'.shown = new.shown /\ list'.loading = new.loading
  BY <1>5, <1>6, <1>7 DEF ListShape, SameQuestion
<1>9. Asked(list') = Asked(settled) /\ Asked(new) = Asked(settled)
  <2>1. SameQuestion(list', settled) /\ SameQuestion(new, settled)
    BY <1>4, <1>5, <1>8 DEF SameQuestion, AskedOf
  <2> QED
    BY <2>1, <1>2, <1>5, <1>8, AskedSame DEF Settles
<1>10. other <=> Asked(list') # Asked(list)
  BY <1>9
<1> HIDE DEF other
<1>11. /\ list'.screen = l.screen /\ list'.phone = l.phone /\ list'.language = l.language
       /\ list'.limit = l.limit /\ list'.typed = l.typed
       /\ list'.search = l.search /\ list'.filter = l.filter
       /\ list'.page = (IF ToFirst(l, change) THEN 1 ELSE l.page) /\ new.page = list'.page
       /\ settled.page = list'.page /\ settled.items = Kept(l, change)
       /\ settled.shown = l.shown /\ settled.loading = l.loading /\ Feed(settled) = Feed(l)
  BY <1>2, <1>4, <1>5, <1>8 DEF SameQuestion, AskedOf, Settles, Feed
<1>12. ASSUME Asked(list') = Asked(list)
       PROVE  list'.shown = l.shown /\ list'.loading = l.loading /\ list'.items = Kept(l, change)
  BY <1>4, <1>5, <1>8, <1>10, <1>11, <1>12
<1>13. ASSUME Asked(list') # Asked(list)
       PROVE  list'.items = (IF list'.loading \/ ~Feed(l) THEN Kept(l, change)
                      ELSE IF list'.page = 1 THEN list'.shown.rows
                      ELSE Kept(l, change) \o list'.shown.rows)
  BY <1>4, <1>5, <1>8, <1>10, <1>11, <1>13
<1>14. ASSUME why' = {}
       PROVE  /\ Scroll(list') /\ HasNext(list') /\ Sentinel(list') => list'.observed
              /\ (Asked(list') # Asked(list) /\ list'.page = 1) \/ NoneExcused(change)
  <2>1. Unwatched(list') = {}
    BY <1>6, <1>14
  <2>2. Scroll(list') /\ HasNext(list') /\ Sentinel(list') => list'.observed
    BY <2>1 DEF Unwatched
  <2>3. ASSUME ~(Asked(list') # Asked(list) /\ list'.page = 1) PROVE NoneExcused(change)
    <3>1. why = {} /\ Excuses(new, change) = {}
      BY <1>6, <1>10, <1>11, <1>14, <2>3
    <3>2. /\ Feed(new) = Feed(list') /\ Effects(new) = Effects(list')
      BY <1>8 DEF SameQuestion, Feed, Effects
    <3>3. FreshOf(new) = FreshOf(list')
      BY <1>9 DEF FreshOf
    <3> QED
      BY <1>8, <1>9, <3>1, <3>2, <3>3, ExcusesSay DEF NoneExcused
  <2> QED
    BY <2>2, <2>3
<1> QED
  BY <1>6, <1>8, <1>11, <1>12, <1>13, <1>14 DEF Rendered
\* A change that stays on a later page, or turns to one, adds no excuse when there is none.
LEMMA NoExcuse ==
  ASSUME NEW l, NEW change, Rendered(l, change), list'.page # 1, why' = {}
  PROVE  /\ ~ToFirst(l, change) /\ list'.page = l.page /\ why = {} /\ NoneExcused(change)
         /\ change = "next" => list.typed = list.search /\ list.shown = Fresh
BY DEF Rendered, NoneExcused

\* Rows do not change with the page.
LEMMA MatchesAfter ==
  ASSUME NEW l, NEW change, Rendered(l, change)
  PROVE  Matches(list)' = Matches(l)
BY DEF Rendered, Matches, Matching, MatchingIn, Present

\* Which handlers and effects of a table lead to its first page.
LEMMA TableToFirst ==
  ASSUME NEW l, ~l.phone, l.screen \in Tables
  PROVE  /\ ToFirst(l, "filter") /\ ToFirst(l, "limit")
         /\ l.screen \in {"users", "owners"} => ToFirst(l, "typed")
         /\ l.screen \in {"assets", "services"} => ToFirst(l, "search")
<1>1. ~Feed(l)
  BY DEF Feed
<1>2. CASE l.screen = "users"
  BY <1>1, <1>2 DEF ToFirst, Handlers, UsersHandlers
<1>3. CASE l.screen = "owners"
  BY <1>1, <1>3 DEF ToFirst, Handlers, OwnersHandlers
<1>4. CASE l.screen = "assets"
  BY <1>1, <1>4 DEF ToFirst, Effects, AssetsEffect
<1>5. CASE l.screen = "services"
  BY <1>1, <1>5 DEF ToFirst, Effects, ServicesEffect
<1> QED
  BY <1>2, <1>3, <1>4, <1>5 DEF Tables

LEMMA TurnedAfter ==
  ASSUME ListsInv, NEW l \in ListShape, NEW change, Moves(l, change), SameButQuery(l), Rendered(l, change)
  PROVE  TurnedFits'
<1>1. SUFFICES ASSUME ~list'.phone, list'.screen \in Tables, why' = {}, list'.page # 1
               PROVE  (list'.page - 1) * list'.limit < Cardinality(Matches(list)')
  BY DEF TurnedFits
<1>2. Matches(list)' = Matches(l)
  BY MatchesAfter
<1>3. list'.limit = l.limit /\ l.screen = list.screen /\ l.phone = list.phone
  BY DEF Rendered, SameButQuery
<1>4. ~list.phone /\ list.screen \in Tables /\ ~l.phone /\ l.screen \in Tables
  BY <1>1, <1>3 DEF Rendered
<1>5. /\ ~ToFirst(l, change) /\ list'.page = l.page /\ why = {}
      /\ change = "next" => list.typed = list.search /\ list.shown = Fresh
  BY <1>1, NoExcuse
<1>6. list \in ListShape /\ list.page \in Nat \ {0} /\ list.limit \in Nat \ {0} /\ stored \in [Items -> Nat]
  BY ListsAssumption DEF ListsInv, ListsTyped, ListShape
<1>7. list.page = 1 \/ (list.page - 1) * list.limit < Cardinality(Matches(list))
  BY <1>4, <1>5 DEF ListsInv, TurnedFits
<1>8. Cardinality(Matches(list)) \in Nat
  BY MatchingFacts DEF Matches
<1>9. change # "filter" /\ change # "limit"
  BY <1>4, <1>5, TableToFirst
<1>10. CASE change = "typed" /\ TypedTo(l)
  <2>1. Matches(l) = Matches(list) /\ l.page = list.page /\ l.limit = list.limit
    BY <1>6, <1>10 DEF TypedTo, Matches, ListShape
  <2> QED
    BY <1>1, <1>2, <1>3, <1>5, <1>7, <2>1
<1>11. CASE change = "search" /\ SearchTo(l)
  <2>1. list.screen \in {"users", "owners"}
    BY <1>3, <1>4, <1>5, <1>11, TableToFirst DEF Tables
  <2>2. list.page = 1
    BY <2>1, <1>4, <1>5, <1>11 DEF ListsInv, TypedFirst, SearchTo
  <2>3. l.page = list.page
    BY <1>6, <1>11 DEF SearchTo, ListShape
  <2> QED
    BY <2>2, <2>3, <1>1, <1>5
<1>12. CASE change = "page" /\ BackTo(l)
  <2>1. Matches(l) = Matches(list) /\ l.page = list.page - 1 /\ l.limit = list.limit
    BY <1>6, <1>12 DEF BackTo, Matches, ListShape
  <2>2. list.page # 1
    BY <1>6, <1>12, FooterFacts DEF BackTo, ListsInv
  <2>3. (list.page - 1) * list.limit = (list.page - 2) * list.limit + list.limit
    BY <1>6
  <2>4. list.page - 2 \in Nat /\ (list.page - 2) * list.limit \in Nat
    BY <1>6, <2>2
  <2>5. (list.page - 1 - 1) * list.limit = (list.page - 2) * list.limit
    BY <1>6
  <2> QED
    BY <1>2, <1>3, <1>5, <1>6, <1>7, <1>8, <2>1, <2>2, <2>3, <2>4, <2>5
<1>13. CASE change = "next" /\ NextTo(l)
  <2>1. Footer(list).page = list.page /\ Footer(list).last = list.shown.pages
    BY <1>4, <1>13, FooterFacts DEF NextTo, ListsInv, Tables
  <2>2. list.page < list.shown.pages /\ l = [list EXCEPT !.page = list.page + 1]
    BY <1>13, <2>1 DEF NextTo
  <2>3. Matches(l) = Matches(list) /\ l.page = list.page + 1 /\ l.limit = list.limit
    BY <1>6, <2>2 DEF Matches, ListShape
  <2>4. list.shown = Slice(list.search, list.filter, list.page, list.limit)
    <3>1. ~Feed(list)
      BY <1>4 DEF Feed
    <3> QED
      BY <1>4, <1>5, <1>13, <3>1, FreshIs DEF ListsInv
  <2>5. Answering(list.shown, Matches(list), list.page, list.limit)
    BY <1>6, <2>4, ShownIs, Zenon DEF Matches
  <2>6. list.page * list.limit < Cardinality(Matches(list))
    BY <1>6, <1>8, <2>2, <2>5, MorePages DEF Answering, PageCount
  <2>7. l.page - 1 = list.page
    BY <1>6, <2>3
  <2> QED
    BY <1>2, <1>3, <1>5, <2>3, <2>6, <2>7
<1>14. ~MoreTo(l)
  BY <1>4 DEF MoreTo, Feed
<1>15. CASE change = "language" /\ LanguageTo(l)
  <2>1. Matches(l) = Matches(list) /\ l.page = list.page /\ l.limit = list.limit
    BY <1>6, <1>15 DEF LanguageTo, Matches, ListShape
  <2> QED
    BY <1>1, <1>2, <1>3, <1>5, <1>7, <2>1
<1> QED
  BY <1>9, <1>10, <1>11, <1>12, <1>13, <1>14, <1>15 DEF Moves

LEMMA TypedAfter ==
  ASSUME ListsInv, NEW l \in ListShape, NEW change, Moves(l, change), SameButQuery(l), Rendered(l, change)
  PROVE  TypedFirst'
<1>1. SUFFICES ASSUME ~list'.phone, list'.screen \in {"users", "owners"}, why' = {},
                      list'.typed # list'.search, list'.page # 1
               PROVE  FALSE
  BY DEF TypedFirst
<1>2. /\ list'.typed = l.typed /\ list'.search = l.search
      /\ l.screen = list.screen /\ l.phone = list.phone
  BY DEF Rendered, SameButQuery
<1>3. /\ ~list.phone /\ list.screen \in {"users", "owners"} /\ ~l.phone /\ l.screen \in {"users", "owners"}
      /\ l.screen \in Tables
  BY <1>1, <1>2 DEF Rendered, Tables
<1>4. /\ ~ToFirst(l, change) /\ list'.page = l.page /\ why = {}
      /\ change = "next" => list.typed = list.search /\ list.shown = Fresh
  BY <1>1, NoExcuse
<1>5. list \in ListShape /\ list.page \in Nat \ {0}
  BY DEF ListsInv, ListsTyped, ListShape
<1>6. change # "filter" /\ change # "limit" /\ change # "typed"
  BY <1>3, <1>4, TableToFirst
<1>7. CASE change = "search" /\ SearchTo(l)
  <2>1. l.search = l.typed
    BY <1>5, <1>7 DEF SearchTo, ListShape
  <2> QED
    BY <1>1, <1>2, <2>1
<1>8. CASE change = "page" /\ BackTo(l)
  <2>1. l.typed = list.typed /\ l.search = list.search
    BY <1>5, <1>8 DEF BackTo, ListShape
  <2>2. list.page = 1
    BY <2>1, <1>1, <1>2, <1>3, <1>4 DEF ListsInv, TypedFirst
  <2> QED
    BY <2>2, <1>8, FooterFacts DEF BackTo, ListsInv
<1>9. CASE change = "next" /\ NextTo(l)
  <2>1. l.typed = list.typed /\ l.search = list.search
    BY <1>5, <1>9 DEF NextTo, ListShape
  <2> QED
    BY <2>1, <1>1, <1>2, <1>4, <1>9
<1>10. ~MoreTo(l) /\ ~LanguageTo(l)
  BY <1>3 DEF MoreTo, Feed, LanguageTo
<1> QED
  BY <1>6, <1>7, <1>8, <1>9, <1>10 DEF Moves
\* What the API would answer the page afterwards, with the same rows.
LEMMA FreshThen == ASSUME stored' = stored PROVE Fresh' = FreshOf(list')
<1>1. Asked(list)' = Asked(list')
  BY DEF Asked, AskUsers, AskOwners, AskAssets, AskServices, AskTrash, AskOrganizations, Asking
<1>2. \A s, f, p, d : Slice(s, f, p, d)' = Slice(s, f, p, d)
  BY DEF Slice
<1> QED
  BY <1>1, <1>2 DEF Fresh, FreshOf

\* With the same question and the same rows the API would answer the same.
LEMMA FreshSame ==
  ASSUME stored' = stored, Asked(list') = Asked(list) PROVE Fresh' = Fresh
BY FreshThen DEF Fresh, FreshOf

LEMMA GrownAfter ==
  ASSUME ListsInv, NEW l \in ListShape, NEW change, Moves(l, change), SameButQuery(l), Rendered(l, change)
  PROVE  GrownFits'
<1>1. SUFFICES ASSUME Feed(list'), why' = {}
               PROVE  /\ list'.page = 1 => list'.loading \/ list'.items = list'.shown.rows
                      /\ list'.page # 1 => Grown'
  <2>1. Feed(list)' = Feed(list')
    BY DEF Feed
  <2> QED
    BY <1>1, <2>1 DEF GrownFits
<1>2. Feed(l) /\ Feed(list) /\ list.phone
  BY <1>1 DEF Rendered, SameButQuery, Feed
<1>3. list \in ListShape /\ list' \in ListShape /\ stored \in [Items -> Nat] /\ Batch \in Nat \ {0}
  BY ListsAssumption DEF ListsInv, ListsTyped, Rendered
<1>4. list.page \in Nat \ {0} /\ ~Footer(list).there
  BY <1>2, <1>3, FooterFacts DEF ListShape, ListsInv
<1>5. \/ change = "typed" /\ TypedTo(l)
      \/ change = "search" /\ SearchTo(l)
      \/ change = "filter" /\ (FilterTo(l) \/ DatesTo(l))
      \/ change = "language" /\ LanguageTo(l)
      \/ change = "next" /\ MoreTo(l)
  BY <1>4 DEF Moves, LimitTo, BackTo, NextTo
<1>6. Effects(l) = {"search", "filter"}
  BY <1>2 DEF Effects, FeedEffect
<1>7. /\ Asked(list') = Asking(list', Batch) /\ Asked(list) = Asking(list, Batch)
  BY <1>1, <1>2, <1>3, AskedIs
<1>8. ASSUME Asked(list') = Asked(list)
      PROVE  list'.page = list.page /\ list'.search = list.search /\ list'.filter = list.filter
  BY <1>7, <1>8 DEF Asking
<1>9. ASSUME list'.page = 1 PROVE list'.loading \/ list'.items = list'.shown.rows
  <2>1. CASE Asked(list') # Asked(list)
    BY <1>2, <1>9, <2>1 DEF Rendered
  <2>2. CASE Asked(list') = Asked(list)
    <3>1. list.page = 1 /\ l.search = list.search /\ l.filter = list.filter
      BY <1>8, <1>9, <2>2 DEF Rendered
    <3>2. NoneExcused(change)
      BY <1>1, <2>2 DEF Rendered
    <3>3. Effects(list') = Effects(l)
      BY DEF Rendered, Effects, Feed
    <3>4. change \notin Effects(l)
      BY <1>1, <2>2, <3>2, <3>3 DEF NoneExcused
    <3>5. list'.items = list.items /\ list'.shown = list.shown /\ list'.loading = list.loading
      BY <2>2, <3>4 DEF Rendered, SameButQuery, Kept
    <3> QED
      BY <1>2, <3>1, <3>2, <3>5 DEF ListsInv, GrownFits, NoneExcused
  <2> QED
    BY <2>1, <2>2
<1>10. ASSUME list'.page # 1 PROVE Grown'
  <2>1. /\ ~ToFirst(l, change) /\ list'.page = l.page /\ why = {} /\ NoneExcused(change)
        /\ change = "next" => list.typed = list.search /\ list.shown = Fresh
    BY <1>1, <1>10, NoExcuse
  <2>2. Matches(list)' = Matches(l)
    BY MatchesAfter
  <2>3. Listing(Matches(list))' = Listing(Matches(l))
    BY <2>2 DEF Listing, ListingIn, Rendered
  <2>4. Kept(l, change) = list.items
    BY <2>1 DEF Kept, ToFirst, SameButQuery
  <2>5. CASE change = "typed" /\ TypedTo(l)
    <3>1. /\ l.page = list.page /\ l.search = list.search /\ l.filter = list.filter
          /\ l.screen = list.screen /\ l.phone = list.phone /\ l.limit = list.limit
          /\ l.language = list.language
      BY <1>3, <2>5 DEF TypedTo, ListShape
    <3>2. Asked(list') = Asked(list)
      BY <1>7, <2>1, <3>1 DEF Asking, Rendered
    <3>3. Fresh' = Fresh
      BY <3>2, FreshSame DEF Rendered
    <3>4. /\ list'.shown = list.shown /\ list'.loading = list.loading /\ list'.page = list.page
          /\ list'.items = list.items
      BY <2>1, <2>4, <3>1, <3>2 DEF Rendered, SameButQuery
    <3>5. Matches(l) = Matches(list)
      BY <3>1 DEF Matches
    <3>6. Grown
      BY <1>2, <1>10, <2>1, <3>4 DEF ListsInv, GrownFits
    <3> QED
      BY <2>2, <2>3, <3>3, <3>4, <3>5, <3>6 DEF Grown
  <2>6. CASE change = "next" /\ MoreTo(l)
    <3> DEFINE p == list.page
               ids == Matches(list)
    <3>1. l = [list EXCEPT !.page = p + 1]
      BY <2>6 DEF MoreTo
    <3>2. l.page = p + 1 /\ Matches(l) = ids
      BY <1>3, <3>1 DEF Matches, ListShape
    <3>3. list'.page = p + 1
      BY <2>1, <3>2
    <3>4. Asked(list') # Asked(list)
      BY <1>4, <1>8, <3>3
    <3>6. p < list.shown.pages /\ ~list.loading
      BY <2>6 DEF MoreTo, More, MoreServices, MoreTrash
    <3>7. Answering(list.shown, ids, p, Batch)
      <4>1. list.shown = Slice(list.search, list.filter, p, Batch)
        BY <1>2, <2>1, <2>6, FreshIs DEF ListsInv
      <4> QED
        BY <1>3, <1>4, <4>1, ShownIs, Zenon DEF Matches
    <3>8. Cardinality(ids) \in Nat
      BY MatchingFacts DEF Matches
    <3>9. p * Batch < Cardinality(ids)
      BY <1>3, <1>4, <3>6, <3>7, <3>8, MorePages DEF Answering, PageCount
    <3>10. list.items = PageOf(Listing(ids), 1, p * Batch)
      <4>1. CASE p = 1
        <5>1. p * Batch = Batch
          BY <1>3, <4>1
        <5>2. list.items = list.shown.rows
          BY <1>2, <2>1, <3>6, <4>1 DEF ListsInv, GrownFits
        <5> QED
          BY <3>7, <4>1, <5>1, <5>2 DEF Answering
      <4>2. CASE p # 1
        BY <1>2, <2>1, <3>6, <4>2 DEF ListsInv, GrownFits, Grown
      <4> QED
        BY <4>1, <4>2
    <3>11. list'.page - 1 = p
      BY <1>4, <3>3
    <3>12. CASE list'.loading
      <4>1. list'.items = list.items
        BY <2>4, <3>4, <3>12 DEF Rendered
      <4> QED
        BY <2>2, <2>3, <3>2, <3>9, <3>10, <3>11, <3>12, <4>1 DEF Grown
    <3>13. CASE ~list'.loading
      <4>1. list'.items = list.items \o list'.shown.rows
        BY <1>2, <1>10, <2>4, <3>4, <3>13 DEF Rendered
      <4>2. list'.shown = FreshOf(list')
        BY <1>1, <2>1, <3>4, <3>13 DEF NoneExcused
      <4>3. list'.shown = Slice(l.search, l.filter, p + 1, Batch)
        BY <1>1, <1>3, <3>3, <4>2, FreshOfIs DEF Rendered
      <4>4. p + 1 \in Nat \ {0}
        BY <1>4
      <4>5. list'.shown.rows = PageOf(Listing(ids), p + 1, Batch)
        <5>1. Answering(list'.shown, Matches(l), p + 1, Batch)
          BY <1>3, <4>3, <4>4, ShownIs, Zenon DEF Matches
        <5> QED
          BY <5>1, <3>2 DEF Answering
      <4>6. Listing(ids) \in Seq(Items \X Nat) /\ Len(Listing(ids)) = Cardinality(ids)
        BY <1>3, MatchingFacts, RowsFacts DEF Matches
      <4> HIDE DEF ids, p
      <4>7. PageOf(Listing(ids), 1, p * Batch) \o PageOf(Listing(ids), p + 1, Batch)
              = PageOf(Listing(ids), 1, (p + 1) * Batch)
        BY <1>3, <1>4, <3>9, <4>6, Joined DEF p
      <4>8. list'.items = PageOf(Listing(ids), 1, (p + 1) * Batch)
        BY <3>10, <4>1, <4>5, <4>7
      <4>9. Fresh' = FreshOf(list')
        BY FreshThen DEF Rendered
      <4> QED
        BY <2>2, <2>3, <3>2, <3>3, <3>9, <3>11, <3>13, <4>2, <4>8, <4>9 DEF Grown
    <3> QED
      BY <3>12, <3>13
  <2>7. ~(change = "search" \/ change = "filter")
    BY <1>6, <2>1 DEF ToFirst
  <2>8. change # "language"
    BY <1>1, <2>1 DEF NoneExcused
  <2> QED
    BY <1>5, <2>5, <2>6, <2>7, <2>8
<1> QED
  BY <1>9, <1>10

LEMMA EndAfter ==
  ASSUME ListsInv, NEW l \in ListShape, NEW change, Moves(l, change), SameButQuery(l), Rendered(l, change)
  PROVE  EndObserved'
<1>1. SUFFICES ASSUME Scroll(list')
               PROVE  /\ list'.filter = Off /\ list'.page = 1
                      /\ why' = {} /\ HasNext(list') /\ Sentinel(list') => list'.observed
  BY DEF EndObserved, Scroll, HasNext, Sentinel
<1>2. Scroll(l) /\ Scroll(list) /\ list.phone
  BY <1>1 DEF Rendered, SameButQuery, Scroll
<1>3. list \in ListShape /\ ~Footer(list).there
  BY <1>2, FooterFacts DEF ListsInv, ListsTyped
<1>4. (change = "typed" /\ TypedTo(l)) \/ (change = "search" /\ SearchTo(l))
  BY <1>2, <1>3 DEF Moves, LimitTo, BackTo, NextTo, MoreTo, FilterTo, DatesTo, LanguageTo, Feed, Scroll
<1>5. list.filter = Off /\ list.page = 1
  BY <1>2 DEF ListsInv, EndObserved
<1>6. l.filter = Off /\ l.page = 1
  BY <1>3, <1>4, <1>5 DEF TypedTo, SearchTo, ListShape
<1>7. list'.filter = Off /\ list'.page = 1
  BY <1>6 DEF Rendered
<1> QED
  BY <1>1, <1>7 DEF Rendered
\* Every change of the page with its effects keeps the invariant.
LEMMA RenderKeeps ==
  ASSUME ListsInv, NEW l, NEW change, Moves(l, change), Render(l, change) PROVE ListsInv'
<1>1. l \in ListShape /\ SameButQuery(l)
  BY MovesFit DEF ListsInv
<1>2. Rendered(l, change)
  BY <1>1, RenderIs DEF ListsInv
<1>3. ListsTyped'
  <2>1. list' \in ListShape /\ stored' = stored /\ earlier' = earlier /\ list'.screen = list.screen /\ list'.phone = list.phone
    BY <1>1, <1>2 DEF Rendered, SameButQuery
  <2> QED
    BY <2>1 DEF ListsInv, ListsTyped, ListShape, Slices
<1> QED
  BY <1>1, <1>2, <1>3, TurnedAfter, TypedAfter, GrownAfter, EndAfter DEF ListsInv

\* The handlers that lead to a change.
LEMMA HandlersKeep ==
  ASSUME ListsInv,
         \/ \E v \in Filters : TypeSearch(v) \/ PickFilter(v)
         \/ \E n \in Limits : SetLimit(n)
         \/ PickSameDates \/ SwitchLanguage \/ PreviousPage \/ NextPage \/ ViewMore \/ Debounce
  PROVE  ListsInv'
<1>1. CASE \E v \in Filters : TypeSearch(v)
  <2>1. PICK v \in Filters : TypeSearch(v)
    BY <1>1
  <2> DEFINE l == [list EXCEPT !.typed = v]
  <2>2. Moves(l, "typed") /\ Render(l, "typed")
    BY <2>1 DEF TypeSearch, Moves, TypedTo
  <2> HIDE DEF l
  <2> QED
    BY <2>2, RenderKeeps
<1>2. CASE \E f \in Filters : PickFilter(f)
  <2>1. PICK f \in Filters : PickFilter(f)
    BY <1>2
  <2> DEFINE l == [list EXCEPT !.filter = f]
  <2>2. Moves(l, "filter") /\ Render(l, "filter")
    BY <2>1 DEF PickFilter, Moves, FilterTo
  <2> HIDE DEF l
  <2> QED
    BY <2>2, RenderKeeps
<1>3. CASE \E n \in Limits : SetLimit(n)
  <2>1. PICK n \in Limits : SetLimit(n)
    BY <1>3
  <2> DEFINE l == [list EXCEPT !.limit = n]
  <2>2. Moves(l, "limit") /\ Render(l, "limit")
    BY <2>1 DEF SetLimit, Moves, LimitTo
  <2> HIDE DEF l
  <2> QED
    BY <2>2, RenderKeeps
<1>4. CASE PreviousPage
  <2> DEFINE l == [list EXCEPT !.page = list.page - 1]
  <2>1. Moves(l, "page") /\ Render(l, "page")
    BY <1>4 DEF PreviousPage, Moves, BackTo
  <2> HIDE DEF l
  <2> QED
    BY <2>1, RenderKeeps
<1>5. CASE NextPage
  <2> DEFINE l == [list EXCEPT !.page = IF list.page < Footer(list).last THEN list.page + 1
                                        ELSE Footer(list).last]
  <2>1. Moves(l, "next") /\ Render(l, "next")
    BY <1>5 DEF NextPage, Moves, NextTo
  <2> HIDE DEF l
  <2> QED
    BY <2>1, RenderKeeps
<1>6. CASE ViewMore
  <2> DEFINE l == [list EXCEPT !.page = list.page + 1]
  <2>1. Moves(l, "next") /\ Render(l, "next")
    BY <1>6 DEF ViewMore, Moves, MoreTo
  <2> HIDE DEF l
  <2> QED
    BY <2>1, RenderKeeps
<1>7. CASE Debounce
  <2> DEFINE l == [list EXCEPT !.search = list.typed]
  <2>1. Moves(l, "search") /\ Render(l, "search")
    BY <1>7 DEF Debounce, Moves, SearchTo
  <2> HIDE DEF l
  <2> QED
    BY <2>1, RenderKeeps
<1>8. CASE PickSameDates
  <2>1. Moves(list, "filter") /\ Render(list, "filter")
    BY <1>8 DEF PickSameDates, Moves, DatesTo
  <2> QED
    BY <2>1, RenderKeeps
<1>9. CASE SwitchLanguage
  <2>1. PICK g \in Languages : Render([list EXCEPT !.language = g], "language")
    BY <1>9 DEF SwitchLanguage
  <2> DEFINE l == [list EXCEPT !.language = g]
  <2>2. Moves(l, "language") /\ Render(l, "language")
    BY <1>9, <2>1 DEF SwitchLanguage, Moves, LanguageTo
  <2> HIDE DEF l
  <2> QED
    BY <2>2, RenderKeeps
<1> QED
  BY <1>1, <1>2, <1>3, <1>4, <1>5, <1>6, <1>7, <1>8, <1>9

\* Rows that come, go and change leave the page; a later one has an excuse then.
LEMMA RowsKeep ==
  ASSUME ListsInv, NEW i \in Items, ChangeRow(i) \/ RemoveRow(i) PROVE ListsInv'
<1>1. list' = list /\ list \in ListShape /\ stored \in [Items -> Nat]
  BY DEF ListsInv, ListsTyped, ChangeRow, RemoveRow
<1>2. stored' \in [Items -> Nat] /\ earlier' \subseteq [Items -> Nat]
  BY <1>1 DEF ChangeRow, RemoveRow, ListsInv, ListsTyped
<1>3. why' = {} => why = {} /\ list.page = 1
  <2>1. list.page \in Nat \ {0}
    BY <1>1 DEF ListShape
  <2>2. why' = IF list.page > 1 THEN why \union {"left"} ELSE why
    BY DEF ChangeRow, RemoveRow
  <2> QED
    BY <2>1, <2>2
<1>4. ListsTyped'
  BY <1>1, <1>2 DEF ListsInv, ListsTyped, ListShape, Slices
<1>5. TurnedFits' /\ TypedFirst'
  BY <1>1, <1>3 DEF TurnedFits, TypedFirst
<1>6. GrownFits' /\ EndObserved'
  BY <1>1, <1>3 DEF ListsInv, GrownFits, EndObserved, Feed, Scroll, HasNext, Sentinel
<1> QED
  BY <1>4, <1>5, <1>6 DEF ListsInv
\* The API answers every page with rows of the right kind.
LEMMA FreshTyped == ASSUME ListsTyped PROVE Fresh \in Slices
<1>1. /\ list \in ListShape /\ stored \in [Items -> Nat] /\ list.page \in Nat \ {0}
      /\ list.limit \in Nat \ {0} /\ Batch \in Nat \ {0} /\ list.screen \in Screens
  BY ListsAssumption DEF ListsTyped, ListShape
<1>2. CASE Feed(list)
  BY <1>1, <1>2, FreshIs, SliceTyped
<1>3. CASE list.screen \in Tables \union {"trash"} /\ ~Feed(list)
  BY <1>1, <1>3, FreshIs, SliceTyped
<1>4. CASE list.screen = "organizations"
  <2>1. Cardinality(Items) + 1 \in Nat \ {0} /\ 1 \in Nat \ {0}
    BY ListsAssumption, FS_CardinalityType
  <2> QED
    BY <1>1, <1>4, <2>1, FreshIs, SliceTyped
<1> QED
  BY <1>1, <1>2, <1>3, <1>4 DEF Screens, Tables

SameElse ==
  /\ list'.screen = list.screen /\ list'.phone = list.phone /\ list'.page = list.page
  /\ list'.limit = list.limit /\ list'.typed = list.typed /\ list'.search = list.search
  /\ list'.filter = list.filter /\ list'.language = list.language /\ earlier' = earlier

\* What an answer leaves, field by field.
Arrived ==
  /\ list' \in ListShape /\ stored' = stored /\ SameElse
  /\ list'.shown = Fresh /\ ~list'.loading /\ list'.parts = list.parts
  /\ list'.items = (IF ~Feed(list) THEN list.items
                    ELSE IF list.page = 1 THEN Fresh.rows ELSE list.items \o Fresh.rows)
  /\ list'.observed = Watching(list', list)

LEMMA ArriveIs == ASSUME ListsInv, Arrive PROVE Arrived
<1>1. list \in ListShape /\ Fresh \in Slices
  BY FreshTyped DEF ListsInv, ListsTyped
<1> DEFINE items == IF ~Feed(list) THEN list.items
                    ELSE IF list.page = 1 THEN Fresh.rows ELSE list.items \o Fresh.rows
           shown == Fresh
           one == [list EXCEPT !.shown = shown]
           two == [one EXCEPT !.loading = FALSE]
           l == [two EXCEPT !.items = items]
<1>2. items \in Seq(Items \X Nat)
  <2>1. list.items \in Seq(Items \X Nat) /\ Fresh.rows \in Seq(Items \X Nat)
    BY <1>1 DEF ListShape, Slices
  <2>2. list.items \o Fresh.rows \in Seq(Items \X Nat)
    BY <2>1, ConcatProperties
  <2> QED
    BY <2>1, <2>2
<1>3. stored' = stored /\ earlier' = earlier
  BY DEF Arrive
<1>4. [list EXCEPT !.shown = shown, !.loading = FALSE, !.items = items] = l
  <2> HIDE DEF items, shown
  <2> QED
    BY <1>1 DEF ListShape
<1>5. list' = [l EXCEPT !.observed = Watching(l, list)]
  <2>1. Grow(list, Fresh) = items
    BY DEF Grow
  <2>2. list' = [[list EXCEPT !.shown = shown, !.loading = FALSE, !.items = items]
                   EXCEPT !.observed = Watching([list EXCEPT !.shown = shown, !.loading = FALSE, !.items = items], list)]
    BY <2>1 DEF Arrive
  <2> HIDE DEF items, shown, l
  <2> QED
    BY <1>4, <2>2
<1> HIDE DEF items
<1>6. one \in ListShape
  BY <1>1 DEF ListShape
<1> HIDE DEF shown
<1>7. two \in ListShape
  <2> HIDE DEF one
  <2> QED
    BY <1>6 DEF ListShape
<1>8. l \in ListShape
  <2> HIDE DEF two
  <2> QED
    BY <1>2, <1>7 DEF ListShape
<1>9. /\ l.screen = list.screen /\ l.phone = list.phone /\ l.page = list.page
      /\ l.language = list.language /\ l.limit = list.limit /\ l.typed = list.typed /\ l.search = list.search
      /\ l.filter = list.filter /\ l.shown = shown /\ ~l.loading /\ l.items = items
      /\ l.parts = list.parts
  BY <1>1 DEF ListShape
<1> HIDE DEF l
<1>10. Watching(l, list) \in BOOLEAN
  BY DEF Watching, Sentinel
<1> DEFINE w == Watching(l, list)
<1>11. /\ list' \in ListShape /\ SameElse /\ list'.shown = shown /\ ~list'.loading
       /\ list'.items = items /\ list'.parts = list.parts /\ list'.observed = w
  <2> HIDE DEF w
  <2> QED
    BY <1>3, <1>5, <1>8, <1>9, <1>10 DEF ListShape, SameElse, w
<1>12. Watching(list', list) = w
  BY <1>9, <1>11 DEF Watching, Sentinel, HasNext
<1> QED
  BY <1>3, <1>11, <1>12 DEF Arrived, items, shown
LEMMA ArriveKeeps == ASSUME ListsInv, Arrive PROVE ListsInv'
<1>1. Arrived
  BY ArriveIs
<1>2. /\ list \in ListShape /\ list' \in ListShape /\ stored \in [Items -> Nat] /\ stored' = stored
      /\ list.page \in Nat \ {0} /\ Batch \in Nat \ {0}
  BY <1>1, ListsAssumption DEF ListsInv, ListsTyped, ListShape, Arrived
<1>3. Matches(list)' = Matches(list) /\ Listing(Matches(list))' = Listing(Matches(list))
  <2>1. Matches(list)' = Matches(list)
    BY <1>1 DEF Arrived, SameElse, Matches, Matching, MatchingIn, Present
  <2> QED
    BY <1>2, <2>1 DEF Listing, ListingIn
<1>4. Asked(list') = Asked(list)
  <2>1. SameQuestion(list', list)
    BY <1>1 DEF Arrived, SameElse, SameQuestion
  <2> QED
    BY <1>2, <2>1, AskedSame
<1>5. Fresh' = Fresh
  BY <1>2, <1>4, FreshSame
<1>6. /\ ~Feed(list) /\ why' = {} => why = {}
      /\ Feed(list) /\ list.page # 1 /\ why' = {} => why = {}
      /\ Scroll(list) /\ why' = {} => Sentinel(list) \/ ~HasNext(list) \/ Fresh.rows = <<>>
  BY DEF Arrive, Feed, Scroll
<1>7. ListsTyped'
  BY <1>1, <1>2 DEF ListsInv, ListsTyped, ListShape, Slices, Arrived, SameElse
<1>8. TurnedFits'
  <2>1. SUFFICES ASSUME ~list'.phone, list'.screen \in Tables, why' = {}
                 PROVE  list'.page = 1 \/ (list'.page - 1) * list'.limit < Cardinality(Matches(list)')
    BY DEF TurnedFits
  <2>2. ~list.phone /\ list.screen \in Tables /\ list'.page = list.page /\ list'.limit = list.limit
    BY <1>1, <2>1 DEF Arrived, SameElse
  <2>3. why = {}
    BY <1>6, <2>1, <2>2 DEF Feed
  <2> QED
    BY <1>3, <2>2, <2>3 DEF ListsInv, TurnedFits
<1>9. TypedFirst'
  BY <1>1, <1>6 DEF ListsInv, TypedFirst, Arrived, SameElse, Feed
<1>10. GrownFits'
  <2>1. SUFFICES ASSUME Feed(list), why' = {}
                 PROVE  /\ list.page = 1 => list'.loading \/ list'.items = list'.shown.rows
                        /\ list.page # 1 => Grown'
    BY <1>1 DEF GrownFits, Feed, Arrived, SameElse
  <2>2. ASSUME list.page = 1 PROVE list'.items = list'.shown.rows
    BY <1>1, <2>1, <2>2 DEF Arrived
  <2>3. ASSUME list.page # 1 PROVE Grown'
    <3> DEFINE p == list.page - 1
               R == Listing(Matches(list))
    <3>1. Grown
      BY <1>6, <2>1, <2>3 DEF ListsInv, GrownFits
    <3>2. list.loading
      BY <3>1 DEF Arrive, Grown
    <3>3. p \in Nat \ {0} /\ p + 1 = list.page
      BY <1>2, <2>3
    <3>4. R \in Seq(Items \X Nat) /\ Len(R) = Cardinality(Matches(list))
      BY <1>2, MatchingFacts, RowsFacts DEF Matches
    <3>5. Fresh.rows = PageOf(R, list.page, Batch)
      <4>1. Fresh = Slice(list.search, list.filter, list.page, Batch)
        BY <2>1, FreshIs DEF ListsInv
      <4> QED
        BY <4>1 DEF Slice, SliceIn, Matches, Matching, Listing
    <3>6. list.items = PageOf(R, 1, p * Batch) /\ p * Batch < Len(R)
      BY <3>1, <3>2, <3>4 DEF Grown
    <3>7. list'.items = list.items \o Fresh.rows
      BY <1>1, <2>1, <2>3 DEF Arrived
    <3> HIDE DEF R, p
    <3>8. PageOf(R, 1, p * Batch) \o PageOf(R, p + 1, Batch) = PageOf(R, 1, (p + 1) * Batch)
      BY <1>2, <3>3, <3>4, <3>6, Joined
    <3>9. list'.items = PageOf(R, 1, list.page * Batch)
      BY <3>3, <3>5, <3>6, <3>7, <3>8
    <3>10. list'.page = list.page /\ ~list'.loading /\ list'.shown = Fresh'
      BY <1>1, <1>5 DEF Arrived, SameElse
    <3> QED
      BY <1>3, <3>1, <3>9, <3>10 DEF Grown, R
  <2> QED
    BY <2>2, <2>3
<1>11. EndObserved'
  <2>1. SUFFICES ASSUME Scroll(list)
                 PROVE  /\ list'.filter = Off /\ list'.page = 1
                        /\ why' = {} /\ HasNext(list') /\ Sentinel(list') => list'.observed
    BY <1>1 DEF EndObserved, Scroll, HasNext, Sentinel, Arrived, SameElse
  <2>2. list'.filter = Off /\ list'.page = 1
    BY <1>1, <2>1 DEF ListsInv, EndObserved, Arrived, SameElse
  <2>3. SUFFICES ASSUME why' = {}, HasNext(list'), Sentinel(list') PROVE list'.observed
    BY <2>2
  <2>4. HasNext(list) /\ Fresh.rows # <<>>
    BY <1>1, <2>3 DEF HasNext, Sentinel, Arrived
  <2>5. Sentinel(list) /\ why = {}
    BY <1>6, <2>1, <2>3, <2>4 DEF Feed, Scroll
  <2>6. list.observed
    BY <2>1, <2>4, <2>5 DEF ListsInv, EndObserved
  <2> QED
    BY <1>1, <2>3, <2>6 DEF Arrived, Watching
<1> QED
  BY <1>7, <1>8, <1>9, <1>10, <1>11 DEF ListsInv

\* What a change of the parts of an endless list leaves.
PartsSet(parts) ==
  /\ list' \in ListShape /\ stored' = stored /\ why' = why /\ SameElse
  /\ list'.shown = list.shown /\ list'.loading = list.loading /\ list'.parts = parts
  /\ list'.observed = Watching(list', list)

LEMMA SetPartsIs ==
  ASSUME ListsInv, NEW parts \in Seq(Slices), SetParts(parts) PROVE PartsSet(parts)
<1> DEFINE l == [list EXCEPT !.parts = parts]
           w == Watching(l, list)
<1>1. list \in ListShape
  BY DEF ListsInv, ListsTyped
<1>2. list' = [l EXCEPT !.observed = w] /\ stored' = stored /\ earlier' = earlier /\ why' = why
  BY DEF SetParts
<1>3. l \in ListShape
  BY <1>1 DEF ListShape
<1>4. /\ l.screen = list.screen /\ l.phone = list.phone /\ l.page = list.page
      /\ l.language = list.language /\ l.limit = list.limit /\ l.typed = list.typed /\ l.search = list.search
      /\ l.filter = list.filter /\ l.shown = list.shown /\ l.loading = list.loading
      /\ l.parts = parts
  BY <1>1 DEF ListShape
<1>5. w \in BOOLEAN
  BY DEF Watching, Sentinel
<1> HIDE DEF l, w
<1>6. /\ list' \in ListShape /\ SameElse /\ list'.shown = list.shown
      /\ list'.loading = list.loading /\ list'.parts = parts /\ list'.observed = w
  BY <1>2, <1>3, <1>4, <1>5 DEF ListShape, SameElse
<1>7. Watching(list', list) = w
  BY <1>4, <1>6 DEF Watching, Sentinel, HasNext, w
<1> QED
  BY <1>2, <1>6, <1>7 DEF PartsSet

\* Parts are read, or read again: if there is a next one then, the end is observed.
LEMMA PartsKeep ==
  ASSUME ListsInv, FirstPart \/ FetchNextPage \/ Reload PROVE ListsInv'
<1>1. /\ list \in ListShape /\ stored \in [Items -> Nat] /\ list.parts \in Seq(Slices)
      /\ Batch \in Nat \ {0} /\ Scroll(list)
  BY ListsAssumption DEF ListsInv, ListsTyped, ListShape, FirstPart, FetchNextPage, Reload
<1>2. \A n \in Nat \ {0} : Part(n) \in Slices
  BY <1>1, SliceTyped DEF Part
<1>3. \E parts \in Seq(Slices) : SetParts(parts)
  <2>1. CASE FirstPart
    <3>1. <<Part(1)>> \in Seq(Slices)
      BY <1>2
    <3> QED
      BY <2>1, <3>1 DEF FirstPart
  <2>2. CASE FetchNextPage
    <3>1. Len(list.parts) + 1 \in Nat \ {0}
      BY <1>1
    <3>2. Append(list.parts, Part(Len(list.parts) + 1)) \in Seq(Slices)
      BY <1>1, <1>2, <3>1
    <3> QED
      BY <2>2, <3>2 DEF FetchNextPage
  <2>3. CASE Reload
    <3> DEFINE K == {k \in DOMAIN Reloaded : \A j \in 1..(k - 1) : j < Reloaded[j].pages}
               m == Max({1} \union K)
               L == Len(list.parts)
    <3>1. L \in Nat \ {0} /\ DOMAIN list.parts = 1..L
      BY <1>1, <2>3 DEF Reload, NoPages
    <3>2. Reloaded \in Seq(Slices) /\ Len(Reloaded) = L /\ DOMAIN Reloaded = 1..L
      <4>1. Reloaded = [n \in 1..L |-> Part(n)]
        BY <3>1 DEF Reloaded
      <4>2. \A n \in 1..L : Part(n) \in Slices
        BY <1>2
      <4>3. Reloaded \in [1..L -> Slices]
        BY <4>1, <4>2
      <4> QED
        BY <3>1, <4>3
    <3>3. m \in 1..L
      <4>1. {1} \union K \subseteq 1..L
        BY <3>1, <3>2
      <4> DEFINE S == {1} \union K
      <4>2. \E x \in S : \A y \in S : x >= y
        <5>1. \A y \in {L - k : k \in S} : y \in Nat
          BY <3>1, <4>1
        <5>2. {L - k : k \in S} # {} /\ {L - k : k \in S} \subseteq Nat
          BY <5>1
        <5>3. PICK z \in {L - k : k \in S} : \A y \in {L - k : k \in S} : ~(<<y, z>> \in OpToRel(<, Nat))
          BY <5>2, WFMin, NatLessThanWellFounded, Zenon
        <5>4. \A y \in {L - k : k \in S} : ~(y < z)
          BY <5>2, <5>3, Zenon DEF OpToRel
        <5>5. PICK x \in S : z = L - x
          BY <5>3
        <5>6. \A y \in S : ~(L - y < L - x)
          BY <5>4, <5>5
        <5> HIDE DEF K, S
        <5>7. \A y \in S : y \in 1..L
          BY <4>1 DEF S
        <5>8. \A y \in S : x >= y
          BY <3>1, <5>5, <5>6, <5>7
        <5> QED
          BY <5>5, <5>8
      <4>3. m \in S
        BY <4>2 DEF Max
      <4> QED
        BY <4>1, <4>3
    <3>4. SetParts(SubSeq(Reloaded, 1, m))
      BY <2>3 DEF Reload
    <3> HIDE DEF m, L
    <3>5. SubSeq(Reloaded, 1, m) \in Seq(Slices)
      BY <3>1, <3>2, <3>3
    <3> QED
      BY <3>4, <3>5
  <2> QED
    BY <2>1, <2>2, <2>3
<1>4. PICK parts \in Seq(Slices) : PartsSet(parts)
  BY <1>3, SetPartsIs
<1>5. ListsTyped'
  BY <1>4 DEF ListsInv, ListsTyped, ListShape, Slices, PartsSet, SameElse
<1>6. TurnedFits' /\ TypedFirst' /\ GrownFits'
  BY <1>1, <1>4 DEF TurnedFits, TypedFirst, GrownFits, Feed, Scroll, PartsSet, SameElse
<1>7. EndObserved'
  <2>1. list.filter = Off /\ list.page = 1 /\ (why = {} /\ HasNext(list) /\ Sentinel(list) => list.observed)
    BY <1>1 DEF ListsInv, EndObserved
  <2>2. Sentinel(list') = Sentinel(list)
    BY <1>4 DEF Sentinel, PartsSet
  <2>3. HasNext(list) \in BOOLEAN /\ HasNext(list') \in BOOLEAN
    BY DEF HasNext
  <2>4. why' = {} /\ HasNext(list') /\ Sentinel(list') => list'.observed
    BY <1>4, <2>1, <2>2, <2>3 DEF PartsSet, Watching
  <2> QED
    BY <1>4, <2>1, <2>4 DEF EndObserved, HasNext, Sentinel, PartsSet, SameElse
<1> QED
  BY <1>5, <1>6, <1>7 DEF ListsInv

-----------------------------------------------------------------------------
LEMMA ListsStart == ListsInit => ListsInv
<1>1. SUFFICES ASSUME ListsInit PROVE ListsInv
  OBVIOUS
<1>2. PICK s \in Screens, p \in BOOLEAN, n \in Limits :
        /\ s = "organizations" => ~p
        /\ list = [screen |-> s, phone |-> p, language |-> "es", page |-> 1, limit |-> n,
                   typed |-> Off, search |-> Off, filter |-> Off, shown |-> Awaited, loading |-> TRUE,
                   items |-> <<>>, parts |-> NoPages, observed |-> FALSE]
  BY <1>1 DEF ListsInit
<1>3. Awaited \in Slices /\ <<>> \in Seq(Items \X Nat) /\ NoPages \in Seq(Slices) /\ 1 \in Nat \ {0}
  BY DEF Awaited, Slices, NoPages
<1>4. list \in ListShape
  BY <1>2, <1>3, ListsAssumption DEF ListShape, Languages
<1>5. ListsTyped
  BY <1>1, <1>2, <1>4 DEF ListsTyped, ListsInit
<1>6. TurnedFits /\ TypedFirst /\ GrownFits
  BY <1>2 DEF TurnedFits, TypedFirst, GrownFits
<1>7. EndObserved
  BY <1>2 DEF EndObserved, HasNext
<1> QED
  BY <1>5, <1>6, <1>7 DEF ListsInv

LEMMA ListsStep == ListsInv /\ [ListsNext]_lists => ListsInv'
<1>1. SUFFICES ASSUME ListsInv, [ListsNext]_lists PROVE ListsInv'
  OBVIOUS
<1>2. CASE Clicks
  BY <1>1, <1>2, HandlersKeep DEF Clicks
<1>3. CASE Comings
  BY <1>1, <1>3, RowsKeep DEF Comings
<1>4. CASE Arrivals
  BY <1>1, <1>4, HandlersKeep, ArriveKeeps, PartsKeep DEF Arrivals
<1>5. CASE UNCHANGED lists
  <2>1. list' = list /\ stored' = stored /\ earlier' = earlier /\ why' = why
    BY <1>5 DEF lists
  <2>2. ListsTyped' /\ TurnedFits' /\ TypedFirst' /\ EndObserved'
    BY <1>1, <2>1 DEF ListsInv, ListsTyped, ListShape, Slices, TurnedFits, TypedFirst, EndObserved,
       Matches, Matching, MatchingIn, Present, Scroll, HasNext, Sentinel
  <2>3. Matches(list)' = Matches(list) /\ Listing(Matches(list))' = Listing(Matches(list)) /\ Fresh' = Fresh
    <3>1. Matches(list)' = Matches(list)
      BY <2>1 DEF Matches, Matching, MatchingIn, Present
    <3>2. Listing(Matches(list))' = Listing(Matches(list))
      BY <2>1, <3>1 DEF Listing, ListingIn
    <3> QED
      BY <2>1, <3>1, <3>2, FreshSame
  <2>4. GrownFits'
    BY <1>1, <2>1, <2>3 DEF ListsInv, GrownFits, Grown, Feed
  <2> QED
    BY <2>2, <2>4 DEF ListsInv
<1> QED
  BY <1>1, <1>2, <1>3, <1>4, <1>5 DEF ListsNext

\* NothingOutOfReach, for every set of rows, every filter, every length of a page and every
\* number of changes: whatever was searched, filtered, paged or scrolled, each row that matches
\* is shown once all is read, or a button leads to it, but for the named exceptions.
THEOREM EveryRowWithinReach == ListsSpec => []NothingOutOfReach
<1>1. ListsInit => ListsInv
  BY ListsStart
<1>2. ListsInv /\ [ListsNext]_lists => ListsInv'
  BY ListsStep
<1>3. ListsInv => NothingOutOfReach
  BY InvariantReaches
<1> QED
  BY <1>1, <1>2, <1>3, PTL DEF ListsSpec

==============================================================================
