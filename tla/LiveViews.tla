------------------------------- MODULE LiveViews -------------------------------
(***************************************************************************)
(* What a browser tab shows and how it hears of changes: the handlers of   *)
(* the API that change rows and then emit realtime events, the stream of   *)
(* events the tab reads, and the queries of its pages, which are fetched   *)
(* again when an event arrives (RealtimeService, RealtimeQueryInvalidator). *)
(*                                                                          *)
(* Every page stands for its queries, taken together; what a page shows is  *)
(* the version of the kinds of rows whose events refresh it.                *)
(***************************************************************************)
EXTENDS Naturals, Sequences

CONSTANTS Requests,   \* handlers of the API under way at a time
          Visited,    \* the pages the tab goes to
          Operations, \* the operations users call
          MaxChanges, \* bound: operations
          MaxMoves,   \* bound: the tab goes to another page
          MaxFaults   \* bound: streams that break, fetches that fail

Pages == {"assets", "service", "users", "owners", "dashboard", "trash"}
Kinds == {"assets", "services", "users", "owners", "trash"}

ASSUME VisitedAssumption == Visited \subseteq Pages /\ Visited # {}
ASSUME BoundAssumption == {MaxChanges, MaxMoves, MaxFaults} \subseteq Nat

VARIABLES
  db,      \* version of the rows of a kind
  req,     \* the requests
  stream,  \* the connection to /realtime/events
  before,  \* hasConnectedBefore
  wire,    \* events on their way to the tab
  page,    \* pathname
  me,      \* /auth/me has not been answered since the last move
  cache,   \* the queries of each page
  silent,  \* history: a page was changed by an operation that emits no event for it
  astray,  \* history: the page may have missed an event while the tab moved
  clobbered, \* history: an answer older than the last invalidation arrived after it
  changes, moves, faults

vars == <<db, req, stream, before, wire, page, me, cache, silent, astray, clobbered,
          changes, moves, faults>>

-----------------------------------------------------------------------------
(* What the operations change, and what they tell.                          *)

\* The handlers of the API commit, and then emit, in this order.
EditService     == [changes |-> {"services"}, emits |-> <<"services">>]
RemoveService   == [changes |-> {"services", "trash"}, emits |-> <<"services">>]
EditAsset       == [changes |-> {"assets"}, emits |-> <<"assets">>]
AssignOwner     == [changes |-> {"assets"}, emits |-> << >>]
RemoveAsset     == [changes |-> {"assets", "services", "trash"}, emits |-> <<"assets">>]
RemoveUser      == [changes |-> {"users", "trash"}, emits |-> <<"users">>]
DeactivateOwner == [changes |-> {"owners", "assets"}, emits |-> <<"owners", "assets">>]
RemoveOwner     == [changes |-> Kinds, emits |-> <<"owners", "assets", "users", "services">>]
RestoreAsset    == [changes |-> {"assets", "services", "trash"}, emits |-> <<"assets", "services">>]
RestoreOwner    == [changes |-> Kinds, emits |-> <<"owners", "assets", "services", "users">>]
PermanentDelete == [changes |-> {"services", "trash"}, emits |-> <<"services">>]

Op == [editService |-> EditService, removeService |-> RemoveService,
       editAsset |-> EditAsset, assignOwner |-> AssignOwner, removeAsset |-> RemoveAsset,
       removeUser |-> RemoveUser, deactivateOwner |-> DeactivateOwner, removeOwner |-> RemoveOwner,
       restoreAsset |-> RestoreAsset, restoreOwner |-> RestoreOwner,
       permanentDelete |-> PermanentDelete]

\* What a page calls, and what it invalidates when that has answered, a set at a time.
ServicePage == [editService   |-> <<{"service"}>>,
                removeService |-> <<{"service"}, {"trash"}>>]
AssetsPage  == [editAsset   |-> <<{"assets"}>>,
                assignOwner |-> << >>,
                removeAsset |-> <<{"assets"}, {"service"}, {"trash"}>>]
UsersPage   == [removeUser |-> <<{"trash"}, {"users"}>>]
OwnersPage  == [deactivateOwner |-> <<{"owners"}>>,
                removeOwner     |-> <<{"owners"}, {"assets"}, {"service"}, {"trash"}>>]
TrashPage   == [restoreAsset    |-> <<{"service", "trash", "assets"}>>,
                restoreOwner    |-> <<{"assets", "users", "service", "trash", "owners"}>>,
                permanentDelete |-> <<{"trash", "service"}>>]

Caller == [service |-> ServicePage, assets |-> AssetsPage, users |-> UsersPage,
           owners |-> OwnersPage, trash |-> TrashPage]
On(o) == CHOOSE p \in DOMAIN Caller : o \in DOMAIN Caller[p]
After(o) == Caller[On(o)][o]

\* handleEvent: the pages that are refreshed when they are the one on the screen.
Refreshed(kind) ==
  {"trash"} \union
  CASE kind = "assets"   -> {"assets", "dashboard"}
    [] kind = "services" -> {"service", "assets", "dashboard"}
    [] kind = "users"    -> {"users"}
    [] kind = "owners"   -> {"owners", "assets", "dashboard"}

\* The rows that the queries of a page read.
AssetsShow    == {"assets", "services", "owners"}
ServiceShows  == {"services"}
UsersShow     == {"users"}
OwnersShow    == {"owners"}
DashboardShows == {"assets", "services", "owners"}
TrashShows    == {"trash"}
Shows(p) == [assets |-> AssetsShow, service |-> ServiceShows, users |-> UsersShow,
             owners |-> OwnersShow, dashboard |-> DashboardShows, trash |-> TrashShows][p]

\* The pages with a refetchInterval.
Polled == {"assets", "service", "dashboard"}

-----------------------------------------------------------------------------
Versions(p) == [Shows(p) -> 0 .. MaxChanges]
Query(p) == [has : BOOLEAN, data : Versions(p), invalid : BOOLEAN,
             fetch : {"idle", "sent", "read"}, got : Versions(p)]
Call   == [at : {"none", "emit", "answer"}, op : DOMAIN Op, mine : BOOLEAN, left : 0 .. 4]
NoCall == [at |-> "none", op |-> CHOOSE o \in Operations : TRUE, mine |-> FALSE, left |-> 0]
Nothing(p) == [k \in Shows(p) |-> 0]
Empty(p)   == [has |-> FALSE, data |-> Nothing(p), invalid |-> FALSE, fetch |-> "idle",
               got |-> Nothing(p)]

ASSUME OperationsAssumption == Operations \subseteq DOMAIN Op /\ Operations # {}

TypeOK ==
  /\ db \in [Kinds -> 0 .. MaxChanges]
  /\ req \in [Requests -> Call]
  /\ stream \in {"connecting", "subscribed", "open", "waiting"}
  /\ before \in BOOLEAN
  /\ wire \in Seq(Kinds)
  /\ page \in Visited
  /\ me \in BOOLEAN
  /\ \A p \in Visited : cache[p] \in Query(p)
  /\ silent \subseteq Pages
  /\ astray \in BOOLEAN
  /\ clobbered \subseteq Pages
  /\ changes \in 0 .. MaxChanges /\ moves \in 0 .. MaxMoves /\ faults \in 0 .. MaxFaults

\* The tab has just been opened, and logged in.
Init ==
  /\ db = [k \in Kinds |-> 0]
  /\ req = [r \in Requests |-> NoCall]
  /\ stream = "connecting" /\ before = FALSE /\ wire = << >>
  /\ page \in Visited
  /\ me = FALSE
  /\ cache = [p \in Visited |-> IF p = page THEN [Empty(p) EXCEPT !.fetch = "sent"] ELSE Empty(p)]
  /\ silent = {} /\ astray = TRUE /\ clobbered = {}
  /\ changes = 0 /\ moves = 0 /\ faults = 0

past == <<silent, astray, clobbered>>

-----------------------------------------------------------------------------
(* The API.                                                                 *)

\* An operation of this tab, or of another user, commits.
Write(r, o, mine) ==
  /\ req[r].at = "none" /\ \A q \in Requests : q < r => req[q].at # "none"
  /\ changes < MaxChanges /\ changes' = changes + 1
  /\ mine => page = On(o) /\ \A q \in Requests : ~req[q].mine
  /\ db' = [k \in Kinds |-> IF k \in Op[o].changes THEN db[k] + 1 ELSE db[k]]
  /\ req' = [req EXCEPT ![r] = [at |-> "emit", op |-> o, mine |-> mine,
                                left |-> IF mine THEN Len(After(o)) ELSE 0]]
  /\ silent' = silent \union
       {p \in Pages : Shows(p) \intersect Op[o].changes # {} /\
                      ~\E i \in DOMAIN Op[o].emits : p \in Refreshed(Op[o].emits[i])}
  /\ UNCHANGED <<stream, before, wire, page, me, cache, astray, clobbered, moves, faults>>

\* The events leave in one go, and reach who is subscribed.
Emit(r) ==
  /\ req[r].at = "emit"
  /\ wire' = IF stream \in {"subscribed", "open"}
             THEN wire \o Op[req[r].op].emits ELSE wire
  /\ IF req[r].left = 0 THEN req' = [req EXCEPT ![r] = NoCall]
     ELSE req' = [req EXCEPT ![r].at = "answer"]
  /\ UNCHANGED <<db, stream, before, page, me, cache, past, changes, moves, faults>>

-----------------------------------------------------------------------------
(* The queries.                                                             *)

\* invalidateQueries: a query on the screen is fetched again, and a fetch that
\* is under way given up, unless it is the first.
Restarts(c, p) == p = page /\ (c.has \/ c.fetch = "idle")
Invalidated(c, p) ==
  [c EXCEPT !.invalid = TRUE,
            !.fetch = IF Restarts(c, p) THEN "sent" ELSE @,
            !.got = IF Restarts(c, p) THEN Nothing(p) ELSE @]
InvalidateAll(ps) ==
  cache' = [p \in Visited |-> IF p \in ps THEN Invalidated(cache[p], p) ELSE cache[p]]
\* The answers that have been read and will be taken in spite of it.
Overtaken(ps) ==
  {p \in ps \intersect Visited : cache[p].fetch = "read" /\ ~(p = page /\ cache[p].has)}

\* What the page does with the answer to its own operation: it waits for the
\* fetch of what it invalidated before it goes on to the next.
OwnAnswer(r) ==
  LET after == After(req[r].op)
      ps == after[Len(after) - req[r].left + 1] IN
  /\ req[r].at = "answer"
  /\ req[r].left < Len(after) => cache[page].fetch = "idle"
  /\ InvalidateAll(ps)
  /\ clobbered' = clobbered \union Overtaken(ps)
  /\ IF req[r].left = 1 THEN req' = [req EXCEPT ![r] = NoCall]
     ELSE req' = [req EXCEPT ![r].left = @ - 1]
  /\ UNCHANGED <<db, stream, before, wire, page, me, silent, astray, changes, moves, faults>>

\* The API reads the rows.
Read(p) ==
  /\ cache[p].fetch = "sent"
  /\ cache' = [cache EXCEPT ![p].fetch = "read", ![p].got = [k \in Shows(p) |-> db[k]]]
  /\ silent' = silent \ {p}
  /\ astray' = IF p = page /\ stream \in {"subscribed", "open"} THEN FALSE ELSE astray
  /\ clobbered' = clobbered \ {p}
  /\ UNCHANGED <<db, req, stream, before, wire, page, me, changes, moves, faults>>

Answer(p) ==
  /\ cache[p].fetch = "read"
  /\ cache' = [cache EXCEPT ![p] = [has |-> TRUE, data |-> cache[p].got, invalid |-> FALSE,
                                    fetch |-> "idle", got |-> Nothing(p)]]
  /\ UNCHANGED <<db, req, stream, before, wire, page, me, past, changes, moves, faults>>

\* After one retry.  What is shown stays, marked as stale.
FetchFails(p) ==
  /\ cache[p].fetch \in {"sent", "read"}
  /\ faults < MaxFaults /\ faults' = faults + 1
  /\ cache' = [cache EXCEPT ![p] = [@ EXCEPT !.fetch = "idle", !.invalid = TRUE,
                                              !.got = Nothing(p)]]
  /\ UNCHANGED <<db, req, stream, before, wire, page, me, past, changes, moves>>

Poll ==
  /\ page \in Polled
  /\ cache[page].fetch = "idle"
  /\ cache' = [cache EXCEPT ![page].fetch = "sent"]
  /\ UNCHANGED <<db, req, stream, before, wire, page, me, past, changes, moves, faults>>

-----------------------------------------------------------------------------
(* The stream.                                                              *)

\* The API subscribes the tab; its answer is on its way.
Subscribe ==
  /\ stream = "connecting"
  /\ stream' = "subscribed"
  /\ UNCHANGED <<db, req, before, wire, page, me, cache, past, changes, moves, faults>>

\* Mutant: a connection that comes back refreshes nothing.
OpenOnly ==
  /\ stream = "subscribed"
  /\ stream' = "open" /\ before' = TRUE
  /\ UNCHANGED <<db, req, wire, page, me, cache, past, changes, moves, faults>>

\* Whatever was emitted while it was down is made up for by fetching everything.
Open ==
  /\ stream = "subscribed"
  /\ stream' = "open" /\ before' = TRUE
  /\ IF before
     THEN /\ InvalidateAll(Pages)
          /\ clobbered' = clobbered \union Overtaken(Pages)
     ELSE UNCHANGED <<cache, clobbered>>
  /\ UNCHANGED <<db, req, wire, page, me, silent, astray, changes, moves, faults>>

\* handleEvent: only the page on the screen is refreshed.
HandleEvent ==
  LET ps == Refreshed(Head(wire)) \intersect {page} IN
  /\ stream = "open" /\ wire # << >>
  /\ wire' = Tail(wire)
  /\ InvalidateAll(ps)
  /\ clobbered' = clobbered \union Overtaken(ps)
  /\ UNCHANGED <<db, req, stream, before, page, me, silent, astray, changes, moves, faults>>

\* A connection that was never read from does not count as one.
Broken ==
  /\ stream' = "waiting" /\ wire' = << >>
  /\ astray' = (astray \/ ~before)

Drop ==
  /\ stream # "waiting"
  /\ faults < MaxFaults /\ faults' = faults + 1
  /\ Broken
  /\ UNCHANGED <<db, req, before, page, me, cache, silent, clobbered, changes, moves>>

\* The API dies: what was committed and not emitted yet is never emitted.
Die ==
  /\ stream # "waiting"
  /\ faults < MaxFaults /\ faults' = faults + 1
  /\ Broken
  /\ req' = [r \in Requests |-> IF req[r].at = "emit" THEN NoCall ELSE req[r]]
  /\ UNCHANGED <<db, before, page, me, cache, silent, clobbered, changes, moves>>

\* Three seconds later.
Reconnect ==
  /\ stream = "waiting"
  /\ stream' = "connecting"
  /\ UNCHANGED <<db, req, before, wire, page, me, cache, past, changes, moves, faults>>

\* The effect runs again: the stream is closed and another opened, which knows
\* nothing of the first.
Restarted == stream' = "connecting" /\ before' = FALSE /\ wire' = << >> /\ astray' = TRUE

\* The tab goes to another page: what it has in its cache is shown for five
\* minutes, unless it was invalidated.
Move(p) ==
  /\ p # page
  /\ moves < MaxMoves /\ moves' = moves + 1
  /\ page' = p
  /\ me' = TRUE
  /\ Restarted
  /\ \/ cache' = [cache EXCEPT ![p].fetch = IF @ = "idle" THEN "sent" ELSE @]
     \/ cache[p].has /\ ~cache[p].invalid /\ UNCHANGED cache
  /\ UNCHANGED <<db, req, silent, clobbered, changes, faults>>

\* refreshUser runs on every move; the user it sets is another object.
MeAnswered ==
  /\ me
  /\ me' = FALSE
  /\ Restarted
  /\ UNCHANGED <<db, req, page, cache, silent, clobbered, changes, moves, faults>>

-----------------------------------------------------------------------------
Next ==
  \/ \E r \in Requests :
       \/ \E o \in Operations, mine \in BOOLEAN : Write(r, o, mine)
       \/ Emit(r) \/ OwnAnswer(r)
  \/ \E p \in Visited : Read(p) \/ Answer(p) \/ FetchFails(p) \/ Move(p)
  \/ Poll \/ Subscribe \/ Open \/ HandleEvent \/ Drop \/ Die \/ Reconnect \/ MeAnswered

Spec == Init /\ [][Next]_vars

-----------------------------------------------------------------------------
(* Properties.                                                              *)

Current(p) == \A k \in Shows(p) : cache[p].data[k] = db[k]
\* Nothing is under way that would still refresh the page.
Settled ==
  /\ stream = "open" /\ wire = << >>
  /\ \A r \in Requests : req[r].at = "none"
  /\ cache[page].fetch = "idle" /\ ~cache[page].invalid

\* A page whose stream is open shows what the database says once everything has
\* arrived, although streams break, the API dies between a commit and its
\* events, and fetches overtake them: unless the operation emits no event for
\* the page, the tab has moved there or its user was read again and nothing was
\* fetched since, or an answer older than an event came after it (handleEvent, connect).
SettledIsCurrent ==
  Settled => Current(page) \/ page \in silent \/ astray \/ page \in clobbered
================================================================================
