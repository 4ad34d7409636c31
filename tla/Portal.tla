-------------------------------- MODULE Portal --------------------------------
(***************************************************************************)
(* What the readers of one organisation are shown: the lists, counters,     *)
(* filters and details of services, assets, owners, users, the trash and    *)
(* the dashboard, each with the rows its own queries select; and the mails  *)
(* that invite them to open a service.                                      *)
(*                                                                          *)
(* A request authenticates, reads what a worker is restricted to, and then  *)
(* asks its queries, in any order (Promise.all).  Rows change in between.   *)
(***************************************************************************)
EXTENDS Naturals, FiniteSets, People

CONSTANTS Services, Assets, Owners,
          NoOwner,           \* a purged account keeps no owner
          WorkerOf, AssetOf, \* who did a service, and on what
          Readers,           \* requests that read at a time
          MaxChanges         \* bound: rows changed

Rows  == Services \union Assets \union Owners \union Accounts

ASSUME PortalAssumption ==
  /\ WorkerOf \in [Services -> With("WORKER")]
  /\ AssetOf \in [Services -> Assets]
  /\ MaxChanges \in Nat
  \* Rows of four tables.
  /\ Services \intersect (Assets \union Owners \union Accounts) = {}
  /\ Assets \intersect (Owners \union Accounts) = {}
  /\ Owners \intersect Accounts = {}

VARIABLES
  db,      \* the rows
  reading, \* the requests that read
  mailing, \* the mails about a service that are being sent
  wrote    \* rows changed

portal == <<db, reading, mailing, wrote>>

States == {"live", "deleted", "purged"}
Modes  == {"UNRESTRICTED", "RESTRICTED"}
Db == [state  : [Rows -> States],
       active : [Assets \union Owners \union Accounts -> BOOLEAN],
       public : [Services -> BOOLEAN],
       archived : [Services -> BOOLEAN],  \* its status: ARCHIVED, or COMPLETED
       batch  : [Rows -> 0..MaxChanges],  \* deleted_at and deleted_by: which removal
       owner  : [Assets \union With("EXTERNAL") -> Owners \union {NoOwner}],
       mode   : [With("WORKER") -> Modes],
       grants : [With("WORKER") -> SUBSET Assets]]

Live(d, X)    == {x \in X : d.state[x] = "live"}
InTrash(d, X) == {x \in X : d.state[x] = "deleted"}
Active(d, X)  == {x \in X : d.active[x]}

-----------------------------------------------------------------------------
(* What each endpoint selects.  A reader is an account u with the owner o   *)
(* and the mode m that its request has read.                                *)

\* worker_access, when the mode is RESTRICTED.
Granted(d, u, m) == IF Worker(u) /\ m = "RESTRICTED" THEN d.grants[u] ELSE Assets
Owned(d, o) == {a \in Assets : d.owner[a] = o}
\* The services that concern the owner of an asset.
PublicOf(d, o) == {s \in Services : d.public[s] /\ AssetOf[s] \in Owned(d, o)}
\* The pages of services show him the completed ones; the other pages do not ask.
CompletedOf(d, o) == {s \in PublicOf(d, o) : ~d.archived[s]}

ServiceList(d, u, o, m, trashed) ==
  {s \in IF trashed /\ Worker(u) THEN Services ELSE Live(d, Services) :
     /\ Worker(u) => WorkerOf[s] = u /\ AssetOf[s] \in Granted(d, u, m)
     /\ External(u) => s \in CompletedOf(d, o)}

\* Mutant: the counters include what is in the trash.
StatsWithTrash(d, u, o) ==
  {s \in Services : /\ Worker(u) => WorkerOf[s] = u
                    /\ External(u) => s \in CompletedOf(d, o)}

ServiceStats(d, u, o) ==
  {s \in Live(d, Services) : /\ Worker(u) => WorkerOf[s] = u
                             /\ External(u) => s \in CompletedOf(d, o)}

\* The workers and the assets a list can be filtered by.
ServiceOptions(d, u, o) ==
  LET some == {s \in Live(d, Services) : /\ Worker(u) => WorkerOf[s] = u
                                         /\ External(u) => s \in CompletedOf(d, o)}
  IN {WorkerOf[s] : s \in some} \union {AssetOf[s] : s \in some}

\* The services, and the ones in the trash, that an account can open.
ServiceDetail(d, u, o) ==
  {s \in Live(d, Services) : External(u) => s \in PublicOf(d, o)}
ServiceForTrash(d) == {s \in Services : d.state[s] # "live"}

\* The services whose videos it can play, and whose files it can download.
Playable(d, u, o) ==
  {s \in Live(d, Services) : External(u) => d.public[s] /\ d.owner[AssetOf[s]] = o}
VideoDownloadable(d, u, o) ==
  {s \in Live(d, Services) : External(u) => d.public[s] /\ d.owner[AssetOf[s]] = o}
Downloadable(d) == Live(d, Services)
\* What a visitor with a valid link is shown, and can play and download.
Shared(d) == Live(d, Services)
SharedPlayable(d) == {s \in Services : d.state[s] = "live"}
SharedDownloadable(d) == {s \in Services : d.state[s] = "live"}

AssetList(d, u, o, m) ==
  {a \in Live(d, Assets) :
     /\ ~Manager(u) => d.active[a]
     /\ a \in Granted(d, u, m)
     /\ External(u) => d.owner[a] = o}

AssetStats(d, u, o, m, part) ==
  LET some == {a \in Live(d, Assets) :
                 /\ ~Manager(u) => d.active[a]
                 /\ a \in Granted(d, u, m)
                 /\ External(u) => d.owner[a] = o}
  IN CASE part = "total"  -> some
       [] part = "active" -> Active(d, some)
       [] part = "used"   -> {a \in some : \E s \in Services : AssetOf[s] = a}

AssetOptions(d, u, o, m) ==
  LET some == {a \in Live(d, Assets) :
                 /\ ~Manager(u) => d.active[a]
                 /\ a \in Granted(d, u, m)
                 /\ External(u) => d.owner[a] = o}
  IN {d.owner[a] : a \in some}

AssetDetail(d, u, o) == {a \in Live(d, Assets) : External(u) => d.owner[a] = o}
AssetForTrash(d) == {a \in Assets : d.state[a] # "live"}
\* The services that the detail of an asset lists.
History(d, u, a) ==
  {s \in Live(d, Services) : AssetOf[s] = a /\ (External(u) => d.public[s])}

OwnerList(d) == Live(d, Owners)
OwnerDetail(d) == Live(d, Owners)
OwnerForTrash(d) == {o \in Owners : d.state[o] # "live"}
\* What the list of owners counts, and the detail of one shows.
Holdings(d, o) == {a \in Active(d, Live(d, Assets)) : d.owner[a] = o}

UserStats(d, u) ==
  {x \in Live(d, Accounts) : RoleOf[u] = "SUPER_ADMIN" \/ RoleOf[x] # "SUPER_ADMIN"}
UserList(d, u) ==
  {x \in Live(d, Accounts) :
     /\ Worker(u) => External(x)
     /\ RoleOf[u] = "SUPER_ADMIN" \/ RoleOf[x] # "SUPER_ADMIN"}
\* findOne asks for no deleted_at: the trash shows a user with it, too.
UserDetail(u) == IF Manager(u) THEN Accounts ELSE {}

TrashList(d) == InTrash(d, Rows)
TrashDetail(d, u) ==
  ServiceForTrash(d) \union AssetForTrash(d) \union OwnerForTrash(d) \union UserDetail(u)

\* getStats of the dashboard, a number at a time.
Dashboard(d, u, o, m, part) ==
  LET some == {s \in Live(d, Services) : /\ Worker(u) => WorkerOf[s] = u
                                         /\ External(u) => s \in PublicOf(d, o)}
  IN CASE part = "assets"   -> {a \in Active(d, Live(d, Assets)) :
                                  IF External(u) THEN d.owner[a] = o
                                                 ELSE a \in Granted(d, u, m)}
       [] part = "services" -> some
       [] part = "workers"  -> IF Manager(u) THEN Active(d, Live(d, With("WORKER"))) ELSE {}
       [] part = "owners"   -> IF Manager(u) THEN Active(d, Live(d, Owners)) ELSE {}
\* The assets serviced, which a raw query of the same dashboard counts: of an
\* external reader it leaves out the assets in the trash.
Distinct(d, u, o) ==
  {AssetOf[s] : s \in {x \in Live(d, Services) :
     /\ Worker(u) => WorkerOf[x] = u
     /\ External(u) => d.public[x] /\ AssetOf[x] \in Live(d, Owned(d, o))}}

Ends == [services |-> {"rows"}, serviceStats |-> {"total"}, serviceOptions |-> {"names"},
         assets |-> {"rows"}, assetStats |-> {"total", "active", "used"},
         assetOptions |-> {"owners"},
         dashboard |-> {"assets", "services", "workers", "owners", "distinct"}]

Query(d, e, part, u, o, m) ==
  CASE e = "services"       -> ServiceList(d, u, o, m, FALSE)
    [] e = "serviceStats"   -> ServiceStats(d, u, o)
    [] e = "serviceOptions" -> ServiceOptions(d, u, o)
    [] e = "assets"         -> AssetList(d, u, o, m)
    [] e = "assetStats"     -> AssetStats(d, u, o, m, part)
    [] e = "assetOptions"   -> AssetOptions(d, u, o, m)
    [] e = "dashboard"      -> IF part = "distinct" THEN Distinct(d, u, o)
                               ELSE Dashboard(d, u, o, m, part)

\* The owner and the mode that a request would read now.
OwnerOf(d, u) == IF External(u) THEN d.owner[u] ELSE CHOOSE o \in Owners : TRUE
ModeOf(d, u)  == IF Worker(u) THEN d.mode[u] ELSE "UNRESTRICTED"
Now(d, e, part, u) == Query(d, e, part, u, OwnerOf(d, u), ModeOf(d, u))

-----------------------------------------------------------------------------
NotReading == [at |-> "idle"]
NoMail == [at |-> "idle"]

\* Nothing is in the trash or archived, and everything is active: publications, owners and
\* restrictions are any.
FirstDbs ==
  {d \in [state  : {[x \in Rows |-> "live"]},
          active : {[x \in Assets \union Owners \union Accounts |-> TRUE]},
          public : [Services -> BOOLEAN],
          archived : {[s \in Services |-> FALSE]},
          batch  : {[x \in Rows |-> 0]},
          owner  : [Assets \union With("EXTERNAL") -> Owners],
          mode   : [With("WORKER") -> Modes],
          grants : [With("WORKER") -> SUBSET Assets]] :
     \A u \in With("WORKER") : d.mode[u] = "UNRESTRICTED" => d.grants[u] = {}}

PortalInit ==
  /\ db \in FirstDbs
  /\ reading = [r \in Readers |-> NotReading]
  /\ mailing = NoMail
  /\ wrote = 0

\* A request passes the guard, which reads its account (JwtStrategy.validate).
Get(r, u, e, part) ==
  /\ reading[r].at = "idle"
  /\ u \in Active(db, Accounts) /\ db.state[u] # "purged"
  /\ reading' = [reading EXCEPT ![r] =
       [at |-> IF Worker(u) THEN "mode" ELSE "query", who |-> u, end |-> e, part |-> part,
        owner |-> OwnerOf(db, u), mode |-> "UNRESTRICTED", seen |-> {Now(db, e, part, u)},
        odd |-> FALSE, changed |-> {}]]
  /\ UNCHANGED <<db, mailing, wrote>>

\* Mutant: the mode is taken for the one of the last request.
ReadNoMode(r) ==
  /\ reading[r].at = "mode"
  /\ reading' = [reading EXCEPT ![r].at = "query"]
  /\ UNCHANGED <<db, mailing, wrote>>

ReadMode(r) ==
  /\ reading[r].at = "mode"
  /\ reading' = [reading EXCEPT ![r].at = "query", ![r].mode = db.mode[reading[r].who]]
  /\ UNCHANGED <<db, mailing, wrote>>

RunQuery(r) ==
  LET q == reading[r]
      rows == Query(db, q.end, q.part, q.who, q.owner, q.mode)
  IN /\ q.at = "query"
     /\ reading' = [reading EXCEPT ![r].at = "answer", ![r].odd = rows \notin q.seen]
     /\ UNCHANGED <<db, mailing, wrote>>

Reply(r) ==
  /\ reading[r].at = "answer"
  /\ reading' = [reading EXCEPT ![r] = NotReading]
  /\ UNCHANGED <<db, mailing, wrote>>

-----------------------------------------------------------------------------
(* What changes the rows.                                                   *)

\* history: what has changed while a request reads, and what it could have shown.
Lifted(q, d) == q.at = "query" /\ q.mode = "RESTRICTED" /\ ModeOf(d, q.who) = "UNRESTRICTED"
Watched(q, d) ==
  IF q.at \notin {"mode", "query"} THEN q
  ELSE [q EXCEPT
          !.seen = @ \union {Now(d, q.end, q.part, q.who)},
          !.changed = @ \union
            (IF Lifted(q, d) THEN {"lifted"} ELSE {}) \union
            (IF \/ OwnerOf(d, q.who) # OwnerOf(db, q.who) \/ ModeOf(d, q.who) # ModeOf(db, q.who)
                \/ Worker(q.who) /\ d.grants[q.who] # db.grants[q.who]
             THEN {"account"} ELSE {"rows"})]

Commit(d) ==
  /\ wrote < MaxChanges /\ wrote' = wrote + 1
  /\ d # db
  /\ db' = d
  /\ reading' = [r \in Readers |-> Watched(reading[r], d)]

\* One transaction: the mode, and the grants of the list that was sent.
SetAssetAccess(u, m, g) ==
  /\ Commit([db EXCEPT !.mode[u] = m, !.grants[u] = IF m = "UNRESTRICTED" THEN {} ELSE g])
  /\ UNCHANGED mailing

\* An update of a user: the owner of an external one, the mode alone of a worker.
UpdateUser(u) ==
  /\ \/ \E o \in Active(db, Owners) : External(u) /\ Commit([db EXCEPT !.owner[u] = o])
     \/ \E m \in Modes : Worker(u) /\ Commit([db EXCEPT !.mode[u] = m])
  /\ UNCHANGED mailing

ToggleUser(u) ==
  Commit([db EXCEPT !.active[u] = ~@]) /\ UNCHANGED mailing

AssignOwner(a, o) == Commit([db EXCEPT !.owner[a] = o]) /\ UNCHANGED mailing

ToggleStatus(a, b) ==
  /\ a \in Live(db, Assets)
  /\ Commit([db EXCEPT !.active[a] = b])
  /\ UNCHANGED mailing

DeactivateOwner(o) ==
  /\ o \in Live(db, Owners)
  /\ Commit([db EXCEPT !.active =
       [x \in DOMAIN @ |-> @[x] /\ x # o /\ ~(x \in Assets /\ db.owner[x] = o)]])
  /\ UNCHANGED mailing

Trashed(xs) ==
  [db EXCEPT !.state  = [x \in Rows |-> IF x \in xs /\ @[x] = "live" THEN "deleted" ELSE @[x]],
             !.batch  = [x \in Rows |-> IF x \in xs THEN wrote + 1 ELSE @[x]],
             !.active = [x \in DOMAIN @ |-> @[x] /\ x \notin xs]]
On(as) == {s \in Live(db, Services) : AssetOf[s] \in as}

RemoveService(s) ==
  s \in Live(db, Services) /\ Commit(Trashed({s})) /\ UNCHANGED mailing

RemoveAsset(a) ==
  /\ a \in Live(db, Assets)
  /\ \E ss \in {{}, On({a})} : Commit(Trashed({a} \union ss))
  /\ UNCHANGED mailing

RemoveOwner(o) ==
  LET as == Live(db, Owned(db, o))
      us == {u \in Live(db, With("EXTERNAL")) : db.owner[u] = o}
  IN /\ o \in Live(db, Owners)
     /\ \E xs \in {{}, as \union us, as \union us \union On(as)} : Commit(Trashed({o} \union xs))
     /\ UNCHANGED mailing

RemoveUser(u) == Commit(Trashed({u})) /\ UNCHANGED mailing

\* What a restore of x can bring back with it: what the same removal took.
TakenWith(x, X) == {y \in InTrash(db, X) : db.batch[y] = db.batch[x]}

Restore(x, xs) ==
  /\ x \in InTrash(db, Rows)
  /\ CASE x \in Services -> xs = {} /\ AssetOf[x] \in Live(db, Assets)
       [] x \in Assets   -> /\ xs \in {{}, {s \in TakenWith(x, Services) : AssetOf[s] = x}}
                            /\ db.owner[x] \in Live(db, Owners)
       [] x \in Owners   ->
            LET as == {a \in TakenWith(x, Assets) : db.owner[a] = x}
                ss == {s \in TakenWith(x, Services) : AssetOf[s] \in as}
                us == {u \in TakenWith(x, With("EXTERNAL")) : db.owner[u] = x}
            IN xs \in {y \union z : y \in {{}, as, as \union ss}, z \in {{}, us}}
       [] x \in Accounts -> xs = {}
  /\ Commit([db EXCEPT !.state  = [y \in Rows |-> IF y \in {x} \union xs THEN "live" ELSE @[y]],
                       !.batch  = [y \in Rows |-> IF y \in {x} \union xs THEN 0 ELSE @[y]],
                       !.active = [y \in DOMAIN @ |-> @[y] \/ y \in {x} \union xs]])
  /\ UNCHANGED mailing

\* What else a purge empties: the grants on an asset, or of a worker, the
\* publication of a service, the owner of an account.
Purge(x) ==
  /\ x \in InTrash(db, Rows)
  /\ Commit([db EXCEPT
       !.state[x] = "purged",
       !.active = [y \in DOMAIN @ |-> @[y] /\ y # x],
       !.public = [s \in Services |-> @[s] /\ s # x],
       !.owner  = [y \in DOMAIN @ |-> IF y = x /\ x \in Accounts THEN NoOwner ELSE @[y]],
       !.grants = [u \in DOMAIN @ |-> IF u = x THEN {} ELSE @[u] \ {x}]])
  /\ UNCHANGED mailing

-----------------------------------------------------------------------------
(* Mails.                                                                   *)

\* An edit of a service: whether it is public, and its status; and what is sent when
\* it was published, or was public: the mails of one edit at a time.
UpdateService(s, b, z) ==
  /\ s \in Live(db, Services)
  /\ b => mailing.at = "idle"
  /\ mailing' = IF ~b THEN mailing
                ELSE [at |-> IF db.public[s] THEN "editors" ELSE "asset", about |-> s]
  /\ IF db.public[s] = b /\ db.archived[s] = z THEN UNCHANGED <<db, reading, wrote>>
     ELSE Commit([db EXCEPT !.public[s] = b, !.archived[s] = z])

\* The other admins are told of an edit, and nobody else.
NotifyEdited ==
  /\ mailing.at = "editors"
  /\ \E editor \in {u \in Accounts : Manager(u)} :
       mailing' = [at |-> "sent", about |-> mailing.about,
                   to |-> Active(db, With("ADMIN")) \ {editor}, owner |-> NoOwner]
  /\ UNCHANGED <<db, reading, wrote>>

\* The worker is told of a video that could not be processed, whatever became of
\* the service, or of his account, since he sent it.
NotifyVideoFailed(s) ==
  /\ mailing.at = "idle"
  /\ mailing' = [at |-> "sent", about |-> s, to |-> {WorkerOf[s]}, owner |-> NoOwner]
  /\ UNCHANGED <<db, reading, wrote>>

\* notifyServiceCompleted: the asset is read, the admins, and then who has its owner.
ReadAsset ==
  /\ mailing.at = "asset"
  /\ mailing' = [at |-> "admins", about |-> mailing.about, owner |-> db.owner[AssetOf[mailing.about]]]
  /\ UNCHANGED <<db, reading, wrote>>

MailAdmins ==
  /\ mailing.at = "admins"
  /\ mailing' = [mailing EXCEPT !.at = "externals"]
  /\ UNCHANGED <<db, reading, wrote>>

\* Mutant: every external user of the organisation.
MailEverybody ==
  /\ mailing.at = "externals"
  /\ mailing' = [at |-> "sent", about |-> mailing.about, owner |-> mailing.owner,
                 to |-> Active(db, With("EXTERNAL"))]
  /\ UNCHANGED <<db, reading, wrote>>

MailExternals ==
  /\ mailing.at = "externals"
  /\ mailing' = [at |-> "sent", about |-> mailing.about, owner |-> mailing.owner,
                 to |-> {u \in Active(db, With("EXTERNAL")) : db.owner[u] = mailing.owner}]
  /\ UNCHANGED <<db, reading, wrote>>

Sent ==
  /\ mailing.at = "sent"
  /\ mailing' = NoMail
  /\ UNCHANGED <<db, reading, wrote>>

PortalChange ==
  \/ \E u \in With("WORKER"), m \in Modes, g \in SUBSET Assets : SetAssetAccess(u, m, g)
  \/ \E u \in Accounts : UpdateUser(u) \/ ToggleUser(u) \/ RemoveUser(u)
  \/ \E a \in Assets, o \in Owners : AssignOwner(a, o)
  \/ \E a \in Assets, b \in BOOLEAN : ToggleStatus(a, b)
  \/ \E o \in Owners : DeactivateOwner(o) \/ RemoveOwner(o)
  \/ \E s \in Services : RemoveService(s)
  \/ \E a \in Assets : RemoveAsset(a)
  \/ \E x \in InTrash(db, Rows) :
       Purge(x) \/ \E xs \in SUBSET InTrash(db, Rows \ {x}) : Restore(x, xs)

PortalRead ==
  \E r \in Readers :
    \/ \E u \in Accounts, e \in DOMAIN Ends : \E part \in Ends[e] : Get(r, u, e, part)
    \/ ReadMode(r) \/ RunQuery(r) \/ Reply(r)

PortalMail ==
  \/ \E s \in Services, b, z \in BOOLEAN : UpdateService(s, b, z)
  \/ \E s \in Services : NotifyVideoFailed(s)
  \/ NotifyEdited \/ ReadAsset \/ MailAdmins \/ MailExternals \/ Sent

PortalNext == PortalChange \/ PortalRead \/ PortalMail

PortalSpec == PortalInit /\ [][PortalNext]_portal

-----------------------------------------------------------------------------
(* Properties.                                                              *)

Readable(u) == u \in Active(db, Accounts) /\ db.state[u] # "purged"

\* The list of services, its counters, its filters, the detail and the player of a
\* service agree: what a list shows can be opened and played, what is counted is
\* what the list holds, the filters name what it holds.  The counters and the
\* filters of a restricted worker count what his list leaves out.  An archived
\* service is the one thing that an external reader can open, and whose videos he
\* can play, without finding it in his list.
ServicePagesAgree(u, o, m) ==
  LET rows == ServiceList(db, u, o, m, FALSE)
      all  == ServiceStats(db, u, o)
  IN /\ rows \subseteq ServiceDetail(db, u, o)
     /\ ServiceDetail(db, u, o) = Playable(db, u, o) \intersect Downloadable(db)
     /\ Playable(db, u, o) = VideoDownloadable(db, u, o)
     /\ Shared(db) = SharedPlayable(db) /\ SharedDownloadable(db) \subseteq Shared(db)
     /\ IF m = "RESTRICTED" THEN rows \subseteq all ELSE rows = all \/ Manager(u)
     /\ Manager(u) => rows = all
     /\ ServiceOptions(db, u, o) = {WorkerOf[s] : s \in all} \union {AssetOf[s] : s \in all}
     /\ rows = Live(db, ServiceList(db, u, o, m, TRUE))
     /\ External(u) => rows = {s \in ServiceDetail(db, u, o) : ~db.archived[s]}

\* The same of the assets, and of what the detail of an asset lists.
AssetPagesAgree(u, o, m) ==
  LET rows == AssetList(db, u, o, m)
  IN /\ rows \subseteq AssetDetail(db, u, o)
     /\ AssetStats(db, u, o, m, "total") = rows
     /\ AssetStats(db, u, o, m, "active") = Active(db, rows)
     /\ AssetOptions(db, u, o, m) = {db.owner[a] : a \in rows}
     /\ \A a \in AssetDetail(db, u, o) : History(db, u, a) \subseteq ServiceDetail(db, u, o)
     /\ ServiceList(db, u, o, m, FALSE) \subseteq
          (UNION {History(db, u, a) : a \in AssetDetail(db, u, o)}) \union
          {s \in Services : AssetOf[s] \notin Live(db, Assets)}
     /\ Manager(u) => \A x \in Owners : Holdings(db, x) = {a \in Active(db, rows) : db.owner[a] = x}

\* And the dashboard: it counts what the lists hold, and of an external reader the
\* archived services, too; the assets it counts are those of the services it counts,
\* less, of an external reader, the ones in the trash.
DashboardAgrees(u, o, m) ==
  LET all == Dashboard(db, u, o, m, "services")
  IN /\ ServiceStats(db, u, o) = {s \in all : External(u) => ~db.archived[s]}
     /\ Dashboard(db, u, o, m, "assets") = Active(db, AssetList(db, u, o, m))
     /\ Distinct(db, u, o) =
          {a \in {AssetOf[s] : s \in all} : External(u) => a \in Live(db, Assets)}
     /\ Manager(u) => /\ Dashboard(db, u, o, m, "workers") \subseteq UserList(db, u)
                      /\ Dashboard(db, u, o, m, "owners") \subseteq OwnerList(db)

\* All three, looked at between requests.
PagesAgree ==
  (mailing = NoMail /\ \A r \in Readers : reading[r] = NotReading) =>
  \A u \in Accounts : Readable(u) =>
    /\ ServicePagesAgree(u, OwnerOf(db, u), ModeOf(db, u))
    /\ AssetPagesAgree(u, OwnerOf(db, u), ModeOf(db, u))
    /\ DashboardAgrees(u, OwnerOf(db, u), ModeOf(db, u))

\* An answer is what the same request, made at one moment since it was made, would
\* have shown: except when the restriction of its worker was lifted between the
\* two reads, or both the account and the rows changed in between.
ListOfOneMoment ==
  \A r \in Readers :
    reading[r].at = "answer" /\ reading[r].odd =>
      "lifted" \in reading[r].changed \/ {"account", "rows"} \subseteq reading[r].changed

\* Who is mailed that a service was published can open it, unless since then it was
\* removed, withdrawn, or its asset given to another owner.
MailedCanOpen ==
  [][mailing.at = "externals" /\ mailing'.at = "sent" =>
       LET s == mailing.about
       IN \/ db.state[s] # "live" \/ ~db.public[s] \/ db.owner[AssetOf[s]] # mailing.owner
          \/ \A u \in mailing'.to : s \in ServiceDetail(db, u, db.owner[u])]_portal
=============================================================================
