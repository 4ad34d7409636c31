-------------------------------- MODULE Trash --------------------------------
(***************************************************************************)
(* Removal, restore and permanent deletion of owners, their assets, the    *)
(* services of an asset and the EXTERNAL users of an owner:                *)
(*   backend/src/trash/trash.service.ts                                    *)
(*   the remove handlers of companies, assets, services and users          *)
(*                                                                         *)
(* A handler reads its rows in awaits of their own and writes in a later   *)
(* one, so each is a request that holds what it has read.  A request that  *)
(* dies between two steps is Abort.                                        *)
(*                                                                         *)
(* The pair (deleted_at, deleted_by_id) is a stamp: the code only compares *)
(* it for equality and with null (Live).  A stamp is new when no row and   *)
(* no request holds it; two removals by one admin within one millisecond,  *)
(* which would share it, are left out.  is_active follows the trash and is *)
(* read by nothing here; it is left out too.                               *)
(***************************************************************************)
EXTENDS FiniteSets

CONSTANTS Owners, Assets, Services, Users,
          AssetOf,      \* the asset of a service
          FirstOwner,   \* the owner of an asset at the start
          OwnerOf,      \* the owner an EXTERNAL user belongs to
          Uploading,    \* services with a video that is still on its way
          Stamps, Live, \* values of (deleted_at, deleted_by_id), and null
          Requests,     \* calls of the handlers, each of which runs once
          NoRow

Rows == Owners \union Assets \union Services \union Users

ASSUME RowsAssumption ==
  /\ NoRow \notin Rows
  /\ Owners \intersect (Assets \union Services \union Users) = {}
  /\ Assets \intersect (Services \union Users) = {}
  /\ Services \intersect Users = {}
ASSUME RelationsAssumption ==
  /\ AssetOf \in [Services -> Assets]
  /\ FirstOwner \in [Assets -> Owners]
  /\ OwnerOf \in [Users -> Owners]
  /\ Uploading \subseteq Services
ASSUME LiveAssumption == Live \notin Stamps

VARIABLES deleted,   \* [Rows -> stamp or Live]
          purged,    \* rows with purged_at set, whose name is anonymised
          owner_id,  \* [Assets -> Owners]
          snapshot,  \* worker_snapshot_title and worker_snapshot_asset_name
          attached,  \* services that have attachment rows
          uploads,   \* services with an upload that is not attached yet
          requests,  \* what each handler has read, and its next step
          batch      \* history: the rows trashed together with a row

rows == <<deleted, purged, owner_id, snapshot, attached, uploads, batch>>
vars == <<rows, requests>>

\* What a name column holds: nothing, the name, or "Asset eliminado".
Text == {"none", "real", "placeholder"}
Removals == {"removeOwner", "removeAsset", "removeService", "removeUser"}
Restores == {"restoreOwner", "restoreAsset", "restoreService", "restoreUser"}
Options == {"assets", "services", "users"}

Request ==
  [op : Removals \union Restores \union {"idle", "purge", "done"},
   next : {"assets", "services", "attachments", "uploads", "write"},
   row : Rows \union {NoRow}, stamp : Stamps \union {Live}, with : SUBSET Options,
   assets : SUBSET Assets, services : SUBSET Services, asset_name : Text]

Idle == [op |-> "idle", next |-> "write", row |-> NoRow, stamp |-> Live,
         with |-> {}, assets |-> {}, services |-> {}, asset_name |-> "none"]
Done == [Idle EXCEPT !.op = "done"]

TypeOK ==
  /\ deleted \in [Rows -> Stamps \union {Live}]
  /\ purged \subseteq Rows
  /\ owner_id \in [Assets -> Owners]
  /\ snapshot \in [Services -> [title : Text, asset_name : Text]]
  /\ attached \subseteq Services
  /\ uploads \subseteq Services
  /\ requests \in [Requests -> Request]
  /\ batch \in [Rows -> SUBSET Rows]

Init ==
  /\ deleted = [x \in Rows |-> Live]
  /\ purged = {}
  /\ owner_id = FirstOwner
  /\ snapshot = [s \in Services |-> [title |-> "none", asset_name |-> "none"]]
  /\ attached = {}
  /\ uploads = Uploading
  /\ requests = [r \in Requests |-> Idle]
  /\ batch = [x \in Rows |-> {}]

-----------------------------------------------------------------------------
\* deleted_at: null, purged_at: null
IsLive(x) == deleted[x] = Live /\ x \notin purged

\* deleted_at: { not: null }, purged_at: null
InTrash(x) == deleted[x] # Live /\ x \notin purged

LiveAssets(o) == {a \in Assets : owner_id[a] = o /\ IsLive(a)}
LiveUsers(o) == {u \in Users : OwnerOf[u] = o /\ IsLive(u)}
LiveServices(A) == {s \in Services : AssetOf[s] \in A /\ IsLive(s)}

\* Mutant: everything of the family that is in the trash comes back.
SignedByAnyone(X, stamp) == {x \in X : deleted[x] # Live /\ x \notin purged}

\* Mutant: the filter on purged_at is forgotten.
SignedOrPurged(X, stamp) == {x \in X : deleted[x] = stamp}

\* The rows of X that carry the signature of one removal and are not purged.
Signed(X, stamp) == {x \in X : deleted[x] = stamp /\ x \notin purged}

AssetName(a) == IF a \in purged THEN "placeholder" ELSE "real"

NewStamps ==
  {s \in Stamps : /\ \A x \in Rows : deleted[x] # s
                  /\ \A r \in Requests : requests[r].stamp # s}

\* A handler that passed its check; nothing is written yet.
Begin(r, request) ==
  /\ requests[r] = Idle
  /\ requests' = [requests EXCEPT ![r] = request]
  /\ UNCHANGED rows

AtWrite(r, op) == requests[r].op = op /\ requests[r].next = "write"

Finish(r) == requests' = [requests EXCEPT ![r] = Done]

MoveToTrash(X, stamp) ==
  /\ deleted' = [x \in Rows |-> IF x \in X THEN stamp ELSE deleted[x]]
  /\ batch' = [x \in Rows |-> IF x \in X THEN X ELSE batch[x]]
  /\ UNCHANGED <<purged, owner_id, attached, uploads>>

\* Mutant: an updateMany that cannot write each service its own title.
FreezeForgetsTitle(S, asset_name) ==
  snapshot' = [s \in Services |->
                 IF s \in S THEN [snapshot[s] EXCEPT !.asset_name = asset_name]
                            ELSE snapshot[s]]

\* worker_snapshot_*: the cascades read live, hence not anonymised, assets.
Freeze(S, asset_name) ==
  snapshot' = [s \in Services |->
                 IF s \in S THEN [title |-> "real", asset_name |-> asset_name]
                            ELSE snapshot[s]]

TakeOut(X) ==
  /\ deleted' = [x \in Rows |-> IF x \in X THEN Live ELSE deleted[x]]
  /\ UNCHANGED <<purged, owner_id, snapshot, attached, uploads, batch>>

-----------------------------------------------------------------------------
(* Removal.  The date is taken right after the check.                       *)

Removal(op, x, stamp, with, next) ==
  [Idle EXCEPT !.op = op, !.row = x, !.stamp = stamp, !.with = with, !.next = next]

RemoveOwner(r, o) ==
  /\ IsLive(o)
  /\ \E stamp \in NewStamps, with \in {{}, {"assets"}, {"assets", "services"}} :
       Begin(r, Removal("removeOwner", o, stamp, with,
                        IF "services" \in with THEN "assets" ELSE "write"))

RemoveAsset(r, a) ==
  /\ IsLive(a)
  /\ \E stamp \in NewStamps, with \in SUBSET {"services"} :
       Begin(r, Removal("removeAsset", a, stamp, with,
                        IF "services" \in with THEN "services" ELSE "write"))

RemoveService(r, s) ==
  /\ IsLive(s)
  /\ \E stamp \in NewStamps :
       Begin(r, [Removal("removeService", s, stamp, {}, "write")
                   EXCEPT !.asset_name = AssetName(AssetOf[s])])

\* findOne does not ask whether the user is in the trash already.
RemoveUser(r, u) ==
  \E stamp \in NewStamps : Begin(r, Removal("removeUser", u, stamp, {}, "write"))

\* The ids of the owner's assets that the next query is about.
ReadAssets(r) ==
  LET q == requests[r]
      ids == IF q.op = "removeOwner"
               THEN LiveAssets(q.row)
               ELSE Signed({a \in Assets : owner_id[a] = q.row}, q.stamp)
  IN /\ q.op \in {"removeOwner", "restoreOwner"} /\ q.next = "assets"
     /\ requests' = [requests EXCEPT ![r].assets = ids,
                       ![r].next = IF q.op = "removeOwner" /\ ids # {}
                                     THEN "services" ELSE "write"]
     /\ UNCHANGED rows

\* servicesToCascade, written one by one because each freezes its own title.
ReadServices(r) ==
  LET q == requests[r]
      parents == IF q.op = "removeAsset" THEN {q.row} ELSE q.assets
  IN /\ q.op \in {"removeAsset", "removeOwner"} /\ q.next = "services"
     /\ requests' = [requests EXCEPT ![r].services = LiveServices(parents),
                                     ![r].next = "write"]
     /\ UNCHANGED rows

\* Mutant: the assets are those that were read, as for the services.
OwnerCascadeRead(q) ==
  IF "assets" \in q.with THEN q.assets \union LiveUsers(q.row) ELSE {}

\* The assets and the users are those that match at this moment, the services
\* those that were read.
OwnerCascade(q) ==
  IF "assets" \in q.with THEN LiveAssets(q.row) \union LiveUsers(q.row) ELSE {}

WriteRemoveOwner(r) ==
  LET q == requests[r]
  IN /\ AtWrite(r, "removeOwner")
     /\ MoveToTrash({q.row} \union OwnerCascade(q) \union q.services, q.stamp)
     /\ Freeze(q.services, "real")
     /\ Finish(r)

WriteRemoveAsset(r) ==
  LET q == requests[r]
  IN /\ AtWrite(r, "removeAsset")
     /\ MoveToTrash({q.row} \union q.services, q.stamp)
     /\ Freeze(q.services, "real")
     /\ Finish(r)

WriteRemoveService(r) ==
  LET q == requests[r]
  IN /\ AtWrite(r, "removeService")
     /\ MoveToTrash({q.row}, q.stamp)
     /\ Freeze({q.row}, q.asset_name)
     /\ Finish(r)

WriteRemoveUser(r) ==
  /\ AtWrite(r, "removeUser")
  /\ MoveToTrash({requests[r].row}, requests[r].stamp)
  /\ UNCHANGED snapshot
  /\ Finish(r)

-----------------------------------------------------------------------------
(* Restore.  The stamp is the one the row had when it was read.             *)

Restore(op, x, with, next) == Removal(op, x, deleted[x], with, next)

RestoreOwner(r, o) ==
  /\ InTrash(o)
  /\ \E with \in SUBSET Options :
       /\ "services" \in with => "assets" \in with
       /\ Begin(r, Restore("restoreOwner", o, with,
                           IF "services" \in with THEN "assets" ELSE "write"))

RestoreAsset(r, a) ==
  /\ InTrash(a)
  /\ IsLive(owner_id[a])
  /\ \E with \in SUBSET {"services"} :
       Begin(r, Restore("restoreAsset", a, with, "write"))

RestoreService(r, s) ==
  /\ InTrash(s)
  /\ IsLive(AssetOf[s])
  /\ Begin(r, Restore("restoreService", s, {}, "write"))

RestoreUser(r, u) ==
  /\ InTrash(u)
  /\ Begin(r, Restore("restoreUser", u, {}, "write"))

\* The children a restore asks back: those of its row with the same stamp.
RestoredChildren(q) ==
  LET assets == {a \in Assets : q.op = "restoreOwner" /\ owner_id[a] = q.row}
      services == {s \in Services :
                     IF q.op = "restoreAsset" THEN AssetOf[s] = q.row
                                              ELSE AssetOf[s] \in q.assets}
      users == {u \in Users : q.op = "restoreOwner" /\ OwnerOf[u] = q.row}
  IN Signed({x \in assets : "assets" \in q.with}
              \union {x \in services : "services" \in q.with}
              \union {x \in users : "users" \in q.with}, q.stamp)

\* The row itself is updated by id, whatever it has become since it was read.
WriteRestore(r) ==
  /\ \E op \in Restores : AtWrite(r, op)
  /\ TakeOut({requests[r].row} \union RestoredChildren(requests[r]))
  /\ Finish(r)

-----------------------------------------------------------------------------
(* Permanent deletion: no transaction, one await after the other.           *)

PermanentDelete(r, x) ==
  /\ InTrash(x)
  /\ Begin(r, Restore("purge", x, {},
                      IF x \in Services THEN "attachments" ELSE "write"))

\* Attachments, share links and translations of the service.
PurgeAttachments(r) ==
  /\ requests[r].op = "purge" /\ requests[r].next = "attachments"
  /\ attached' = attached \ {requests[r].row}
  /\ requests' = [requests EXCEPT ![r].next = "uploads"]
  /\ UNCHANGED <<deleted, purged, owner_id, snapshot, uploads, batch>>

\* purgeUploadsForService
PurgeUploads(r) ==
  /\ requests[r].op = "purge" /\ requests[r].next = "uploads"
  /\ uploads' = uploads \ {requests[r].row}
  /\ requests' = [requests EXCEPT ![r].next = "write"]
  /\ UNCHANGED <<deleted, purged, owner_id, snapshot, attached, batch>>

WritePurge(r) ==
  /\ AtWrite(r, "purge")
  /\ purged' = purged \union {requests[r].row}
  /\ Finish(r)
  /\ UNCHANGED <<deleted, owner_id, snapshot, attached, uploads, batch>>

-----------------------------------------------------------------------------
\* An error or a crash between two awaits: what is written stays.
Abort(r) ==
  /\ requests[r] \notin {Idle, Done}
  /\ Finish(r)
  /\ UNCHANGED rows

\* assignOwner looks at neither deleted_at nor purged_at.
AssignOwner(a, o) ==
  /\ owner_id' = [owner_id EXCEPT ![a] = o]
  /\ UNCHANGED <<deleted, purged, snapshot, attached, uploads, requests, batch>>

\* markStreamReady finds the upload row and does not look at the service; the
\* row is CONFIRMED then and attaches nothing more.
WebhookAttaches(s) ==
  /\ s \in uploads
  /\ attached' = attached \union {s}
  /\ uploads' = uploads \ {s}
  /\ UNCHANGED <<deleted, purged, owner_id, snapshot, requests, batch>>

Handler(r) ==
  \/ \E o \in Owners : RemoveOwner(r, o) \/ RestoreOwner(r, o)
  \/ \E a \in Assets : RemoveAsset(r, a) \/ RestoreAsset(r, a)
  \/ \E s \in Services : RemoveService(r, s) \/ RestoreService(r, s)
  \/ \E u \in Users : RemoveUser(r, u) \/ RestoreUser(r, u)
  \/ \E x \in Rows : PermanentDelete(r, x)
  \/ ReadAssets(r) \/ ReadServices(r)
  \/ WriteRemoveOwner(r) \/ WriteRemoveAsset(r)
  \/ WriteRemoveService(r) \/ WriteRemoveUser(r)
  \/ WriteRestore(r)
  \/ PurgeAttachments(r) \/ PurgeUploads(r) \/ WritePurge(r)
  \/ Abort(r)

Next ==
  \/ \E r \in Requests : Handler(r)
  \/ \E a \in Assets, o \in Owners : AssignOwner(a, o)
  \/ \E s \in Services : WebhookAttaches(s)

Spec == Init /\ [][Next]_vars

-----------------------------------------------------------------------------
(* What must hold.                                                          *)

\* A service in the trash, purged or not, keeps its own title for the worker
\* who did the job: every path into the trash freezes it before a purge
\* anonymises the row (schema.prisma, worker_snapshot_title).
TitleFrozen ==
  \A s \in Services :
    deleted[s] # Live \/ s \in purged => snapshot[s].title = "real"

Back == {x \in Rows : deleted[x] # Live /\ deleted'[x] = Live}

\* What one restore brings back was trashed together: each of its children with
\* the others, and with the row itself unless another request has trashed the
\* row again since it was read (the signature getRestorePreview counts by).
RestoredTogether ==
  [][\A r \in Requests :
       requests[r].op \in Restores /\ requests'[r] = Done =>
         \A x, y \in IF deleted[requests[r].row] = requests[r].stamp
                       THEN Back ELSE Back \ {requests[r].row} :
           y \in batch[x]]_vars

\* A cascade never takes a purged row out of the trash: only a restore that
\* names the row, and read it before it was purged, can do that.
CascadeSparesPurged ==
  [][\A x \in Back \intersect purged :
       \E r \in Requests : requests[r].row = x /\ requests'[r] = Done]_vars

\* Removing an owner with its assets leaves none of its assets and users out of
\* the trash, those included that came while the handler was reading.
OwnerTakesAll ==
  [][\A o \in Owners :
       (\E r \in Requests :
          /\ requests[r].op = "removeOwner" /\ requests[r].row = o
          /\ "assets" \in requests[r].with
          /\ deleted'[o] = requests[r].stamp)
       => LiveAssets(o)' \union LiveUsers(o)' = {}]_vars

=============================================================================
