------------------------------- MODULE Uploads -------------------------------
(***************************************************************************)
(* The life of a video upload of one organisation, from its intent to its  *)
(* attachment, its cancellation or its expiry:                             *)
(*   backend/src/uploads/uploads.service.ts                                *)
(*   backend/src/uploads/upload-cleanup.service.ts                         *)
(*   backend/src/uploads/upload-reconciliation.service.ts (the counters)   *)
(*   backend/src/uploads/upload-maintenance.service.ts (the stages, polling)*)
(*   backend/src/cloudflare/cloudflare-webhook.controller.ts               *)
(*   backend/src/services/services.service.ts (createWithUploadManifest)   *)
(*   backend/src/trash/trash.service.ts (permanentDelete of a service)     *)
(*                                                                         *)
(* A handler is a sequence of awaits, so it is a process of several steps: *)
(* it reads an upload row, may call the object store or Cloudflare, and    *)
(* then writes.  What it read is its own, possibly stale, copy (req.seen). *)
(* A $transaction is one step, because it reads nothing that its writes    *)
(* depend on, except the one that admits an intent: that one reads the     *)
(* quota sums first and is two steps, under PostgreSQL's rule that a       *)
(* serializable transaction may not update a row another transaction has   *)
(* updated since its snapshot (req.clash).                                 *)
(*                                                                         *)
(* Every video goes either to the object store (the complement of Stream)  *)
(* or to Cloudflare Stream.                                                *)
(***************************************************************************)
EXTENDS Integers, FiniteSets

CONSTANTS Uploads,    \* upload ids (randomUUID)
          Stream,     \* those sent to Cloudflare Stream
          Services,   \* the uploads of each service
          Clients,    \* requests the API can be serving at once
          Jobs,       \* maintenance runs that can be going on at once
          Calls,      \* the endpoints the clients call
          Declared,   \* declared bytes of a set of uploads, summed
          Actual,     \* bytes of the objects of a set of uploads, summed
          Quota,      \* storage quota in bytes, 0 for none
          MaxGen,     \* bound: Cloudflare videos an upload may go through
          MaxFaults   \* bound: requests that die half way

Procs == Clients \union Jobs
Gens  == 1 .. MaxGen

\* An additive measure: what a sum of sizes over a set of rows is.
IsMeasure(m) ==
  /\ m \in [SUBSET Uploads -> Nat]
  /\ \A S, T \in SUBSET Uploads :
       S \intersect T = {} => m[S \union T] = m[S] + m[T]

ASSUME UploadsAssumption == IsFiniteSet(Uploads) /\ Stream \subseteq Uploads
ASSUME ServicesAssumption ==
  /\ UNION Services = Uploads
  /\ \A S, T \in Services : S # T => S \intersect T = {}
ASSUME ProcsAssumption == Clients \intersect Jobs = {}
ASSUME SizesAssumption == IsMeasure(Declared) /\ IsMeasure(Actual)
ASSUME BoundsAssumption == Quota \in Nat /\ MaxGen \in Nat \ {0} /\ MaxFaults \in Nat

VARIABLES
  status,      \* FileUpload.status, "NONE" while the row does not exist
  due,         \* expires_at is in the past
  uid,         \* cf_stream_uid, as the number of the video; 0 for none
  cfReady,     \* cf_stream_ready_to_stream
  attachments, \* ServiceAttachment rows with this upload_id
  stored,      \* a READY StoredFile has this upload's storage_ref
  blob,        \* the object store has the object
  video,       \* Cloudflare: what became of each video of an upload
  gone,        \* Cloudflare: videos that were deleted
  usage,       \* the OrganizationStorageUsage row
  req,         \* the requests and maintenance runs
  faults,      \* requests that died so far
  place,       \* Service.deleted_at and purged_at
  erased       \* history: uploads whose attachments a purge has deleted

rows == <<status, due, uid, cfReady>>
files == <<attachments, stored>>
outside == <<blob, video, gone>>
services == <<place, erased>>
vars == <<status, due, uid, cfReady, attachments, stored, blob, video, gone,
          usage, req, faults, place, erased>>

-----------------------------------------------------------------------------
Active == {"PENDING", "UPLOADING", "UPLOADED"}   \* ACTIVE_UPLOAD_STATUSES
Failed == {"FAILED", "EXPIRED"}                  \* FAILED_UPLOAD_STATUSES
RowStatus == Active \union Failed \union {"CONFIRMED", "CANCELLED"}
Status == RowStatus \union {"NONE", "GONE"}     \* not yet, no longer a row

ClientPoints ==
  {"idle", "reserve", "admit", "start", "verify", "reject_object", "reject",
   "register", "expire", "stream_poll", "cancel_object", "cancel", "progress",
   "progress_failed", "retry_object", "retry", "finalize"}
RecountPoints == {"recount_active", "recount_files", "recount"}
MarkPoints == {"mark_ready", "mark_failed", "ready", "failed"}
JobPoints ==
  {"cleanup", "cleanup_object", "cleanup_release", "sync_select", "sync",
   "reconcile"}
PurgePoints ==
  {"purge_attachments", "purge_files", "purge_uploads", "purge_service"}
Points == ClientPoints \union RecountPoints \union MarkPoints \union JobPoints
            \union PurgePoints

Usage == [reserved : Nat, ready : Nat, files : Nat, pending : Nat]
NoUsage == [reserved |-> 0, ready |-> 0, files |-> 0, pending |-> 0]
Unread == [u \in Uploads |-> "NONE"]
NoUids == [u \in Uploads |-> 0]

\* A process: where it is, the uploads it has still to treat (us), the one in
\* hand (cur), its copy of the rows it read (seen, uids), the status a progress
\* call carries (to), whether the usage row changed under its transaction or,
\* for a recount, a file it has summed was deleted (clash), and the counters
\* it has computed (totals).
Request ==
  [pc : Points, us : SUBSET Uploads, cur : SUBSET Uploads,
   seen : [Uploads -> Status], uids : [Uploads -> 0 .. MaxGen], to : Status,
   clash : BOOLEAN, totals : Usage]

Idle ==
  [pc |-> "idle", us |-> {}, cur |-> {}, seen |-> Unread, uids |-> NoUids,
   to |-> "NONE", clash |-> FALSE, totals |-> NoUsage]

TypeOK ==
  /\ status \in [Uploads -> Status]
  /\ due \in [Uploads -> BOOLEAN]
  /\ uid \in [Uploads -> 0 .. MaxGen]
  /\ cfReady \in [Uploads -> BOOLEAN]
  /\ attachments \in [Uploads -> Nat]
  /\ stored \in [Uploads -> BOOLEAN]
  /\ blob \in [Uploads -> BOOLEAN]
  /\ video \in [Uploads -> [Gens -> {"none", "pending", "ready", "error"}]]
  /\ gone \in [Uploads -> SUBSET Gens]
  /\ usage \in Usage
  /\ req \in [Procs -> Request]
  /\ faults \in 0 .. MaxFaults
  /\ place \in [Services -> {"live", "trash", "purged"}]
  /\ erased \subseteq Uploads

Init ==
  /\ status = Unread
  /\ due = [u \in Uploads |-> FALSE]
  /\ uid = NoUids
  /\ cfReady = [u \in Uploads |-> FALSE]
  /\ attachments = [u \in Uploads |-> 0]
  /\ stored = [u \in Uploads |-> FALSE]
  /\ blob = [u \in Uploads |-> FALSE]
  /\ video = [u \in Uploads |-> [g \in Gens |-> "none"]]
  /\ gone = [u \in Uploads |-> {}]
  /\ usage = NoUsage
  /\ req = [p \in Procs |-> Idle]
  /\ faults = 0
  /\ place = [S \in Services |-> "live"]
  /\ erased = {}

-----------------------------------------------------------------------------
(* Sets of rows the queries select.                                        *)
Admitted == {u \in Uploads : status[u] # "NONE"}
Rows == {u \in Admitted : status[u] # "GONE"}
ActiveRows == {u \in Uploads : status[u] \in Active}
StoredRows == {u \in Uploads : stored[u]}
Published == {u \in Uploads : attachments[u] > 0}

SeenOf(us) == [u \in Uploads |-> IF u \in us THEN status[u] ELSE "NONE"]
UidsOf(us) == [u \in Uploads |-> IF u \in us THEN uid[u] ELSE 0]

At(p, point) == req[p].pc = point
Calling(p, call) == p \in Clients /\ At(p, "idle") /\ call \in Calls
Goto(p, point) == req' = [req EXCEPT ![p].pc = point]
Done(p) == req' = [req EXCEPT ![p] = Idle]

\* findUpload: the request goes on with its own copy of the row, of which the
\* model keeps what the code still looks at: always the uid, sometimes the
\* status (kept is then {u}).
Reading(u, point, kept) ==
  [Idle EXCEPT !.pc = point, !.cur = {u}, !.seen = SeenOf(kept), !.uids = UidsOf({u})]
Begin(p, u, point) == req' = [req EXCEPT ![p] = Reading(u, point, {})]

\* The uploads in hand that were active when their rows were read.
SawActive(p) == {u \in Uploads : req[p].seen[u] \in Active}

\* assertServiceAccess: the service is neither in the trash nor purged.
Accessible(u) == \A S \in Services : u \in S => place[S] = "live"

\* A row is written by its id: the write, and its transaction, fails with P2025
\* when a purge has deleted the row since it was read.
Held(p) == IF At(p, "finalize") THEN req[p].us ELSE req[p].cur
Writing(p, point) == At(p, point) /\ Held(p) \subseteq Rows

\* Mutant: the admission transaction runs at READ COMMITTED.
ClashedNever(r) == r

(* The OrganizationStorageUsage row.  Every write of it makes the admission *)
(* transactions that are open fail when they come to update it themselves.  *)
Clashed(r) == IF r.pc = "admit" THEN [r EXCEPT !.clash = TRUE] ELSE r

WriteUsage(p, next, new) ==
  /\ usage' = new
  /\ req' = [q \in Procs |-> IF q = p THEN next ELSE Clashed(req[q])]

Floor(n) == IF n > 0 THEN n ELSE 0   \* GREATEST(n, 0)

\* releaseReservation, once for every upload of the set.
Released(us) ==
  [usage EXCEPT !.reserved = Floor(@ - Declared[us]),
                !.pending = Floor(@ - Cardinality(us))]

\* moveReservationToReady
MovedToReady(u, bytes) ==
  [reserved |-> Floor(usage.reserved - Declared[{u}]),
   ready    |-> usage.ready + bytes,
   files    |-> usage.files + 1,
   pending  |-> Floor(usage.pending - 1)]

\* What an attached upload counts: its object's size, or what a video declared.
SizeOf(u) == IF u \in Stream THEN Declared[{u}] ELSE Actual[{u}]

\* releaseReadyBytes, and the update beside the deletion of a StoredFile.
GivenBack(u) ==
  [usage EXCEPT !.ready = Floor(@ - SizeOf(u)), !.files = Floor(@ - 1)]

\* if (ACTIVE_UPLOAD_STATUSES.includes(upload.status)) releaseReservation,
\* where upload is the copy the request read.
ReleaseWhatWasActive(p, next) ==
  IF SawActive(p) = {}
  THEN req' = [req EXCEPT ![p] = next] /\ UNCHANGED usage
  ELSE WriteUsage(p, next, Released(SawActive(p)))

SetStatus(us, s) == status' = [u \in Uploads |-> IF u \in us THEN s ELSE status[u]]

-----------------------------------------------------------------------------
(* createIntent and createWithUploadManifest.                              *)

\* A new id: no row has it and no request under way holds it.
Fresh(u) ==
  /\ status[u] = "NONE"
  /\ \A q \in Procs : At(q, "reserve") \/ At(q, "admit") => u \notin req[q].us

UnusedGens(u) == {g \in Gens : video[u][g] = "none"}

Intending(p, us, uids) ==
  req' = [req EXCEPT ![p] = [Idle EXCEPT !.pc = "reserve", !.us = us, !.uids = uids]]

\* Up to the transaction: the checks that read the policy and only reject, and
\* the signed URL or the Cloudflare video, created before anything is reserved.
CreateIntent(p, u) ==
  /\ Calling(p, "intent")
  /\ Fresh(u)
  /\ IF u \in Stream
     THEN \E g \in UnusedGens(u) :
            /\ video' = [video EXCEPT ![u][g] = "pending"]
            /\ Intending(p, {u}, [NoUids EXCEPT ![u] = g])
     ELSE /\ Intending(p, {u}, NoUids)
          /\ UNCHANGED video
  /\ UNCHANGED <<rows, files, blob, gone, usage, faults, services>>

\* A new service with a batch of videos, which never go to Cloudflare.
CreateWithManifest(p, us) ==
  /\ Calling(p, "manifest")
  /\ us # {}
  /\ us \subseteq Uploads \ Stream
  /\ \A u \in us : Fresh(u)
  /\ \E S \in Services : us \subseteq S /\ S \intersect Admitted = {} /\ place[S] = "live"
  /\ Intending(p, us, NoUids)
  /\ UNCHANGED <<rows, files, outside, usage, faults, services>>

ProjectedBytes(us) == Actual[StoredRows] + Declared[ActiveRows] + Declared[us]

\* assertQuotaAndReserve, first half: the transaction's snapshot and its sums.
CheckQuota(p) ==
  /\ At(p, "reserve")
  /\ IF Quota > 0 /\ ProjectedBytes(req[p].us) > Quota
     THEN Done(p)
     ELSE req' = [req EXCEPT ![p].pc = "admit", ![p].seen = status]
  /\ UNCHANGED <<rows, files, outside, usage, faults, services>>

\* Mutant: the intent already counts as a file.
ReservedAsFiles(us) ==
  [usage EXCEPT !.reserved = @ + Declared[us], !.files = @ + Cardinality(us)]

Reserved(us) ==
  [usage EXCEPT !.reserved = @ + Declared[us], !.pending = @ + Cardinality(us)]

\* The second half: usage row and upload rows, unless somebody updated the
\* usage row after the snapshot.
Admit(p) ==
  /\ At(p, "admit")
  /\ ~req[p].clash
  /\ LET us == req[p].us IN
     /\ SetStatus(us, "PENDING")
     /\ uid' = [u \in Uploads |-> IF u \in us THEN req[p].uids[u] ELSE uid[u]]
     /\ WriteUsage(p, Idle, Reserved(us))
  /\ UNCHANGED <<due, cfReady, files, outside, faults, services>>

AbortAdmission(p) ==
  /\ At(p, "admit")
  /\ req[p].clash
  /\ Done(p)
  /\ UNCHANGED <<rows, files, outside, usage, faults, services>>

-----------------------------------------------------------------------------
(* markStarted and updateProgress.                                         *)

MarkStarted(p, u) ==
  /\ Calling(p, "started")
  /\ status[u] = "PENDING"
  /\ Begin(p, u, "start")
  /\ UNCHANGED <<rows, files, outside, usage, faults, services>>

WriteStarted(p) ==
  /\ Writing(p, "start")
  /\ SetStatus(req[p].cur, "UPLOADING")
  /\ Done(p)
  /\ UNCHANGED <<due, uid, cfReady, files, outside, usage, faults, services>>

\* The statuses a progress call may carry; one without a status writes none.
ProgressStatus == Active \union {"FAILED"}

UpdateProgress(p, u, to) ==
  /\ Calling(p, "progress")
  /\ u \in Rows
  /\ LET point == IF to = "FAILED" /\ status[u] \in Active
                  THEN "progress_failed" ELSE "progress"
     IN  req' = [req EXCEPT ![p] = [Reading(u, point, {}) EXCEPT !.to = to]]
  /\ UNCHANGED <<rows, files, outside, usage, faults, services>>

WriteProgress(p) ==
  /\ Writing(p, "progress")
  /\ SetStatus(req[p].cur, req[p].to)
  /\ Done(p)
  /\ UNCHANGED <<due, uid, cfReady, files, outside, usage, faults, services>>

WriteProgressFailed(p) ==
  /\ Writing(p, "progress_failed")
  /\ SetStatus(req[p].cur, "FAILED")
  /\ WriteUsage(p, Idle, Released(req[p].cur))
  /\ UNCHANGED <<due, uid, cfReady, files, outside, faults, services>>

-----------------------------------------------------------------------------
(* confirm and confirmCfStream.                                            *)

\* The lookups of an existing attachment follow the read of the row at once:
\* what could happen between them makes the call return it or changes nothing.
Confirm(p, u) ==
  /\ Calling(p, "confirm")
  /\ status[u] \in Active
  /\ attachments[u] = 0
  /\ Begin(p, u, CASE due[u] -> "expire"
                   [] ~due[u] /\ u \in Stream -> "stream_poll"
                   [] OTHER -> "verify")
  /\ UNCHANGED <<rows, files, outside, usage, faults, services>>

\* expireUpload: whatever the row has become since it was read.
ExpireOnConfirm(p) ==
  /\ Writing(p, "expire")
  /\ SetStatus(req[p].cur, "EXPIRED")
  /\ WriteUsage(p, Idle, Released(req[p].cur))
  /\ UNCHANGED <<due, uid, cfReady, files, outside, faults, services>>

\* getStreamStatus fails on a deleted video; one not ready answers PROCESSING.
CanStream(u, g) == g \in Gens /\ video[u][g] = "ready" /\ g \notin gone[u]

PollOnConfirm(p) ==
  /\ At(p, "stream_poll")
  /\ IF \A u \in req[p].cur : CanStream(u, req[p].uids[u])
     THEN Goto(p, "register") ELSE Done(p)
  /\ UNCHANGED <<rows, files, outside, usage, faults, services>>

\* The object is there and passes the checks of size, content and MIME type;
\* or it does not, or its metadata could not be read.
Verify(p) ==
  /\ At(p, "verify")
  /\ \/ (\A u \in req[p].cur : blob[u]) /\ Goto(p, "register")
     \/ Goto(p, "reject_object")
  /\ UNCHANGED <<rows, files, outside, usage, faults, services>>

\* Object deletion: an error of the object store is logged and swallowed.
DeleteObjects(us) ==
  \/ blob' = [u \in Uploads |-> blob[u] /\ u \notin us]
  \/ UNCHANGED blob

RejectObject(p) ==
  /\ At(p, "reject_object")
  /\ DeleteObjects(req[p].cur)
  /\ Goto(p, "reject")
  /\ UNCHANGED <<rows, files, video, gone, usage, faults, services>>

\* failUploadAndDeleteObject: the updateMany only takes a row still active.
Reject(p) ==
  /\ At(p, "reject")
  /\ LET us == req[p].cur \intersect ActiveRows IN
     IF us = {}
     THEN Done(p) /\ UNCHANGED <<status, usage>>
     ELSE SetStatus(us, "FAILED") /\ WriteUsage(p, Idle, Released(us))
  /\ UNCHANGED <<due, uid, cfReady, files, outside, faults, services>>

\* The unique indexes on ServiceAttachment.upload_id and, for an upload whose
\* object is registered with it, StoredFile.storage_ref.
Taken(u) == attachments[u] > 0 \/ stored[u]

\* Mutant: no transaction, and the request dies after the first insert.
PublishTorn(p, u, next) ==
  /\ stored' = [stored EXCEPT ![u] = u \notin Stream]
  /\ req' = [req EXCEPT ![p] = next]
  /\ UNCHANGED <<rows, attachments, usage>>

\* The transaction that turns an upload into an attachment.
Publish(p, u, next) ==
  /\ attachments' = [attachments EXCEPT ![u] = @ + 1]
  /\ stored' = [stored EXCEPT ![u] = u \notin Stream]
  /\ SetStatus({u}, "CONFIRMED")
  /\ cfReady' = [cfReady EXCEPT ![u] = u \in Stream]
  /\ WriteUsage(p, next, MovedToReady(u, SizeOf(u)))
  /\ UNCHANGED <<due, uid>>

\* P2002: somebody else's attachment is the answer, nothing is written.
Register(p) ==
  /\ Writing(p, "register")
  /\ \E u \in req[p].cur :
       IF Taken(u) THEN Done(p) /\ UNCHANGED <<rows, files, usage>>
                   ELSE Publish(p, u, Idle)
  /\ UNCHANGED <<outside, faults, services>>

-----------------------------------------------------------------------------
(* cancel, retry and finalizeWithFailures.                                 *)

Cancel(p, u) ==
  /\ Calling(p, "cancel")
  /\ u \in Rows
  /\ status[u] \notin {"CANCELLED", "CONFIRMED"}
  /\ req' = [req EXCEPT ![p] = Reading(u, "cancel_object", {u})]
  /\ UNCHANGED <<rows, files, outside, usage, faults, services>>

\* deleteStreamVideo of the videos the request has read; errors are swallowed.
DeleteVideos(p) ==
  \/ gone' = [u \in Uploads |->
                gone[u] \union ({req[p].uids[u]} \intersect Gens)]
  \/ UNCHANGED gone

CancelObject(p) ==
  /\ At(p, "cancel_object")
  /\ IF req[p].cur \subseteq Stream
     THEN DeleteVideos(p) /\ UNCHANGED blob
     ELSE DeleteObjects(req[p].cur) /\ UNCHANGED gone
  /\ Goto(p, "cancel")
  /\ UNCHANGED <<rows, files, video, usage, faults, services>>

WriteCancelled(p) ==
  /\ Writing(p, "cancel")
  /\ SetStatus(req[p].cur, "CANCELLED")
  /\ ReleaseWhatWasActive(p, Idle)
  /\ UNCHANGED <<due, uid, cfReady, files, outside, faults, services>>

Retry(p, u) ==
  /\ Calling(p, "retry")
  /\ u \in Rows
  /\ status[u] # "CONFIRMED"
  /\ Begin(p, u, "retry_object")
  /\ UNCHANGED <<rows, files, outside, usage, faults, services>>

\* A new signed URL for the same object, or a new Cloudflare video in place of
\* the old one; asking for either may fail.
RetryObject(p) ==
  /\ At(p, "retry_object")
  /\ \/ /\ req[p].cur \intersect Stream = {}
        /\ Goto(p, "retry") \/ Done(p)
        /\ UNCHANGED <<video, gone>>
     \/ \E u \in req[p].cur \intersect Stream :
          /\ DeleteVideos(p)
          /\ \/ Done(p) /\ UNCHANGED video
             \/ \E g \in UnusedGens(u) :
                  /\ video' = [video EXCEPT ![u][g] = "pending"]
                  /\ req' = [req EXCEPT ![p].pc = "retry", ![p].uids[u] = g]
  /\ UNCHANGED <<rows, files, blob, usage, faults, services>>

\* Nothing is reserved again and the quota is not looked at.
WriteRetried(p) ==
  /\ Writing(p, "retry")
  /\ LET us == req[p].cur IN
     /\ SetStatus(us, "PENDING")
     /\ due' = [u \in Uploads |-> due[u] /\ u \notin us]
     /\ uid' = [u \in Uploads |-> IF u \in us THEN req[p].uids[u] ELSE uid[u]]
     /\ cfReady' = [u \in Uploads |-> cfReady[u] /\ u \notin us]
  /\ Done(p)
  /\ UNCHANGED <<files, outside, usage, faults, services>>

FinalizeWithFailures(p, S) ==
  /\ Calling(p, "finalize")
  /\ place[S] = "live"
  /\ LET us == {u \in S : status[u] \in Active \union Failed} IN
     req' = [req EXCEPT ![p] =
               [Idle EXCEPT !.pc = "finalize", !.us = us, !.seen = SeenOf(us)]]
  /\ UNCHANGED <<rows, files, outside, usage, faults, services>>

WriteFinalized(p) ==
  /\ Writing(p, "finalize")
  /\ SetStatus(req[p].us, "CANCELLED")
  /\ ReleaseWhatWasActive(p, Idle)
  /\ UNCHANGED <<due, uid, cfReady, files, outside, faults, services>>

-----------------------------------------------------------------------------
(* markStreamReady and markStreamFailed, from the webhook or the poller.   *)

\* streamWebhook finds the upload by the uid of the message.  Messages may be
\* late, repeated or lost: one is delivered when this action is taken.
StreamWebhook(p, u) ==
  /\ Calling(p, "webhook")
  /\ u \in Rows
  /\ uid[u] \in Gens
  /\ video[u][uid[u]] \in {"ready", "error"}
  /\ Begin(p, u, IF video[u][uid[u]] = "ready" THEN "mark_ready" ELSE "mark_failed")
  /\ UNCHANGED <<rows, files, outside, usage, faults, services>>

\* Where the caller goes on: the next upload of the poller, or the answer.
AfterMark(p) ==
  IF p \in Jobs
  THEN [Idle EXCEPT !.pc = "sync", !.us = req[p].us, !.uids = req[p].uids]
  ELSE Idle

\* The row is read again, by id.
ReadMarked(p) ==
  /\ At(p, "mark_ready") \/ At(p, "mark_failed")
  /\ \E u \in req[p].cur :
       req' = IF status[u] \in {"CONFIRMED", "GONE"}
              THEN [req EXCEPT ![p] = AfterMark(p)]
              ELSE [req EXCEPT ![p].pc = IF At(p, "mark_ready") THEN "ready" ELSE "failed",
                               ![p].seen = SeenOf({u})]
  /\ UNCHANGED <<rows, files, outside, usage, faults, services>>

\* The unique index makes the transaction fail; nobody catches P2002 here.
MarkStreamReady(p) ==
  /\ Writing(p, "ready")
  /\ \E u \in req[p].cur :
       IF Taken(u)
       THEN req' = [req EXCEPT ![p] = AfterMark(p)] /\ UNCHANGED <<rows, files, usage>>
       ELSE Publish(p, u, AfterMark(p))
  /\ UNCHANGED <<outside, faults, services>>

MarkStreamFailed(p) ==
  /\ Writing(p, "failed")
  /\ SetStatus(req[p].cur, "FAILED")
  /\ ReleaseWhatWasActive(p, AfterMark(p))
  /\ UNCHANGED <<due, uid, cfReady, files, outside, faults, services>>

\* The points at which one row, or finalize's batch, is written by id.
WritePoints ==
  {"start", "progress", "progress_failed", "expire", "register", "cancel", "retry",
   "finalize", "ready", "failed"}

MissingRow(p) ==
  /\ req[p].pc \in WritePoints
  /\ ~(Held(p) \subseteq Rows)
  /\ req' = [req EXCEPT ![p] = AfterMark(p)]
  /\ UNCHANGED <<rows, files, outside, usage, faults, services>>

-----------------------------------------------------------------------------
(* A service in the trash, and permanentDelete, which purges its uploads.   *)

\* remove and restore of a service: one update of its row.
RemoveService(p, S) ==
  /\ Calling(p, "remove")
  /\ place[S] = "live"
  /\ place' = [place EXCEPT ![S] = "trash"]
  /\ UNCHANGED <<rows, files, outside, usage, req, faults, erased>>

RestoreService(p, S) ==
  /\ Calling(p, "restore")
  /\ place[S] = "trash"
  /\ place' = [place EXCEPT ![S] = "live"]
  /\ UNCHANGED <<rows, files, outside, usage, req, faults, erased>>

\* The service is looked up, then the files of its attachments.
PermanentDelete(p, S) ==
  /\ Calling(p, "purge")
  /\ place[S] = "trash"
  /\ req' = [req EXCEPT ![p] = [Idle EXCEPT !.pc = "purge_attachments", !.cur = S,
                                            !.us = {u \in S \ Stream : attachments[u] > 0}]]
  /\ UNCHANGED <<rows, files, outside, usage, faults, services>>

PurgeAttachments(p) ==
  /\ At(p, "purge_attachments")
  /\ attachments' = [u \in Uploads |-> IF u \in req[p].cur THEN 0 ELSE attachments[u]]
  /\ erased' = erased \union req[p].cur
  /\ Goto(p, "purge_files")
  /\ UNCHANGED <<rows, stored, outside, usage, faults, place>>

\* A reconciliation that has summed a file which is now deleted.
Outdated(r) ==
  IF r.pc \in {"recount_active", "recount"} THEN [r EXCEPT !.clash = TRUE] ELSE r

\* deleteStoredFileAndBlob of one of the files, which Promise.all starts
\* together.  Of a file that another purge has deleted first nothing is left,
\* but the counters are lowered again when it had been read before; a file
\* that a late confirmation has registered since has another id.
PurgeFile(p, u) ==
  /\ At(p, "purge_files")
  /\ u \in req[p].us
  /\ LET next == [req[p] EXCEPT !.us = @ \ {u}] IN
     \/ /\ stored[u]
        /\ attachments[u] = 0
        /\ stored' = [stored EXCEPT ![u] = FALSE]
        /\ usage' = GivenBack(u)
        /\ req' = [q \in Procs |-> IF q = p THEN next ELSE Outdated(Clashed(req[q]))]
        /\ DeleteObjects({u})
     \/ /\ ~stored[u] \/ attachments[u] > 0
        /\ \/ WriteUsage(p, next, GivenBack(u)) /\ DeleteObjects({u})
           \/ req' = [req EXCEPT ![p] = next] /\ UNCHANGED <<usage, blob>>
        /\ UNCHANGED stored
  /\ UNCHANGED <<rows, attachments, video, gone, faults, services>>

\* purgeUploadsForService reads the rows of the service once.
ReadPurged(p) ==
  /\ At(p, "purge_files")
  /\ req[p].us = {}
  /\ LET us == req[p].cur \intersect Rows IN
     req' = [req EXCEPT ![p].pc = IF us = {} THEN "purge_service" ELSE "purge_uploads",
                        ![p].us = us, ![p].seen = SeenOf(us), ![p].uids = UidsOf(us)]
  /\ UNCHANGED <<rows, files, outside, usage, faults, services>>

\* The video or the object of one upload, whose deletion may fail unnoticed, and
\* what its row, as it was read, says it occupies.
PurgeUpload(p, u) ==
  /\ At(p, "purge_uploads")
  /\ u \in req[p].us
  /\ IF u \in Stream
     THEN /\ \/ gone' = [gone EXCEPT ![u] = @ \union ({req[p].uids[u]} \intersect Gens)]
             \/ UNCHANGED gone
          /\ UNCHANGED blob
     ELSE DeleteObjects({u}) /\ UNCHANGED gone
  /\ LET next == [req[p] EXCEPT !.us = @ \ {u}] IN
     CASE req[p].seen[u] \in Active -> WriteUsage(p, next, Released({u}))
       [] req[p].seen[u] = "CONFIRMED" -> WriteUsage(p, next, GivenBack(u))
       [] OTHER -> req' = [req EXCEPT ![p] = next] /\ UNCHANGED usage
  /\ UNCHANGED <<rows, files, video, faults, services>>

\* deleteMany of the rows the service has by now.  An attachment made since its
\* siblings were deleted only loses its upload_id (ON DELETE SET NULL).
PurgeRows(p) ==
  /\ At(p, "purge_uploads")
  /\ req[p].us = {}
  /\ SetStatus(req[p].cur \intersect Rows, "GONE")
  /\ Goto(p, "purge_service")
  /\ UNCHANGED <<due, uid, cfReady, files, outside, usage, faults, services>>

PurgeService(p) ==
  /\ At(p, "purge_service")
  /\ place' = [S \in Services |-> IF S = req[p].cur THEN "purged" ELSE place[S]]
  /\ Done(p)
  /\ UNCHANGED <<rows, files, outside, usage, faults, erased>>

-----------------------------------------------------------------------------
(* runHourlyMaintenance: cleanup, then the poller, then reconciliation.    *)

\* Mutant: a transfer that is complete is taken for finished.
StaleRowsNotUploaded == {u \in ActiveRows : due[u] /\ status[u] # "UPLOADED"}

StaleRows == {u \in ActiveRows : due[u]}

\* expireStaleUploads selects its batch once.
StartMaintenance(p) ==
  /\ p \in Jobs
  /\ At(p, "idle")
  /\ req' = [req EXCEPT ![p] = [Idle EXCEPT !.pc = "cleanup", !.us = StaleRows]]
  /\ UNCHANGED <<rows, files, outside, usage, faults, services>>

\* updateMany where the row is still active; count 0 skips the upload.
ExpireStale(p, u) ==
  /\ At(p, "cleanup")
  /\ u \in req[p].us
  /\ IF status[u] \in Active
     THEN /\ SetStatus({u}, "EXPIRED")
          /\ req' = [req EXCEPT ![p].pc = "cleanup_object", ![p].cur = {u}, ![p].us = @ \ {u}]
     ELSE /\ req' = [req EXCEPT ![p].us = @ \ {u}]
          /\ UNCHANGED status
  /\ UNCHANGED <<due, uid, cfReady, files, outside, usage, faults, services>>

\* deleteFile does nothing for a cf-stream:// reference.
CleanupObject(p) ==
  /\ At(p, "cleanup_object")
  /\ DeleteObjects(req[p].cur)
  /\ Goto(p, "cleanup_release")
  /\ UNCHANGED <<rows, files, video, gone, usage, faults, services>>

CleanupRelease(p) ==
  /\ At(p, "cleanup_release")
  /\ WriteUsage(p, [req[p] EXCEPT !.pc = "cleanup", !.cur = {}], Released(req[p].cur))
  /\ UNCHANGED <<rows, files, outside, faults, services>>

\* Mutant: the poller only looks at transfers the browser reported complete.
SelectUploadedStreams(p) ==
  /\ At(p, "cleanup")
  /\ req[p].us = {}
  /\ LET us == {u \in Stream : status[u] = "UPLOADED" /\ ~cfReady[u]} IN
     req' = [req EXCEPT ![p].pc = "sync", ![p].us = us, ![p].uids = UidsOf(us)]
  /\ UNCHANGED <<rows, files, outside, usage, faults, services>>

\* syncStreamStatuses selects its batch once, with the uids of that moment.
SelectStreams(p) ==
  /\ At(p, "cleanup")
  /\ req[p].us = {}
  /\ LET us == {u \in Stream : status[u] \in {"UPLOADING", "UPLOADED"} /\ ~cfReady[u]} IN
     req' = [req EXCEPT ![p].pc = "sync", ![p].us = us, ![p].uids = UidsOf(us)]
  /\ UNCHANGED <<rows, files, outside, usage, faults, services>>

\* getStreamStatus of one upload; when it throws, the next upload follows.
PollStream(p, u) ==
  /\ At(p, "sync")
  /\ u \in req[p].us
  /\ LET g == req[p].uids[u]
         answer == IF g \in gone[u] THEN "none" ELSE video[u][g]
         next == [req[p] EXCEPT !.us = @ \ {u}]
     IN  req' = [req EXCEPT ![p] =
           CASE answer = "ready" -> [next EXCEPT !.pc = "mark_ready", !.cur = {u}]
             [] answer = "error" -> [next EXCEPT !.pc = "mark_failed", !.cur = {u}]
             [] OTHER -> next]
  /\ UNCHANGED <<rows, files, outside, usage, faults, services>>

EndSync(p) ==
  /\ At(p, "sync")
  /\ req[p].us = {}
  /\ req' = [req EXCEPT ![p] = [Idle EXCEPT !.pc = "reconcile"]]
  /\ UNCHANGED <<rows, files, outside, usage, faults, services>>

\* reconcileOrganization reads the uploads and the files in no given order.
Reconciling(p) == At(p, "reconcile") \/ Calling(p, "reconcile")

\* Mutant: every row that is not confirmed keeps its reservation.
ReadUnconfirmed(p) ==
  /\ Reconciling(p) \/ At(p, "recount_active")
  /\ LET open == {u \in Rows : status[u] # "CONFIRMED"} IN
     req' = [req EXCEPT
       ![p].pc = IF At(p, "recount_active") THEN "recount" ELSE "recount_files",
       ![p].totals.reserved = Declared[open],
       ![p].totals.pending = Cardinality(open)]
  /\ UNCHANGED <<rows, files, outside, usage, faults, services>>

ReadActive(p) ==
  /\ Reconciling(p) \/ At(p, "recount_active")
  /\ req' = [req EXCEPT
       ![p].pc = IF At(p, "recount_active") THEN "recount" ELSE "recount_files",
       ![p].totals.reserved = Declared[ActiveRows],
       ![p].totals.pending = Cardinality(ActiveRows)]
  /\ UNCHANGED <<rows, files, outside, usage, faults, services>>

\* Mutant: uploads under way are summed as if they were files.
ReadFilesAndActive(p) ==
  /\ Reconciling(p) \/ At(p, "recount_files")
  /\ req' = [req EXCEPT
       ![p].pc = IF At(p, "recount_files") THEN "recount" ELSE "recount_active",
       ![p].totals.ready = Actual[StoredRows] + Declared[ActiveRows],
       ![p].totals.files = Cardinality(StoredRows),
       ![p].clash = FALSE]
  /\ UNCHANGED <<rows, files, outside, usage, faults, services>>

ReadFiles(p) ==
  /\ Reconciling(p) \/ At(p, "recount_files")
  /\ req' = [req EXCEPT
       ![p].pc = IF At(p, "recount_files") THEN "recount" ELSE "recount_active",
       ![p].totals.ready = Actual[StoredRows],
       ![p].totals.files = Cardinality(StoredRows),
       ![p].clash = FALSE]
  /\ UNCHANGED <<rows, files, outside, usage, faults, services>>

WriteTotals(p) ==
  /\ At(p, "recount")
  /\ WriteUsage(p, Idle, req[p].totals)
  /\ UNCHANGED <<rows, files, outside, faults, services>>

-----------------------------------------------------------------------------
(* The world: time, the clients' transfers, Cloudflare, failures.          *)

TimePasses(u) ==
  /\ u \in Rows
  /\ ~due[u]
  /\ due' = [due EXCEPT ![u] = TRUE]
  /\ UNCHANGED <<status, uid, cfReady, files, outside, usage, req, faults, services>>

ObjectArrives(u) ==
  /\ u \in Rows \ Stream
  /\ ~blob[u]
  /\ blob' = [blob EXCEPT ![u] = TRUE]
  /\ UNCHANGED <<rows, files, video, gone, usage, req, faults, services>>

VideoProcessed(u, g, outcome) ==
  /\ video[u][g] = "pending"
  /\ g \notin gone[u]
  /\ video' = [video EXCEPT ![u][g] = outcome]
  /\ UNCHANGED <<rows, files, blob, gone, usage, req, faults, services>>

\* A request dies between two steps: a crash, a rejected await, a transaction
\* the database aborts.  What it has already written stays.
Abandon(p) ==
  /\ ~At(p, "idle")
  /\ faults < MaxFaults
  /\ faults' = faults + 1
  /\ Done(p)
  /\ UNCHANGED <<rows, files, outside, usage, services>>

-----------------------------------------------------------------------------
\* The routes of one upload.
UploadCall(p, u) ==
  /\ Accessible(u)
  /\ \/ CreateIntent(p, u) \/ MarkStarted(p, u) \/ Confirm(p, u)
     \/ Cancel(p, u) \/ Retry(p, u)
     \/ \E to \in ProgressStatus : UpdateProgress(p, u, to)

\* A new call of a client; the last is the reconciliation an admin asks for.
Call(p) ==
  \/ \E u \in Uploads : UploadCall(p, u) \/ StreamWebhook(p, u)
  \/ \E us \in SUBSET Uploads : CreateWithManifest(p, us)
  \/ \E S \in Services :
       \/ FinalizeWithFailures(p, S)
       \/ RemoveService(p, S) \/ RestoreService(p, S) \/ PermanentDelete(p, S)
  \/ At(p, "idle") /\ (ReadActive(p) \/ ReadFiles(p))

\* A request that has begun goes on.
Continue(p) ==
  \/ CheckQuota(p) \/ Admit(p) \/ AbortAdmission(p)
  \/ WriteStarted(p) \/ WriteProgress(p) \/ WriteProgressFailed(p)
  \/ ExpireOnConfirm(p) \/ PollOnConfirm(p) \/ Verify(p)
  \/ RejectObject(p) \/ Reject(p) \/ Register(p)
  \/ CancelObject(p) \/ WriteCancelled(p)
  \/ RetryObject(p) \/ WriteRetried(p) \/ WriteFinalized(p)
  \/ ReadMarked(p) \/ MarkStreamReady(p) \/ MarkStreamFailed(p) \/ MissingRow(p)
  \/ PurgeAttachments(p) \/ ReadPurged(p) \/ PurgeRows(p) \/ PurgeService(p)
  \/ CleanupObject(p) \/ CleanupRelease(p)
  \/ SelectStreams(p) \/ EndSync(p)
  \/ \E u \in Uploads :
       ExpireStale(p, u) \/ PollStream(p, u) \/ PurgeFile(p, u) \/ PurgeUpload(p, u)
  \/ ~At(p, "idle") /\ (ReadActive(p) \/ ReadFiles(p))
  \/ WriteTotals(p)

World ==
  \E u \in Uploads :
    \/ TimePasses(u)
    \/ ObjectArrives(u)
    \/ \E g \in Gens, outcome \in {"ready", "error"} : VideoProcessed(u, g, outcome)

Next ==
  \/ \E p \in Procs : Call(p) \/ Continue(p) \/ StartMaintenance(p) \/ Abandon(p)
  \/ World

Spec == Init /\ [][Next]_vars
(***************************************************************************)
(* A request that has begun is executed to its end unless it dies, and the *)
(* scheduler behind scripts/upload-maintenance.ts starts the next run when *)
(* the last one is over.  Clients need not call, Cloudflare need not answer*)
(* and no webhook need arrive.                                             *)
(***************************************************************************)
Fairness ==
  /\ \A p \in Procs : WF_vars(Continue(p))
  /\ \A p \in Jobs : WF_vars(StartMaintenance(p))

FairSpec == Spec /\ Fairness

-----------------------------------------------------------------------------
(* Properties.                                                             *)

\* However confirm calls, webhooks and the poller race, and whatever a late
\* progress call or a retry does to the row, an upload never has two
\* attachments, and a confirmed one has its attachment until a purge of its
\* service takes it.
AttachedOnce ==
  \A u \in Uploads :
    /\ attachments[u] <= 1
    /\ status[u] = "CONFIRMED" => attachments[u] = 1 \/ u \in erased

\* A registered file and the attachment that shows it come together: none is
\* left without the other by a confirmation that failed or lost a race.  (A
\* purge deletes them one after the other.)
FilesMatchAttachments ==
  \A u \in Uploads \ erased : stored[u] = (u \notin Stream /\ attachments[u] > 0)

\* The ready counters claim no more than the files and the attached videos.
Covered ==
  /\ usage.ready <= Actual[StoredRows] + Declared[Published \intersect Stream]
  /\ usage.files <= Cardinality(StoredRows \union (Published \intersect Stream))

RecountWritten(p) == At(p, "recount") /\ usage' = req[p].totals /\ req'[p] = Idle

\* The ready counters run ahead of the files of the organisation in two ways
\* only: a reconciliation writes sums of which a purge has deleted a file since
\* it read them, or a purge deletes the attachments of streamed videos, whose
\* bytes it gives back some steps later.  Late confirmations, several for one
\* upload, purges of one service side by side and a recount that other requests
\* overtake do not; and a recount that no deletion overlaps repairs them.
ReadyNeverOverstated ==
  [][\/ ~Covered /\ ~\E p \in Procs : RecountWritten(p) /\ ~req[p].clash
     \/ Covered'
     \/ \E p \in Procs : RecountWritten(p) /\ req[p].clash
     \/ ~(Published \intersect Stream \subseteq Published')]_vars

\* The rows an admission must have counted: the active ones of its snapshot,
\* and those of every intent admitted since.  (A row that a retry or a progress
\* call makes active again meanwhile escapes it.)
CountedBy(p) ==
  {u \in Rows : req[p].seen[u] = "NONE" \/ req[p].seen[u] \in Active}

\* Intents that race for the last bytes are not all let in: at the moment one
\* is admitted, what it and the others occupy is within the quota.
AdmissionWithinQuota ==
  [][\A p \in Procs :
       At(p, "admit") /\ req'[p] = Idle /\ status' # status /\ Quota > 0
         => Actual[StoredRows] + Declared[CountedBy(p) \union req[p].us] <= Quota]_vars

\* The reservations of the organisation are what its open intents declare.
Reconciled ==
  /\ usage.reserved = Declared[ActiveRows]
  /\ usage.pending = Cardinality(ActiveRows)

\* Requests that release twice, revive a row or die half way leave the
\* reservations wrong; once the clients are quiet, maintenance repairs them
\* for good.
ReservationsConverge ==
  <>[](\A p \in Clients : At(p, "idle")) => <>[]Reconciled

\* An intent whose expiry has passed does not stay active: maintenance takes
\* it, whatever point of the transfer it is at, unless a retry renews it.
StaleIntentsEnd ==
  \A u \in Uploads :
    (status[u] \in Active /\ due[u]) ~> ~(status[u] \in Active /\ due[u])

\* A video that is ready although its webhook never came.
Unnoticed(u) ==
  /\ status[u] \in {"UPLOADING", "UPLOADED"}
  /\ ~cfReady[u]
  /\ attachments[u] = 0
  /\ CanStream(u, uid[u])

\* A webhook that never comes costs a video at most what is left of its term:
\* from a moment at which nothing is under way, and as long as no client calls,
\* the poller makes a video that is ready an attachment, unless its intent falls
\* due first.  (Then cleanup, which runs before the poller, may expire it.)
LostWebhookRecovered ==
  \A u \in Stream :
    (Unnoticed(u) /\ \A p \in Procs : At(p, "idle"))
      ~> (attachments[u] > 0 \/ due[u] \/ \E p \in Clients : ~At(p, "idle"))

\* Uploads keeps the promises of AttachmentRegister.
AsRegister ==
  INSTANCE AttachmentRegister
    WITH admitted <- Admitted, published <- Published, counted <- usage.files
RegisterSpec == AsRegister!Spec
=============================================================================
