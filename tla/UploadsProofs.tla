---------------------------- MODULE UploadsProofs ----------------------------
(***************************************************************************)
(* Proofs about Uploads for every set of uploads, services, clients and    *)
(* maintenance runs, every additive size of the files and every bound.     *)
(***************************************************************************)
EXTENDS Uploads, FiniteSetTheorems, TLAPS

-----------------------------------------------------------------------------
(* Sums and sizes of sets of uploads.                                      *)

LEMMA SumType ==
  ASSUME NEW S \in SUBSET Uploads
  PROVE  Declared[S] \in Nat /\ Actual[S] \in Nat
BY SizesAssumption DEF IsMeasure

LEMMA CountType ==
  ASSUME NEW S \in SUBSET Uploads
  PROVE  Cardinality(S) \in Nat
BY UploadsAssumption, FS_Subset, FS_CardinalityType

-----------------------------------------------------------------------------
(* Type correctness.                                                       *)

LEMMA PointTypes ==
  /\ ClientPoints \subseteq Points
  /\ RecountPoints \subseteq Points
  /\ MarkPoints \subseteq Points
  /\ JobPoints \subseteq Points
  /\ PurgePoints \subseteq Points
  /\ Status = {"PENDING", "UPLOADING", "UPLOADED", "FAILED", "EXPIRED",
               "CONFIRMED", "CANCELLED", "NONE", "GONE"}
BY DEF Points, Status, RowStatus, Active, Failed

LEMMA UnreadType ==
  /\ Unread \in [Uploads -> Status]
  /\ NoUids \in [Uploads -> 0 .. MaxGen]
  /\ NoUsage \in Usage
BY PointTypes, BoundsAssumption DEF Unread, NoUids, NoUsage, Usage

LEMMA IdleType == Idle \in Request
<1>1. "idle" \in Points /\ "NONE" \in Status
  BY DEF Points, ClientPoints, Status
<1> QED
  BY <1>1, UnreadType DEF Idle, Request

LEMMA ReadingType ==
  ASSUME TypeOK, NEW u \in Uploads, NEW point \in Points,
         NEW kept \in SUBSET Uploads
  PROVE  Reading(u, point, kept) \in Request
<1>1. SeenOf(kept) \in [Uploads -> Status]
  BY PointTypes DEF SeenOf, TypeOK
<1>2. UidsOf({u}) \in [Uploads -> 0 .. MaxGen]
  BY BoundsAssumption DEF UidsOf, TypeOK
<1> QED
  BY <1>1, <1>2, IdleType DEF Reading, Request

LEMMA GotoType ==
  ASSUME TypeOK, NEW p \in Procs, NEW point \in Points, Goto(p, point)
  PROVE  req' \in [Procs -> Request]
<1>1. req' = [req EXCEPT ![p] = [req[p] EXCEPT !.pc = point]]
  BY DEF Goto
<1>2. [req[p] EXCEPT !.pc = point] \in Request
  BY DEF TypeOK, Request
<1> QED
  BY <1>1, <1>2 DEF TypeOK

LEMMA OneRequest ==
  ASSUME TypeOK, NEW p \in Procs, NEW r \in Request, req' = [req EXCEPT ![p] = r]
  PROVE  req' \in [Procs -> Request]
BY DEF TypeOK

LEMMA DoneType ==
  ASSUME TypeOK, NEW p \in Procs, Done(p)
  PROVE  req' \in [Procs -> Request]
BY IdleType, OneRequest DEF Done

LEMMA WriteUsageType ==
  ASSUME TypeOK, NEW p \in Procs, NEW r \in Request, NEW n \in Usage,
         WriteUsage(p, r, n)
  PROVE  usage' \in Usage /\ req' \in [Procs -> Request]
<1>1. ASSUME NEW q \in Procs PROVE Clashed(req[q]) \in Request
  BY DEF TypeOK, Clashed, Request
<1> QED
  BY <1>1 DEF WriteUsage

LEMMA ReleasedType ==
  ASSUME TypeOK, NEW us \in SUBSET Uploads
  PROVE  Released(us) \in Usage
<1>1. Declared[us] \in Nat /\ Cardinality(us) \in Nat
  BY SumType, CountType
<1>2. \A n \in Int : Floor(n) \in Nat
  BY DEF Floor
<1>3. /\ usage.reserved - Declared[us] \in Int
      /\ usage.pending - Cardinality(us) \in Int
  BY <1>1 DEF TypeOK, Usage
<1> QED
  BY <1>2, <1>3 DEF TypeOK, Released, Usage

LEMMA SetStatusType ==
  ASSUME TypeOK, NEW us, NEW s \in Status, SetStatus(us, s)
  PROVE  status' \in [Uploads -> Status]
BY DEF TypeOK, SetStatus

LEMMA AfterMarkType ==
  ASSUME TypeOK, NEW p \in Procs
  PROVE  AfterMark(p) \in Request
<1>1. "sync" \in Points
  BY DEF Points, JobPoints
<1> QED
  BY <1>1, IdleType DEF AfterMark, TypeOK, Request

LEMMA ReleaseWhatWasActiveType ==
  ASSUME TypeOK, NEW p \in Procs, NEW r \in Request, ReleaseWhatWasActive(p, r)
  PROVE  usage' \in Usage /\ req' \in [Procs -> Request]
<1>1. SawActive(p) \in SUBSET Uploads
  BY DEF SawActive
<1>2. CASE SawActive(p) = {}
  BY <1>2, OneRequest DEF ReleaseWhatWasActive, TypeOK
<1>3. CASE SawActive(p) # {}
  BY <1>1, <1>3, ReleasedType, WriteUsageType DEF ReleaseWhatWasActive
<1> QED
  BY <1>2, <1>3

LEMMA PublishType ==
  ASSUME TypeOK, NEW p \in Procs, NEW u \in Uploads, NEW r \in Request,
         Publish(p, u, r)
  PROVE  /\ attachments' \in [Uploads -> Nat]
         /\ stored' \in [Uploads -> BOOLEAN]
         /\ status' \in [Uploads -> Status]
         /\ cfReady' \in [Uploads -> BOOLEAN]
         /\ usage' \in Usage
         /\ req' \in [Procs -> Request]
<1>1. "CONFIRMED" \in Status
  BY PointTypes
<1>2. MovedToReady(u, SizeOf(u)) \in Usage
  BY SumType DEF MovedToReady, SizeOf, Floor, Usage, TypeOK
<1> QED
  BY <1>1, <1>2, SetStatusType, WriteUsageType DEF Publish, TypeOK

LEMMA TypeInit == Init => TypeOK
BY UnreadType, IdleType, BoundsAssumption DEF Init, TypeOK

\* The queries of a reconciliation only write its own totals.
LEMMA TypeReads ==
  ASSUME TypeOK, NEW p \in Procs, ReadActive(p) \/ ReadFiles(p)
  PROVE  TypeOK'
<1> USE DEF rows, files, outside, services
<1>1. /\ Declared[ActiveRows] \in Nat /\ Cardinality(ActiveRows) \in Nat
      /\ Actual[StoredRows] \in Nat /\ Cardinality(StoredRows) \in Nat
  BY SumType, CountType DEF ActiveRows, StoredRows
<1>2. ASSUME NEW point \in Points, NEW t \in Usage
      PROVE  /\ [req[p] EXCEPT !.pc = point, !.totals = t] \in Request
             /\ [req[p] EXCEPT !.pc = point, !.totals = t, !.clash = FALSE] \in Request
  BY DEF TypeOK, Request
<1>3. CASE ReadActive(p)
  <2>1. PICK point \in Points :
          req' = [req EXCEPT ![p].pc = point,
                             ![p].totals.reserved = Declared[ActiveRows],
                             ![p].totals.pending = Cardinality(ActiveRows)]
    BY <1>3 DEF ReadActive, Points, RecountPoints
  <2> DEFINE t == [req[p].totals EXCEPT !.reserved = Declared[ActiveRows],
                                        !.pending = Cardinality(ActiveRows)]
  <2>2. t \in Usage
    BY <1>1 DEF TypeOK, Request, Usage
  <2>3. req' = [req EXCEPT ![p] = [req[p] EXCEPT !.pc = point, !.totals = t]]
    <3>1. p \in DOMAIN req
      BY DEF TypeOK
    <3> QED
      BY <2>1, <3>1, Zenon
  <2> QED
    BY <1>2, <1>3, <2>2, <2>3, OneRequest DEF ReadActive, TypeOK
<1>4. CASE ReadFiles(p)
  <2>1. PICK point \in Points :
          req' = [req EXCEPT ![p].pc = point,
                             ![p].totals.ready = Actual[StoredRows],
                             ![p].totals.files = Cardinality(StoredRows),
                             ![p].clash = FALSE]
    BY <1>4 DEF ReadFiles, Points, RecountPoints
  <2> DEFINE t == [req[p].totals EXCEPT !.ready = Actual[StoredRows],
                                        !.files = Cardinality(StoredRows)]
  <2>2. t \in Usage
    BY <1>1 DEF TypeOK, Request, Usage
  <2>3. req' = [req EXCEPT ![p] =
                  [req[p] EXCEPT !.pc = point, !.totals = t, !.clash = FALSE]]
    <3>1. p \in DOMAIN req
      BY DEF TypeOK
    <3> QED
      BY <2>1, <3>1, Zenon
  <2> QED
    BY <1>2, <1>4, <2>2, <2>3, OneRequest DEF ReadFiles, TypeOK
<1> QED
  BY <1>3, <1>4

\* The calls: each only puts a copy of some rows into the request.
LEMMA TypeCall ==
  ASSUME TypeOK, NEW p \in Procs, Call(p)
  PROVE  TypeOK'
<1> USE DEF rows, files, outside, services
<1>1. ASSUME NEW u \in Uploads, CreateIntent(p, u) PROVE TypeOK'
  <2>1. ASSUME NEW ids \in [Uploads -> 0 .. MaxGen], Intending(p, {u}, ids)
        PROVE  req' \in [Procs -> Request]
    <3>1. [Idle EXCEPT !.pc = "reserve", !.us = {u}, !.uids = ids] \in Request
      BY IdleType DEF Request, Points, ClientPoints
    <3> QED
      BY <2>1, <3>1, OneRequest DEF Intending
  <2>2. CASE u \in Stream
    <3>1. PICK g \in UnusedGens(u) :
            /\ video' = [video EXCEPT ![u][g] = "pending"]
            /\ Intending(p, {u}, [NoUids EXCEPT ![u] = g])
      BY <1>1, <2>2 DEF CreateIntent
    <3>2. g \in Gens /\ [NoUids EXCEPT ![u] = g] \in [Uploads -> 0 .. MaxGen]
      BY BoundsAssumption, UnreadType DEF UnusedGens, Gens
    <3> QED
      BY <1>1, <2>1, <3>1, <3>2 DEF CreateIntent, TypeOK
  <2>3. CASE u \notin Stream
    BY <1>1, <2>1, <2>3, UnreadType DEF CreateIntent, TypeOK
  <2> QED
    BY <2>2, <2>3
<1>2. ASSUME NEW us \in SUBSET Uploads, CreateWithManifest(p, us) PROVE TypeOK'
  <2>1. [Idle EXCEPT !.pc = "reserve", !.us = us, !.uids = NoUids] \in Request
    BY IdleType, UnreadType DEF Request, Points, ClientPoints
  <2>2. req' \in [Procs -> Request]
    BY <1>2, <2>1, OneRequest DEF CreateWithManifest, Intending
  <2> QED
    BY <1>2, <2>2 DEF CreateWithManifest, TypeOK
<1>3. ASSUME NEW u \in Uploads, NEW point \in Points, Begin(p, u, point),
             UNCHANGED <<rows, files, outside, usage, faults, services>>
      PROVE  TypeOK'
  BY <1>3, ReadingType, OneRequest DEF Begin, TypeOK
<1>4. ASSUME NEW u \in Uploads, MarkStarted(p, u) PROVE TypeOK'
  BY <1>3, <1>4 DEF MarkStarted, Points, ClientPoints
<1>5. ASSUME NEW u \in Uploads, Confirm(p, u) PROVE TypeOK'
  <2>1. CASE due[u]
    BY <1>3, <1>5, <2>1 DEF Confirm, Points, ClientPoints
  <2>2. CASE ~due[u] /\ u \in Stream
    BY <1>3, <1>5, <2>2 DEF Confirm, Points, ClientPoints
  <2>3. CASE ~due[u] /\ u \notin Stream
    BY <1>3, <1>5, <2>3 DEF Confirm, Points, ClientPoints
  <2> QED
    BY <2>1, <2>2, <2>3
<1>6. ASSUME NEW u \in Uploads, Cancel(p, u) PROVE TypeOK'
  <2>1. Reading(u, "cancel_object", {u}) \in Request
    BY ReadingType DEF Points, ClientPoints
  <2> QED
    BY <1>6, <2>1, OneRequest DEF Cancel, TypeOK
<1>7. ASSUME NEW u \in Uploads, Retry(p, u) PROVE TypeOK'
  BY <1>3, <1>7 DEF Retry, Points, ClientPoints
<1>8. ASSUME NEW u \in Uploads, StreamWebhook(p, u) PROVE TypeOK'
  BY <1>3, <1>8 DEF StreamWebhook, Points, MarkPoints
<1>9. ASSUME NEW u \in Uploads, NEW to \in ProgressStatus, UpdateProgress(p, u, to)
      PROVE  TypeOK'
  <2>1. PICK point \in Points :
          req' = [req EXCEPT ![p] = [Reading(u, point, {}) EXCEPT !.to = to]]
    BY <1>9 DEF UpdateProgress, Points, ClientPoints
  <2>2. Reading(u, point, {}) \in Request /\ to \in Status
    BY ReadingType DEF ProgressStatus, Status, RowStatus, Failed
  <2>3. [Reading(u, point, {}) EXCEPT !.to = to] \in Request
    BY <2>2 DEF Request
  <2> QED
    BY <1>9, <2>1, <2>3, OneRequest DEF UpdateProgress, TypeOK
<1>10. ASSUME NEW S \in Services, FinalizeWithFailures(p, S) PROVE TypeOK'
  <2> DEFINE us == {u \in S : status[u] \in Active \union Failed}
  <2>1. us \in SUBSET Uploads
    BY ServicesAssumption
  <2>2. SeenOf(us) \in [Uploads -> Status]
    BY PointTypes DEF SeenOf, TypeOK
  <2>3. [Idle EXCEPT !.pc = "finalize", !.us = us, !.seen = SeenOf(us)] \in Request
    BY <2>1, <2>2, IdleType DEF Request, Points, ClientPoints
  <2>4. req' \in [Procs -> Request]
    BY <1>10, <2>3, OneRequest DEF FinalizeWithFailures
  <2> QED
    BY <1>10, <2>4 DEF FinalizeWithFailures, TypeOK
<1>11. ASSUME ReadActive(p) \/ ReadFiles(p) PROVE TypeOK'
  BY <1>11, TypeReads
<1>12. ASSUME NEW S \in Services, RemoveService(p, S) \/ RestoreService(p, S)
       PROVE  TypeOK'
  BY <1>12 DEF RemoveService, RestoreService, TypeOK
<1>13. ASSUME NEW S \in Services, PermanentDelete(p, S) PROVE TypeOK'
  <2> DEFINE us == {u \in S \ Stream : attachments[u] > 0}
  <2>1. S \in SUBSET Uploads /\ us \in SUBSET Uploads
    BY ServicesAssumption
  <2>2. [Idle EXCEPT !.pc = "purge_attachments", !.cur = S, !.us = us] \in Request
    BY <2>1, IdleType DEF Request, Points, PurgePoints
  <2>3. req' \in [Procs -> Request]
    BY <1>13, <2>2, OneRequest DEF PermanentDelete
  <2> QED
    BY <1>13, <2>3 DEF PermanentDelete, TypeOK
<1> QED
  BY <1>1, <1>2, <1>4, <1>5, <1>6, <1>7, <1>8, <1>9, <1>10, <1>11, <1>12, <1>13
     DEF Call, UploadCall

\* The steps that admit an intent, or write the row of a request.
LEMMA TypeRequests ==
  ASSUME TypeOK, NEW p \in Procs,
         \/ CheckQuota(p) \/ Admit(p) \/ AbortAdmission(p)
         \/ WriteStarted(p) \/ WriteProgress(p) \/ WriteProgressFailed(p)
         \/ WriteCancelled(p) \/ WriteRetried(p) \/ WriteFinalized(p)
  PROVE  TypeOK'
<1> USE DEF rows, files, outside, services
<1>1. /\ req[p] \in Request
      /\ req[p].us \in SUBSET Uploads /\ req[p].cur \in SUBSET Uploads
      /\ req[p].uids \in [Uploads -> 0 .. MaxGen] /\ req[p].to \in Status
  BY DEF TypeOK, Request
<1>2. {"PENDING", "UPLOADING", "FAILED", "CANCELLED"} \subseteq Status
  BY PointTypes
<1>3. CASE CheckQuota(p)
  <2>1. [req[p] EXCEPT !.pc = "admit", !.seen = status] \in Request
    BY <1>1 DEF TypeOK, Request, Points, ClientPoints
  <2>2. req' \in [Procs -> Request]
    <3>1. CASE Done(p)
      BY <3>1, DoneType
    <3>2. CASE req' = [req EXCEPT ![p].pc = "admit", ![p].seen = status]
      <4>1. req' = [req EXCEPT ![p] =
                      [req[p] EXCEPT !.pc = "admit", !.seen = status]]
        BY <3>2 DEF TypeOK, Request
      <4> QED
        BY <2>1, <4>1, OneRequest
    <3> QED
      BY <1>3, <3>1, <3>2 DEF CheckQuota
  <2> QED
    BY <1>3, <2>2 DEF CheckQuota, TypeOK
<1>4. CASE Admit(p)
  <2>1. Reserved(req[p].us) \in Usage
    <3>1. Declared[req[p].us] \in Nat /\ Cardinality(req[p].us) \in Nat
      BY <1>1, SumType, CountType
    <3>2. /\ usage.reserved + Declared[req[p].us] \in Nat
          /\ usage.pending + Cardinality(req[p].us) \in Nat
      BY <3>1 DEF Usage, TypeOK
    <3> QED
      BY <3>2 DEF Reserved, Usage, TypeOK
  <2>2. usage' \in Usage /\ req' \in [Procs -> Request]
    BY <1>4, <2>1, IdleType, WriteUsageType DEF Admit
  <2>3. status' \in [Uploads -> Status]
    BY <1>2, <1>4, SetStatusType DEF Admit
  <2>4. uid' \in [Uploads -> 0 .. MaxGen]
    BY <1>1, <1>4 DEF Admit, TypeOK
  <2> QED
    BY <1>4, <2>2, <2>3, <2>4 DEF Admit, TypeOK
<1>5. CASE AbortAdmission(p)
  BY <1>5, DoneType DEF AbortAdmission, TypeOK
<1>6. CASE WriteStarted(p)
  BY <1>2, <1>6, DoneType, SetStatusType DEF WriteStarted, TypeOK
<1>7. CASE WriteProgress(p)
  BY <1>1, <1>7, DoneType, SetStatusType DEF WriteProgress, TypeOK
<1>8. CASE WriteProgressFailed(p)
  <2>1. usage' \in Usage /\ req' \in [Procs -> Request]
    BY <1>1, <1>8, IdleType, ReleasedType, WriteUsageType DEF WriteProgressFailed
  <2> QED
    BY <1>2, <1>8, <2>1, SetStatusType DEF WriteProgressFailed, TypeOK
<1>9. CASE WriteCancelled(p)
  <2>1. usage' \in Usage /\ req' \in [Procs -> Request]
    BY <1>9, IdleType, ReleaseWhatWasActiveType DEF WriteCancelled
  <2> QED
    BY <1>2, <1>9, <2>1, SetStatusType DEF WriteCancelled, TypeOK
<1>10. CASE WriteRetried(p)
  <2>1. /\ due' \in [Uploads -> BOOLEAN] /\ cfReady' \in [Uploads -> BOOLEAN]
        /\ uid' \in [Uploads -> 0 .. MaxGen]
    BY <1>1, <1>10 DEF WriteRetried, TypeOK
  <2> QED
    BY <1>2, <1>10, <2>1, DoneType, SetStatusType DEF WriteRetried, TypeOK
<1>11. CASE WriteFinalized(p)
  <2>1. usage' \in Usage /\ req' \in [Procs -> Request]
    BY <1>11, IdleType, ReleaseWhatWasActiveType DEF WriteFinalized
  <2> QED
    BY <1>2, <1>11, <2>1, SetStatusType DEF WriteFinalized, TypeOK
<1> QED
  BY <1>3, <1>4, <1>5, <1>6, <1>7, <1>8, <1>9, <1>10, <1>11

\* The steps of confirm, and those that delete or renew what is stored.
LEMMA TypeObjects ==
  ASSUME TypeOK, NEW p \in Procs,
         \/ ExpireOnConfirm(p) \/ PollOnConfirm(p) \/ Verify(p)
         \/ RejectObject(p) \/ Reject(p) \/ Register(p)
         \/ CancelObject(p) \/ RetryObject(p)
  PROVE  TypeOK'
<1> USE DEF rows, files, outside, services
<1>1. /\ req[p] \in Request
      /\ req[p].us \in SUBSET Uploads /\ req[p].cur \in SUBSET Uploads
      /\ req[p].uids \in [Uploads -> 0 .. MaxGen]
  BY DEF TypeOK, Request
<1>2. {"EXPIRED", "FAILED"} \subseteq Status
  BY PointTypes
<1>3. {"register", "reject_object", "reject", "cancel", "retry"} \subseteq Points
  BY DEF Points, ClientPoints
<1>4. ASSUME NEW us, DeleteObjects(us) PROVE blob' \in [Uploads -> BOOLEAN]
  BY <1>4 DEF DeleteObjects, TypeOK
<1>5. ASSUME DeleteVideos(p) PROVE gone' \in [Uploads -> SUBSET Gens]
  BY <1>5 DEF DeleteVideos, TypeOK
<1>6. CASE ExpireOnConfirm(p)
  <2>1. usage' \in Usage /\ req' \in [Procs -> Request]
    BY <1>1, <1>6, IdleType, ReleasedType, WriteUsageType DEF ExpireOnConfirm
  <2> QED
    BY <1>2, <1>6, <2>1, SetStatusType DEF ExpireOnConfirm, TypeOK
<1>7. CASE PollOnConfirm(p)
  BY <1>3, <1>7, GotoType, DoneType DEF PollOnConfirm, TypeOK
<1>8. CASE Verify(p)
  BY <1>3, <1>8, GotoType DEF Verify, TypeOK
<1>9. CASE RejectObject(p)
  <2>1. req' \in [Procs -> Request]
    BY <1>3, <1>9, GotoType DEF RejectObject
  <2>2. blob' \in [Uploads -> BOOLEAN]
    BY <1>4, <1>9 DEF RejectObject
  <2> QED
    BY <1>9, <2>1, <2>2 DEF RejectObject, TypeOK
<1>10. CASE Reject(p)
  <2> DEFINE us == req[p].cur \intersect ActiveRows
  <2>1. CASE us = {}
    BY <1>10, <2>1, DoneType DEF Reject, TypeOK
  <2>2. CASE us # {}
    <3>1. us \in SUBSET Uploads
      BY <1>1
    <3>2. SetStatus(us, "FAILED") /\ WriteUsage(p, Idle, Released(us))
      BY <1>10, <2>2 DEF Reject
    <3>3. usage' \in Usage /\ req' \in [Procs -> Request]
      BY <3>1, <3>2, IdleType, ReleasedType, WriteUsageType
    <3>4. status' \in [Uploads -> Status]
      BY <1>2, <3>2, SetStatusType
    <3> QED
      BY <1>10, <3>3, <3>4 DEF Reject, TypeOK
  <2> QED
    BY <2>1, <2>2
<1>11. CASE Register(p)
  <2>1. PICK u \in req[p].cur :
          IF Taken(u) THEN Done(p) /\ UNCHANGED <<rows, files, usage>>
                      ELSE Publish(p, u, Idle)
    BY <1>11 DEF Register
  <2>2. CASE Taken(u)
    BY <1>11, <2>1, <2>2, DoneType DEF Register, TypeOK
  <2>3. CASE ~Taken(u)
    <3>1. u \in Uploads /\ Publish(p, u, Idle)
      BY <1>1, <2>1, <2>3
    <3>2. /\ attachments' \in [Uploads -> Nat] /\ stored' \in [Uploads -> BOOLEAN]
          /\ status' \in [Uploads -> Status] /\ cfReady' \in [Uploads -> BOOLEAN]
          /\ usage' \in Usage /\ req' \in [Procs -> Request]
      BY <3>1, IdleType, PublishType
    <3> QED
      BY <1>11, <3>1, <3>2 DEF Register, Publish, TypeOK
  <2> QED
    BY <2>2, <2>3
<1>12. CASE CancelObject(p)
  <2>1. req' \in [Procs -> Request]
    BY <1>3, <1>12, GotoType DEF CancelObject
  <2>2. blob' \in [Uploads -> BOOLEAN] /\ gone' \in [Uploads -> SUBSET Gens]
    BY <1>4, <1>5, <1>12 DEF CancelObject, TypeOK
  <2> QED
    BY <1>12, <2>1, <2>2 DEF CancelObject, TypeOK
<1>13. CASE RetryObject(p)
  <2>1. CASE req[p].cur \intersect Stream = {} /\ UNCHANGED <<video, gone>>
    <3>1. req' \in [Procs -> Request]
      BY <1>3, <1>13, <2>1, GotoType, DoneType DEF RetryObject
    <3> QED
      BY <1>13, <2>1, <3>1 DEF RetryObject, TypeOK
  <2>2. ASSUME DeleteVideos(p), Done(p), UNCHANGED video PROVE TypeOK'
    BY <1>5, <1>13, <2>2, DoneType DEF RetryObject, TypeOK
  <2>3. ASSUME NEW u \in req[p].cur, NEW g \in UnusedGens(u), DeleteVideos(p),
               video' = [video EXCEPT ![u][g] = "pending"],
               req' = [req EXCEPT ![p].pc = "retry", ![p].uids[u] = g]
        PROVE  TypeOK'
    <3>1. u \in Uploads /\ g \in Gens /\ g \in 0 .. MaxGen
      BY <1>1, BoundsAssumption DEF UnusedGens, Gens
    <3>2. req' = [req EXCEPT ![p] =
                    [req[p] EXCEPT !.pc = "retry", !.uids = [@ EXCEPT ![u] = g]]]
      <4>1. p \in DOMAIN req
        BY DEF TypeOK
      <4> QED
        BY <2>3, <4>1, Zenon
    <3>3. [req[p] EXCEPT !.pc = "retry", !.uids = [@ EXCEPT ![u] = g]] \in Request
      BY <1>1, <1>3, <3>1 DEF Request
    <3>4. req' \in [Procs -> Request]
      BY <3>2, <3>3, OneRequest
    <3>5. gone' \in [Uploads -> SUBSET Gens]
      BY <1>5, <2>3
    <3> QED
      BY <1>13, <2>3, <3>1, <3>4, <3>5 DEF RetryObject, TypeOK
  <2> QED
    BY <1>13, <2>1, <2>2, <2>3 DEF RetryObject
<1> QED
  BY <1>6, <1>7, <1>8, <1>9, <1>10, <1>11, <1>12, <1>13

\* The webhook, the poller and the maintenance run.
LEMMA TypeJobs ==
  ASSUME TypeOK, NEW p \in Procs,
         \/ ReadMarked(p) \/ MarkStreamReady(p) \/ MarkStreamFailed(p)
         \/ StartMaintenance(p) \/ CleanupObject(p) \/ CleanupRelease(p)
         \/ SelectStreams(p) \/ EndSync(p) \/ WriteTotals(p)
         \/ \E u \in Uploads : ExpireStale(p, u) \/ PollStream(p, u)
  PROVE  TypeOK'
<1> USE DEF rows, files, outside, services
<1>1. /\ req[p] \in Request
      /\ req[p].us \in SUBSET Uploads /\ req[p].cur \in SUBSET Uploads
      /\ req[p].uids \in [Uploads -> 0 .. MaxGen] /\ req[p].totals \in Usage
  BY DEF TypeOK, Request
<1>2. {"EXPIRED", "FAILED"} \subseteq Status
  BY PointTypes
<1>3. {"cleanup", "cleanup_object", "cleanup_release", "sync", "reconcile",
       "mark_ready", "mark_failed", "ready", "failed"} \subseteq Points
  BY DEF Points, MarkPoints, JobPoints
<1>4. CASE ReadMarked(p)
  <2>1. PICK u \in req[p].cur :
          req' = IF status[u] \in {"CONFIRMED", "GONE"}
                 THEN [req EXCEPT ![p] = AfterMark(p)]
                 ELSE [req EXCEPT ![p].pc = IF At(p, "mark_ready") THEN "ready"
                                                                   ELSE "failed",
                                  ![p].seen = SeenOf({u})]
    BY <1>4 DEF ReadMarked
  <2>2. CASE status[u] \in {"CONFIRMED", "GONE"}
    BY <1>4, <2>1, <2>2, AfterMarkType, OneRequest DEF ReadMarked, TypeOK
  <2>3. CASE status[u] \notin {"CONFIRMED", "GONE"}
    <3> DEFINE point == IF At(p, "mark_ready") THEN "ready" ELSE "failed"
               r == [req[p] EXCEPT !.pc = point, !.seen = SeenOf({u})]
    <3>1. SeenOf({u}) \in [Uploads -> Status] /\ point \in Points
      BY <1>3, PointTypes DEF SeenOf, TypeOK
    <3>2. r \in Request
      BY <1>1, <3>1 DEF Request
    <3>3. req' = [req EXCEPT ![p] = r]
      BY <2>1, <2>3 DEF TypeOK, Request
    <3> QED
      BY <1>4, <3>2, <3>3, OneRequest DEF ReadMarked, TypeOK
  <2> QED
    BY <2>2, <2>3
<1>5. CASE MarkStreamReady(p)
  <2>1. PICK u \in req[p].cur :
          IF Taken(u)
          THEN req' = [req EXCEPT ![p] = AfterMark(p)] /\ UNCHANGED <<rows, files, usage>>
          ELSE Publish(p, u, AfterMark(p))
    BY <1>5 DEF MarkStreamReady
  <2>2. CASE Taken(u)
    BY <1>5, <2>1, <2>2, AfterMarkType, OneRequest DEF MarkStreamReady, TypeOK
  <2>3. CASE ~Taken(u)
    <3>1. u \in Uploads /\ Publish(p, u, AfterMark(p))
      BY <1>1, <2>1, <2>3
    <3>2. /\ attachments' \in [Uploads -> Nat] /\ stored' \in [Uploads -> BOOLEAN]
          /\ status' \in [Uploads -> Status] /\ cfReady' \in [Uploads -> BOOLEAN]
          /\ usage' \in Usage /\ req' \in [Procs -> Request]
      BY <3>1, AfterMarkType, PublishType
    <3> QED
      BY <1>5, <3>1, <3>2 DEF MarkStreamReady, Publish, TypeOK
  <2> QED
    BY <2>2, <2>3
<1>6. CASE MarkStreamFailed(p)
  <2>1. usage' \in Usage /\ req' \in [Procs -> Request]
    BY <1>6, AfterMarkType, ReleaseWhatWasActiveType DEF MarkStreamFailed
  <2> QED
    BY <1>2, <1>6, <2>1, SetStatusType DEF MarkStreamFailed, TypeOK
<1>7. CASE StartMaintenance(p)
  <2>1. [Idle EXCEPT !.pc = "cleanup", !.us = StaleRows] \in Request
    BY <1>3, IdleType DEF StaleRows, ActiveRows, Request
  <2> QED
    BY <1>7, <2>1, OneRequest DEF StartMaintenance, TypeOK
<1>8. CASE CleanupObject(p)
  <2>1. req' \in [Procs -> Request]
    BY <1>3, <1>8, GotoType DEF CleanupObject
  <2>2. blob' \in [Uploads -> BOOLEAN]
    BY <1>8 DEF CleanupObject, DeleteObjects, TypeOK
  <2> QED
    BY <1>8, <2>1, <2>2 DEF CleanupObject, TypeOK
<1>9. CASE CleanupRelease(p)
  <2>1. [req[p] EXCEPT !.pc = "cleanup", !.cur = {}] \in Request
    BY <1>1, <1>3 DEF Request
  <2>2. usage' \in Usage /\ req' \in [Procs -> Request]
    BY <1>1, <1>9, <2>1, ReleasedType, WriteUsageType DEF CleanupRelease
  <2> QED
    BY <1>9, <2>2 DEF CleanupRelease, TypeOK
<1>10. CASE SelectStreams(p)
  <2>1. PICK us \in SUBSET Uploads :
          req' = [req EXCEPT ![p].pc = "sync", ![p].us = us, ![p].uids = UidsOf(us)]
    BY <1>10, UploadsAssumption DEF SelectStreams
  <2> DEFINE r == [req[p] EXCEPT !.pc = "sync", !.us = us, !.uids = UidsOf(us)]
  <2>2. UidsOf(us) \in [Uploads -> 0 .. MaxGen]
    BY BoundsAssumption DEF UidsOf, TypeOK
  <2>3. r \in Request
    BY <1>1, <1>3, <2>2 DEF Request
  <2>4. req' = [req EXCEPT ![p] = r]
    BY <2>1 DEF TypeOK, Request
  <2> QED
    BY <1>10, <2>3, <2>4, OneRequest DEF SelectStreams, TypeOK
<1>11. CASE EndSync(p)
  <2>1. [Idle EXCEPT !.pc = "reconcile"] \in Request
    BY <1>3, IdleType DEF Request
  <2> QED
    BY <1>11, <2>1, OneRequest DEF EndSync, TypeOK
<1>12. CASE WriteTotals(p)
  <2>1. usage' \in Usage /\ req' \in [Procs -> Request]
    BY <1>1, <1>12, IdleType, WriteUsageType DEF WriteTotals
  <2> QED
    BY <1>12, <2>1 DEF WriteTotals, TypeOK
<1>13. ASSUME NEW u \in Uploads, ExpireStale(p, u) PROVE TypeOK'
  <2> DEFINE later == [req[p] EXCEPT !.us = @ \ {u}]
             taken == [req[p] EXCEPT !.pc = "cleanup_object", !.cur = {u}, !.us = @ \ {u}]
  <2>1. later \in Request /\ taken \in Request
    BY <1>1, <1>3 DEF Request
  <2>2. CASE status[u] \in Active
    <3>1. req' = [req EXCEPT ![p] = taken]
      BY <1>13, <2>2 DEF ExpireStale, TypeOK, Request
    <3> QED
      BY <1>2, <1>13, <2>1, <2>2, <3>1, OneRequest, SetStatusType DEF ExpireStale, TypeOK
  <2>3. CASE status[u] \notin Active
    <3>1. req' = [req EXCEPT ![p] = later]
      BY <1>13, <2>3 DEF ExpireStale, TypeOK, Request
    <3> QED
      BY <1>13, <2>1, <2>3, <3>1, OneRequest DEF ExpireStale, TypeOK
  <2> QED
    BY <2>2, <2>3
<1>14. ASSUME NEW u \in Uploads, PollStream(p, u) PROVE TypeOK'
  <2> DEFINE next == [req[p] EXCEPT !.us = @ \ {u}]
  <2>1. next \in Request
    BY <1>1 DEF Request
  <2>2. /\ [next EXCEPT !.pc = "mark_ready", !.cur = {u}] \in Request
        /\ [next EXCEPT !.pc = "mark_failed", !.cur = {u}] \in Request
    BY <1>3, <2>1 DEF Request
  <2>3. PICK r \in Request : req' = [req EXCEPT ![p] = r]
    BY <1>14, <2>1, <2>2 DEF PollStream
  <2> QED
    BY <1>14, <2>3, OneRequest DEF PollStream, TypeOK
<1> QED
  BY <1>4, <1>5, <1>6, <1>7, <1>8, <1>9, <1>10, <1>11, <1>12, <1>13, <1>14

LEMMA GivenBackType ==
  ASSUME TypeOK, NEW u \in Uploads
  PROVE  GivenBack(u) \in Usage
<1>1. SizeOf(u) \in Nat
  BY SumType DEF SizeOf
<1>2. \A n \in Int : Floor(n) \in Nat
  BY DEF Floor
<1>3. usage.ready - SizeOf(u) \in Int /\ usage.files - 1 \in Int
  BY <1>1 DEF TypeOK, Usage
<1> QED
  BY <1>2, <1>3 DEF TypeOK, GivenBack, Usage

LEMMA OutdatedType ==
  ASSUME NEW r \in Request
  PROVE  Clashed(r) \in Request /\ Outdated(r) \in Request
BY DEF Clashed, Outdated, Request

\* The purge of a service, and a write to a row that a purge has deleted.
LEMMA TypePurge ==
  ASSUME TypeOK, NEW p \in Procs,
         \/ MissingRow(p) \/ PurgeAttachments(p) \/ ReadPurged(p) \/ PurgeRows(p)
         \/ PurgeService(p)
         \/ \E u \in Uploads : PurgeFile(p, u) \/ PurgeUpload(p, u)
  PROVE  TypeOK'
<1> USE DEF rows, files, outside, services
<1>1. /\ req[p] \in Request
      /\ req[p].us \in SUBSET Uploads /\ req[p].cur \in SUBSET Uploads
      /\ req[p].uids \in [Uploads -> 0 .. MaxGen]
  BY DEF TypeOK, Request
<1>2. {"purge_files", "purge_uploads", "purge_service"} \subseteq Points
  BY DEF Points, PurgePoints
<1>3. ASSUME NEW us, DeleteObjects(us) PROVE blob' \in [Uploads -> BOOLEAN]
  BY <1>3 DEF DeleteObjects, TypeOK
<1>4. CASE MissingRow(p)
  BY <1>4, AfterMarkType, OneRequest DEF MissingRow, TypeOK
<1>5. CASE PurgeAttachments(p)
  <2>1. req' \in [Procs -> Request]
    BY <1>2, <1>5, GotoType DEF PurgeAttachments
  <2> QED
    BY <1>1, <1>5, <2>1 DEF PurgeAttachments, TypeOK
<1>6. CASE ReadPurged(p)
  <2> DEFINE us == req[p].cur \intersect Rows
             point == IF us = {} THEN "purge_service" ELSE "purge_uploads"
             r == [req[p] EXCEPT !.pc = point, !.us = us, !.seen = SeenOf(us),
                                 !.uids = UidsOf(us)]
  <2>1. us \in SUBSET Uploads /\ point \in Points
    BY <1>1, <1>2
  <2>2. SeenOf(us) \in [Uploads -> Status] /\ UidsOf(us) \in [Uploads -> 0 .. MaxGen]
    BY PointTypes, BoundsAssumption DEF SeenOf, UidsOf, TypeOK
  <2>3. r \in Request
    BY <1>1, <2>1, <2>2 DEF Request
  <2>4. req' = [req EXCEPT ![p] = r]
    BY <1>6 DEF ReadPurged, TypeOK, Request
  <2> QED
    BY <1>6, <2>3, <2>4, OneRequest DEF ReadPurged, TypeOK
<1>7. CASE PurgeRows(p)
  <2>1. req' \in [Procs -> Request]
    BY <1>2, <1>7, GotoType DEF PurgeRows
  <2>2. status' \in [Uploads -> Status]
    BY <1>7, PointTypes, SetStatusType DEF PurgeRows
  <2> QED
    BY <1>7, <2>1, <2>2 DEF PurgeRows, TypeOK
<1>8. CASE PurgeService(p)
  BY <1>8, DoneType DEF PurgeService, TypeOK
<1>9. ASSUME NEW u \in Uploads PROVE [req[p] EXCEPT !.us = @ \ {u}] \in Request
  BY <1>1 DEF Request
<1>10. ASSUME NEW u \in Uploads, PurgeFile(p, u) PROVE TypeOK'
  <2> DEFINE next == [req[p] EXCEPT !.us = @ \ {u}]
  <2>1. GivenBack(u) \in Usage /\ next \in Request
    BY <1>9, GivenBackType
  <2>2. CASE /\ stored' = [stored EXCEPT ![u] = FALSE]
             /\ usage' = GivenBack(u)
             /\ req' = [q \in Procs |-> IF q = p THEN next ELSE Outdated(Clashed(req[q]))]
             /\ DeleteObjects({u})
    <3>1. req' \in [Procs -> Request]
      BY <2>1, <2>2, OutdatedType DEF TypeOK
    <3>2. blob' \in [Uploads -> BOOLEAN]
      BY <1>3, <2>2
    <3> QED
      BY <1>10, <2>1, <2>2, <3>1, <3>2 DEF PurgeFile, TypeOK
  <2>3. CASE WriteUsage(p, next, GivenBack(u)) /\ DeleteObjects({u}) /\ UNCHANGED stored
    <3>1. usage' \in Usage /\ req' \in [Procs -> Request]
      BY <2>1, <2>3, WriteUsageType
    <3>2. blob' \in [Uploads -> BOOLEAN]
      BY <1>3, <2>3
    <3> QED
      BY <1>10, <2>3, <3>1, <3>2 DEF PurgeFile, TypeOK
  <2>4. CASE req' = [req EXCEPT ![p] = next] /\ UNCHANGED <<usage, blob, stored>>
    BY <1>10, <2>1, <2>4, OneRequest DEF PurgeFile, TypeOK
  <2> QED
    BY <1>10, <2>2, <2>3, <2>4 DEF PurgeFile
<1>11. ASSUME NEW u \in Uploads, PurgeUpload(p, u) PROVE TypeOK'
  <2> DEFINE next == [req[p] EXCEPT !.us = @ \ {u}]
  <2>1. /\ GivenBack(u) \in Usage /\ Released({u}) \in Usage /\ next \in Request
    BY <1>9, GivenBackType, ReleasedType
  <2>2. blob' \in [Uploads -> BOOLEAN] /\ gone' \in [Uploads -> SUBSET Gens]
    <3>1. CASE u \in Stream
      BY <1>11, <3>1 DEF PurgeUpload, TypeOK
    <3>2. CASE u \notin Stream
      BY <1>3, <1>11, <3>2 DEF PurgeUpload, TypeOK
    <3> QED
      BY <3>1, <3>2
  <2>3. usage' \in Usage /\ req' \in [Procs -> Request]
    <3>1. CASE WriteUsage(p, next, Released({u})) \/ WriteUsage(p, next, GivenBack(u))
      BY <2>1, <3>1, WriteUsageType
    <3>2. CASE req' = [req EXCEPT ![p] = next] /\ UNCHANGED usage
      BY <2>1, <3>2, OneRequest DEF TypeOK
    <3> QED
      BY <1>11, <3>1, <3>2 DEF PurgeUpload
  <2> QED
    BY <1>11, <2>2, <2>3 DEF PurgeUpload, TypeOK
<1> QED
  BY <1>4, <1>5, <1>6, <1>7, <1>8, <1>10, <1>11

\* The world changes what it changes, nothing of the organisation's own.
LEMMA TypeWorld ==
  ASSUME TypeOK, World
  PROVE  TypeOK'
<1> USE DEF rows, files, outside, services
<1>1. ASSUME NEW u \in Uploads, TimePasses(u) PROVE TypeOK'
  BY <1>1 DEF TimePasses, TypeOK
<1>2. ASSUME NEW u \in Uploads, ObjectArrives(u) PROVE TypeOK'
  BY <1>2 DEF ObjectArrives, TypeOK
<1>3. ASSUME NEW u \in Uploads, NEW g \in Gens, NEW outcome \in {"ready", "error"},
             VideoProcessed(u, g, outcome)
      PROVE  TypeOK'
  BY <1>3 DEF VideoProcessed, TypeOK
<1> QED
  BY <1>1, <1>2, <1>3 DEF World

LEMMA TypeStep == TypeOK /\ [Next]_vars => TypeOK'
<1> SUFFICES ASSUME TypeOK, [Next]_vars PROVE TypeOK'
  OBVIOUS
<1>1. ASSUME NEW p \in Procs, Call(p) PROVE TypeOK'
  BY <1>1, TypeCall
<1>2. ASSUME NEW p \in Procs, Continue(p) \/ StartMaintenance(p) PROVE TypeOK'
  BY <1>2, TypeRequests, TypeObjects, TypeJobs, TypePurge, TypeReads DEF Continue
<1>3. ASSUME NEW p \in Procs, Abandon(p) PROVE TypeOK'
  BY <1>3, DoneType, BoundsAssumption DEF Abandon, TypeOK, rows, files, outside, services
<1>4. CASE World
  BY <1>4, TypeWorld
<1>5. CASE UNCHANGED vars
  BY <1>5 DEF vars, TypeOK
<1> QED
  BY <1>1, <1>2, <1>3, <1>4, <1>5 DEF Next

\* Every state the requests, the maintenance runs and the outside world can
\* reach together has variables of their types; in particular the counters of
\* the OrganizationStorageUsage row never become negative.
THEOREM TypeCorrect == Spec => []TypeOK
BY TypeInit, TypeStep, PTL DEF Spec

-----------------------------------------------------------------------------
(* What a request has in hand.                                             *)

Reserving(r) == r.pc \in {"reserve", "admit"}

\* An intent under way holds ids that no row has had; a progress call carries a
\* status it may carry; a purge works on the files of the service it has in
\* hand, whose attachments, by the time it deletes them, are lost.
HeldBy(r, existing, lost) ==
  /\ Reserving(r) => r.us # {} /\ r.us \intersect existing = {}
  /\ r.pc = "progress" => r.to \in ProgressStatus
  /\ r.pc = "purge_attachments" => r.us \subseteq r.cur \ Stream
  /\ r.pc = "purge_files" => r.us \subseteq lost \ Stream

InHand == \A p \in Procs : HeldBy(req[p], Admitted, erased)

\* Two intents under way never hold the same id.
Apart ==
  \A p, q \in Procs :
    p # q /\ Reserving(req[p]) /\ Reserving(req[q])
      => req[p].us \intersect req[q].us = {}

\* What can happen to the rows and files in a step of p: some rows get another
\* status, short of confirmation, and bytes are given back; an intent is
\* admitted; the totals of a reconciliation are written; an upload becomes an
\* attachment; a purge deletes attachments, or a file without its attachment.
Relabels ==
  \/ status' = status
  \/ \E us \in SUBSET Rows, s \in (RowStatus \union {"GONE"}) \ {"CONFIRMED"} :
       SetStatus(us, s)

Quiet ==
  /\ attachments' = attachments /\ stored' = stored /\ erased' = erased
  /\ usage'.ready <= usage.ready /\ usage'.files <= usage.files
  /\ Relabels

Publishes(p) ==
  /\ \E u \in Rows, r \in Request : ~Taken(u) /\ Publish(p, u, r)
  /\ erased' = erased

Deletes(p) ==
  /\ At(p, "purge_files")
  /\ \E u \in erased \ Stream :
       /\ stored[u]
       /\ stored' = [stored EXCEPT ![u] = FALSE]
       /\ usage' = GivenBack(u)
  /\ \A q \in Procs \ {p} : req'[q] = Outdated(Clashed(req[q]))
  /\ UNCHANGED <<rows, attachments, erased>>

Effect(p) ==
  Quiet \/ Admit(p) \/ WriteTotals(p) \/ Publishes(p) \/ PurgeAttachments(p) \/ Deletes(p)

LEMMA ReleasedQuiet ==
  ASSUME TypeOK, NEW us
  PROVE  /\ Released(us).ready <= usage.ready /\ Released(us).files <= usage.files
         /\ usage.ready <= usage.ready /\ usage.files <= usage.files
BY DEF TypeOK, Usage, Released

LEMMA GivenBackQuiet ==
  ASSUME TypeOK, NEW u \in Uploads
  PROVE  GivenBack(u).ready <= usage.ready /\ GivenBack(u).files <= usage.files
<1>1. SizeOf(u) \in Nat
  BY SumType DEF SizeOf
<1>2. \A m, n \in Nat : Floor(m - n) <= m
  BY DEF Floor
<1> QED
  BY <1>1, <1>2 DEF TypeOK, Usage, GivenBack

LEMMA ReleaseWhatWasActiveQuiet ==
  ASSUME TypeOK, NEW p \in Procs, NEW r, ReleaseWhatWasActive(p, r)
  PROVE  usage'.ready <= usage.ready /\ usage'.files <= usage.files
BY ReleasedQuiet DEF ReleaseWhatWasActive, WriteUsage

LEMMA Effects ==
  ASSUME TypeOK, InHand, NEW p \in Procs,
         Call(p) \/ Continue(p) \/ StartMaintenance(p) \/ Abandon(p)
  PROVE  Effect(p)
<1> USE DEF rows, files, outside, services
<1>1. /\ At(p, "progress") => req[p].to \in ProgressStatus
      /\ At(p, "purge_files") => req[p].us \subseteq erased \ Stream
  BY DEF InHand, HeldBy, At
<1>2. /\ {"UPLOADING", "FAILED", "PENDING", "CANCELLED", "EXPIRED", "GONE"}
            \subseteq (RowStatus \union {"GONE"}) \ {"CONFIRMED"}
      /\ ProgressStatus \subseteq (RowStatus \union {"GONE"}) \ {"CONFIRMED"}
  BY DEF RowStatus, Active, Failed, ProgressStatus
<1>3. ASSUME UNCHANGED <<status, files, usage, erased>> PROVE Effect(p)
  BY <1>3, ReleasedQuiet DEF Effect, Quiet, Relabels
<1>held. /\ \A point : Writing(p, point) /\ point # "finalize" => req[p].cur \in SUBSET Rows
         /\ Writing(p, "finalize") => req[p].us \in SUBSET Rows
  BY DEF Writing, Held, At
<1>set. ASSUME NEW us \in SUBSET Rows,
               NEW s \in (RowStatus \union {"GONE"}) \ {"CONFIRMED"}, SetStatus(us, s),
               UNCHANGED <<files, erased>>,
               usage'.ready <= usage.ready, usage'.files <= usage.files
        PROVE  Effect(p)
  BY <1>set DEF Effect, Quiet, Relabels
<1>4. CASE Call(p)
  BY <1>3, <1>4 DEF Call, UploadCall, CreateIntent, MarkStarted, Confirm, Cancel, Retry,
     StreamWebhook, UpdateProgress, CreateWithManifest, FinalizeWithFailures,
     RemoveService, RestoreService, PermanentDelete, ReadActive, ReadFiles
<1>5. CASE StartMaintenance(p) \/ Abandon(p)
  BY <1>3, <1>5 DEF StartMaintenance, Abandon
<1>6. CASE \/ CheckQuota(p) \/ AbortAdmission(p) \/ PollOnConfirm(p) \/ Verify(p)
           \/ RejectObject(p) \/ CancelObject(p) \/ RetryObject(p) \/ ReadMarked(p)
           \/ CleanupObject(p) \/ SelectStreams(p) \/ EndSync(p)
           \/ ReadActive(p) \/ ReadFiles(p) \/ MissingRow(p) \/ ReadPurged(p)
           \/ PurgeService(p)
  BY <1>3, <1>6 DEF CheckQuota, AbortAdmission, PollOnConfirm, Verify, RejectObject,
     CancelObject, RetryObject, ReadMarked, CleanupObject, SelectStreams, EndSync,
     ReadActive, ReadFiles, MissingRow, ReadPurged, PurgeService
<1>7. CASE WriteStarted(p)
  BY <1>2, <1>held, <1>set, <1>7, ReleasedQuiet DEF WriteStarted
<1>8. CASE WriteProgress(p)
  <2>1. req[p].to \in (RowStatus \union {"GONE"}) \ {"CONFIRMED"}
    BY <1>1, <1>2, <1>8 DEF WriteProgress, Writing
  <2> QED
    BY <1>held, <1>set, <1>8, <2>1, ReleasedQuiet DEF WriteProgress
<1>9. CASE WriteProgressFailed(p)
  BY <1>2, <1>held, <1>set, <1>9, ReleasedQuiet DEF WriteProgressFailed, WriteUsage
<1>10. CASE ExpireOnConfirm(p)
  BY <1>2, <1>held, <1>set, <1>10, ReleasedQuiet DEF ExpireOnConfirm, WriteUsage
<1>11. CASE Reject(p)
  <2> DEFINE us == req[p].cur \intersect ActiveRows
  <2>1. CASE us = {}
    BY <1>3, <1>11, <2>1 DEF Reject
  <2>2. CASE us # {}
    <3>1. us \in SUBSET Rows /\ SetStatus(us, "FAILED") /\ usage' = Released(us)
      BY <1>11, <2>2 DEF Reject, WriteUsage, ActiveRows, Rows, Admitted, Active
    <3> QED
      BY <1>2, <1>11, <3>1, ReleasedQuiet DEF Reject, Effect, Quiet, Relabels
  <2> QED
    BY <2>1, <2>2
<1>12. CASE Register(p)
  <2>1. PICK u \in req[p].cur :
          IF Taken(u) THEN Done(p) /\ UNCHANGED <<rows, files, usage>>
                      ELSE Publish(p, u, Idle)
    BY <1>12 DEF Register
  <2>2. u \in Rows /\ erased' = erased
    BY <1>held, <1>12 DEF Register
  <2> QED
    BY <1>3, <2>1, <2>2, IdleType DEF Effect, Publishes
<1>13. CASE WriteCancelled(p)
  BY <1>2, <1>held, <1>set, <1>13, ReleaseWhatWasActiveQuiet DEF WriteCancelled
<1>14. CASE WriteRetried(p)
  BY <1>2, <1>held, <1>set, <1>14, ReleasedQuiet DEF WriteRetried
<1>15. CASE WriteFinalized(p)
  BY <1>2, <1>held, <1>set, <1>15, ReleaseWhatWasActiveQuiet DEF WriteFinalized
<1>16. CASE MarkStreamReady(p)
  <2>1. PICK u \in req[p].cur :
          IF Taken(u)
          THEN req' = [req EXCEPT ![p] = AfterMark(p)] /\ UNCHANGED <<rows, files, usage>>
          ELSE Publish(p, u, AfterMark(p))
    BY <1>16 DEF MarkStreamReady
  <2>2. u \in Rows /\ erased' = erased
    BY <1>held, <1>16 DEF MarkStreamReady
  <2> QED
    BY <1>3, <2>1, <2>2, AfterMarkType DEF Effect, Publishes
<1>17. CASE MarkStreamFailed(p)
  BY <1>2, <1>held, <1>set, <1>17, ReleaseWhatWasActiveQuiet DEF MarkStreamFailed
<1>18. CASE CleanupRelease(p)
  BY <1>18, ReleasedQuiet DEF CleanupRelease, WriteUsage, Effect, Quiet, Relabels
<1>19. ASSUME NEW u \in Uploads, ExpireStale(p, u) PROVE Effect(p)
  <2>1. CASE status[u] \in Active
    <3>1. {u} \in SUBSET Rows
      BY <2>1 DEF Rows, Admitted, Active
    <3> QED
      BY <1>2, <1>19, <2>1, <3>1, ReleasedQuiet DEF ExpireStale, Effect, Quiet, Relabels
  <2>2. CASE status[u] \notin Active
    BY <1>3, <1>19, <2>2 DEF ExpireStale
  <2> QED
    BY <2>1, <2>2
<1>20. ASSUME NEW u \in Uploads, PollStream(p, u) PROVE Effect(p)
  BY <1>3, <1>20 DEF PollStream
<1>21. CASE Admit(p) \/ WriteTotals(p) \/ PurgeAttachments(p)
  BY <1>21 DEF Effect
<1>22. CASE PurgeRows(p)
  <2>1. req[p].cur \intersect Rows \in SUBSET Rows
    OBVIOUS
  <2> QED
    BY <1>2, <1>22, <2>1, ReleasedQuiet DEF PurgeRows, Effect, Quiet, Relabels
<1>23. ASSUME NEW u \in Uploads, PurgeUpload(p, u) PROVE Effect(p)
  <2>1. usage' \in {Released({u}), GivenBack(u), usage}
    BY <1>23 DEF PurgeUpload, WriteUsage
  <2>2. usage'.ready <= usage.ready /\ usage'.files <= usage.files
    BY <2>1, ReleasedQuiet, GivenBackQuiet
  <2> QED
    BY <1>23, <2>2 DEF PurgeUpload, Effect, Quiet, Relabels
<1>24. ASSUME NEW u \in Uploads, PurgeFile(p, u) PROVE Effect(p)
  <2>1. CASE stored[u] /\ attachments[u] = 0
    <3>1. u \in erased \ Stream
      BY <1>1, <1>24 DEF PurgeFile
    <3> QED
      BY <1>24, <2>1, <3>1 DEF PurgeFile, Effect, Deletes
  <2>2. CASE ~(stored[u] /\ attachments[u] = 0)
    <3>1. usage' \in {GivenBack(u), usage}
      BY <1>24, <2>2 DEF PurgeFile, WriteUsage
    <3>2. usage'.ready <= usage.ready /\ usage'.files <= usage.files
      BY <3>1, ReleasedQuiet, GivenBackQuiet
    <3> QED
      BY <1>24, <2>2, <3>2 DEF PurgeFile, Effect, Quiet, Relabels
  <2> QED
    BY <2>1, <2>2
<1> QED
  BY <1>4, <1>5, <1>6, <1>7, <1>8, <1>9, <1>10, <1>11, <1>12, <1>13, <1>14, <1>15,
     <1>16, <1>17, <1>18, <1>19, <1>20, <1>21, <1>22, <1>23, <1>24 DEF Continue

\* Only an admission adds rows, and only a purge removes some.
LEMMA RowsStep ==
  ASSUME TypeOK, NEW p \in Procs, Effect(p)
  PROVE  /\ Admitted \subseteq Admitted'
         /\ ~Admit(p) => Admitted' = Admitted /\ Rows' \subseteq Rows
         /\ Admit(p) => Admitted' = Admitted \union req[p].us
<1>1. ASSUME NEW us \in SUBSET Rows, NEW s \in RowStatus \union {"GONE"}, SetStatus(us, s)
      PROVE  Admitted' = Admitted /\ Rows' \subseteq Rows
  BY <1>1 DEF SetStatus, Rows, Admitted, RowStatus, Active, Failed
<1>2. ASSUME UNCHANGED status PROVE Admitted' = Admitted /\ Rows' \subseteq Rows
  BY <1>2 DEF Rows, Admitted
<1>3. ASSUME Quiet PROVE Admitted' = Admitted /\ Rows' \subseteq Rows
  BY <1>1, <1>2, <1>3 DEF Quiet, Relabels
<1>4. ASSUME WriteTotals(p) \/ PurgeAttachments(p) \/ Deletes(p)
      PROVE  Admitted' = Admitted /\ Rows' \subseteq Rows
  BY <1>2, <1>4 DEF WriteTotals, PurgeAttachments, Deletes, rows
<1>5. ASSUME Publishes(p) PROVE Admitted' = Admitted /\ Rows' \subseteq Rows
  <2>1. PICK u \in Rows, r \in Request : Publish(p, u, r)
    BY <1>5 DEF Publishes
  <2>2. SetStatus({u}, "CONFIRMED")
    BY <2>1 DEF Publish
  <2> QED
    BY <1>1, <2>2 DEF RowStatus
<1>6. ASSUME Admit(p) PROVE Admitted' = Admitted \union req[p].us
  <2>1. req[p].us \in SUBSET Uploads
    BY DEF TypeOK, Request
  <2>2. status' = [u \in Uploads |-> IF u \in req[p].us THEN "PENDING" ELSE status[u]]
    BY <1>6 DEF Admit, SetStatus
  <2> QED
    BY <2>1, <2>2 DEF Admitted
<1>7. ~Admit(p) => Admitted' = Admitted /\ Rows' \subseteq Rows
  BY <1>3, <1>4, <1>5 DEF Effect
<1> QED
  BY <1>6, <1>7

\* A step of one request leaves what another has in hand alone; at most it
\* makes an admission fail, or the sums of a reconciliation old.
LEMMA OthersKept ==
  ASSUME TypeOK, InHand, NEW p \in Procs, NEW q \in Procs, p # q,
         Call(p) \/ Continue(p) \/ StartMaintenance(p) \/ Abandon(p)
  PROVE  /\ req'[q] \in {req[q], Clashed(req[q]), Outdated(Clashed(req[q]))}
         /\ erased = {} => req'[q] \in {req[q], Clashed(req[q])}
<1> USE DEF TypeOK
<1>1. ASSUME NEW r, req' = [req EXCEPT ![p] = r] PROVE req'[q] = req[q]
  BY <1>1
<1>2. ASSUME NEW r, NEW n, WriteUsage(p, r, n) PROVE req'[q] = Clashed(req[q])
  BY <1>2 DEF WriteUsage
<1>3. ASSUME NEW r, ReleaseWhatWasActive(p, r)
      PROVE  req'[q] = req[q] \/ req'[q] = Clashed(req[q])
  BY <1>1, <1>2, <1>3 DEF ReleaseWhatWasActive
<1>4. ASSUME NEW u, NEW r, Publish(p, u, r) PROVE req'[q] = Clashed(req[q])
  BY <1>2, <1>4 DEF Publish
<1>5. ASSUME ReadActive(p) \/ ReadFiles(p) PROVE req'[q] = req[q]
  BY <1>5 DEF ReadActive, ReadFiles
<1>6. CASE Call(p)
  <2>1. ASSUME NEW u \in Uploads, CreateIntent(p, u) PROVE req'[q] = req[q]
    BY <2>1 DEF CreateIntent, Intending
  <2>2. ASSUME NEW u \in Uploads,
               \/ MarkStarted(p, u) \/ Confirm(p, u) \/ Cancel(p, u)
               \/ Retry(p, u) \/ StreamWebhook(p, u)
        PROVE  req'[q] = req[q]
    BY <2>2 DEF MarkStarted, Confirm, Cancel, Retry, StreamWebhook, Begin
  <2>3. ASSUME NEW u \in Uploads, NEW to \in ProgressStatus, UpdateProgress(p, u, to)
        PROVE  req'[q] = req[q]
    BY <2>3 DEF UpdateProgress
  <2>4. ASSUME NEW us \in SUBSET Uploads, CreateWithManifest(p, us)
        PROVE  req'[q] = req[q]
    BY <2>4 DEF CreateWithManifest, Intending
  <2>5. ASSUME NEW S \in Services,
               \/ FinalizeWithFailures(p, S) \/ PermanentDelete(p, S)
               \/ RemoveService(p, S) \/ RestoreService(p, S)
        PROVE  req'[q] = req[q]
    BY <2>5 DEF FinalizeWithFailures, PermanentDelete, RemoveService, RestoreService
  <2> QED
    BY <1>5, <1>6, <2>1, <2>2, <2>3, <2>4, <2>5 DEF Call, UploadCall
<1>7. CASE StartMaintenance(p) \/ Abandon(p)
  BY <1>7 DEF StartMaintenance, Abandon, Done
<1>8. CASE \/ CheckQuota(p) \/ AbortAdmission(p) \/ WriteStarted(p)
           \/ WriteProgress(p) \/ PollOnConfirm(p) \/ Verify(p)
  BY <1>8 DEF CheckQuota, AbortAdmission, WriteStarted, WriteProgress, PollOnConfirm,
     Verify, Done, Goto
<1>9. CASE \/ RejectObject(p) \/ CancelObject(p) \/ WriteRetried(p)
           \/ CleanupObject(p) \/ SelectStreams(p) \/ EndSync(p)
  BY <1>9 DEF RejectObject, CancelObject, WriteRetried, CleanupObject, SelectStreams,
     EndSync, Done, Goto
<1>10. CASE RetryObject(p)
  BY <1>10 DEF RetryObject, Done, Goto
<1>11. CASE ReadMarked(p)
  BY <1>11 DEF ReadMarked
<1>12. ASSUME NEW u \in Uploads, ExpireStale(p, u) PROVE req'[q] = req[q]
  BY <1>12 DEF ExpireStale
<1>13. ASSUME NEW u \in Uploads, PollStream(p, u) PROVE req'[q] = req[q]
  BY <1>13 DEF PollStream
<1>14. CASE \/ Admit(p) \/ WriteProgressFailed(p) \/ ExpireOnConfirm(p)
           \/ CleanupRelease(p) \/ WriteTotals(p)
  BY <1>2, <1>14 DEF Admit, WriteProgressFailed, ExpireOnConfirm, CleanupRelease,
     WriteTotals
<1>15. CASE Reject(p)
  BY <1>1, <1>2, <1>15 DEF Reject, Done
<1>16. CASE Register(p)
  BY <1>1, <1>4, <1>16 DEF Register, Done
<1>17. CASE MarkStreamReady(p)
  BY <1>1, <1>4, <1>17 DEF MarkStreamReady
<1>18. CASE WriteCancelled(p) \/ WriteFinalized(p) \/ MarkStreamFailed(p)
  BY <1>3, <1>18 DEF WriteCancelled, WriteFinalized, MarkStreamFailed
<1>19. CASE \/ MissingRow(p) \/ PurgeAttachments(p) \/ ReadPurged(p) \/ PurgeRows(p)
            \/ PurgeService(p)
  BY <1>19 DEF MissingRow, PurgeAttachments, ReadPurged, PurgeRows, PurgeService, Goto,
     Done
<1>20. ASSUME NEW u \in Uploads, PurgeUpload(p, u)
       PROVE  req'[q] = req[q] \/ req'[q] = Clashed(req[q])
  BY <1>1, <1>2, <1>20 DEF PurgeUpload
<1>21. ASSUME NEW u \in Uploads, PurgeFile(p, u)
       PROVE  /\ req'[q] \in {req[q], Clashed(req[q]), Outdated(Clashed(req[q]))}
              /\ erased # {}
  <2>1. erased # {}
    BY <1>21 DEF PurgeFile, InHand, HeldBy, At
  <2> QED
    BY <1>1, <1>2, <1>21, <2>1 DEF PurgeFile
<1> QED
  BY <1>5, <1>6, <1>7, <1>8, <1>9, <1>10, <1>11, <1>12, <1>13, <1>14, <1>15, <1>16,
     <1>17, <1>18, <1>19, <1>20, <1>21 DEF Continue

LEMMA ClashedKeeps ==
  ASSUME NEW r \in Request, NEW s \in {r, Clashed(r), Outdated(Clashed(r))}
  PROVE  /\ s.pc = r.pc /\ s.us = r.us /\ s.cur = r.cur
         /\ s.to = r.to /\ s.totals = r.totals /\ s.seen = r.seen
BY DEF Clashed, Outdated, Request

\* Where a request has nothing in hand that is bound to anything.
Loose == Points \ {"reserve", "admit", "progress", "purge_attachments", "purge_files"}

LEMMA HeldLoose ==
  ASSUME NEW r, r.pc \in Loose, NEW existing, NEW lost
  PROVE  HeldBy(r, existing, lost) /\ ~Reserving(r)
BY DEF HeldBy, Reserving, Loose

LEMMA LoosePoints ==
  /\ {"idle", "start", "verify", "reject_object", "reject", "register", "expire",
      "stream_poll", "cancel_object", "cancel", "progress_failed", "retry_object",
      "retry", "finalize"} \subseteq Loose
  /\ {"ready", "failed", "mark_ready", "mark_failed"} \subseteq Loose
  /\ {"cleanup", "cleanup_object", "cleanup_release", "sync", "reconcile"} \subseteq Loose
  /\ {"recount_active", "recount_files", "recount"} \subseteq Loose
  /\ {"purge_uploads", "purge_service"} \subseteq Loose
  /\ Idle.pc = "idle"
BY DEF Loose, Points, ClientPoints, RecountPoints, MarkPoints, JobPoints, PurgePoints, Idle

\* A call puts a row into hand, ids no other intent holds, or a service whose
\* files it deletes.
LEMMA CallHand ==
  ASSUME TypeOK, InHand, NEW p \in Procs, Call(p)
  PROVE  /\ HeldBy(req'[p], Admitted, erased')
         /\ Reserving(req'[p]) =>
              \A q \in Procs : Reserving(req[q]) => req'[p].us \intersect req[q].us = {}
<1> DEFINE OK == /\ HeldBy(req'[p], Admitted, erased')
                 /\ Reserving(req'[p]) =>
                      \A q \in Procs :
                        Reserving(req[q]) => req'[p].us \intersect req[q].us = {}
<1>1. ASSUME req'[p].pc \in Loose PROVE OK
  BY <1>1, HeldLoose
<1>2. ASSUME NEW u \in Uploads,
             \/ MarkStarted(p, u) \/ Confirm(p, u) \/ Cancel(p, u)
             \/ Retry(p, u) \/ StreamWebhook(p, u)
      PROVE  OK
  <2>1. PICK point \in Loose, kept \in SUBSET Uploads : req' = [req EXCEPT ![p] = Reading(u, point, kept)]
    BY <1>2, LoosePoints DEF MarkStarted, Confirm, Cancel, Retry, StreamWebhook, Begin
  <2>2. req'[p].pc = point
    BY <2>1 DEF TypeOK, Reading, Idle
  <2> QED
    BY <1>1, <2>1, <2>2
<1>3. ASSUME NEW u \in Uploads, NEW to \in ProgressStatus, UpdateProgress(p, u, to)
      PROVE  OK
  <2>1. PICK point :
          /\ req' = [req EXCEPT ![p] = [Reading(u, point, {}) EXCEPT !.to = to]]
          /\ point \in {"progress_failed", "progress"}
    BY <1>3 DEF UpdateProgress
  <2>2. req'[p].pc = point /\ req'[p].to = to
    BY <2>1 DEF TypeOK, Reading, Idle
  <2> QED
    BY <1>3, <2>1, <2>2 DEF HeldBy, Reserving
<1>4. ASSUME NEW us \in SUBSET Uploads, us # {}, \A u \in us : Fresh(u),
             NEW ids, Intending(p, us, ids)
      PROVE  OK
  <2>1. req'[p].pc = "reserve" /\ req'[p].us = us
    BY <1>4 DEF Intending, TypeOK, Idle
  <2>2. us \intersect Admitted = {}
    BY <1>4 DEF Fresh, Admitted
  <2>3. \A q \in Procs : Reserving(req[q]) => us \intersect req[q].us = {}
    BY <1>4 DEF Fresh, Reserving, At
  <2> QED
    BY <1>4, <2>1, <2>2, <2>3 DEF HeldBy, Reserving
<1>5. ASSUME NEW u \in Uploads, CreateIntent(p, u) PROVE OK
  <2>1. PICK ids : Intending(p, {u}, ids)
    BY <1>5 DEF CreateIntent
  <2> QED
    BY <1>4, <1>5, <2>1 DEF CreateIntent
<1>6. ASSUME NEW us \in SUBSET Uploads, CreateWithManifest(p, us) PROVE OK
  BY <1>4, <1>6 DEF CreateWithManifest
<1>7. ASSUME NEW S \in Services, FinalizeWithFailures(p, S) PROVE OK
  <2>1. req'[p].pc = "finalize"
    BY <1>7 DEF FinalizeWithFailures, TypeOK, Idle
  <2> QED
    BY <1>1, <2>1, LoosePoints
<1>8. ASSUME NEW S \in Services, RemoveService(p, S) \/ RestoreService(p, S) PROVE OK
  <2>1. req' = req /\ req[p].pc = "idle"
    BY <1>8 DEF RemoveService, RestoreService, Calling, At
  <2> QED
    BY <1>1, <2>1, LoosePoints
<1>9. ASSUME NEW S \in Services, PermanentDelete(p, S) PROVE OK
  <2>1. /\ req'[p].pc = "purge_attachments" /\ req'[p].cur = S
        /\ req'[p].us = {u \in S \ Stream : attachments[u] > 0}
    BY <1>9 DEF PermanentDelete, TypeOK, Idle
  <2>2. req'[p].us \subseteq req'[p].cur \ Stream
    BY <2>1
  <2> QED
    BY <2>1, <2>2 DEF HeldBy, Reserving
<1>10. ASSUME ReadActive(p) \/ ReadFiles(p) PROVE OK
  <2>1. req'[p].pc \in {"recount_active", "recount_files", "recount"}
    BY <1>10 DEF ReadActive, ReadFiles, TypeOK, Request
  <2> QED
    BY <1>1, <2>1, LoosePoints
<1> QED
  BY <1>2, <1>3, <1>5, <1>6, <1>7, <1>8, <1>9, <1>10 DEF Call, UploadCall

\* Going on, a request comes to a point where nothing is bound, keeps its ids
\* up to the admission, or deletes the files of attachments it has deleted.
LEMMA ContinueHand ==
  ASSUME TypeOK, InHand, NEW p \in Procs,
         Continue(p) \/ StartMaintenance(p) \/ Abandon(p)
  PROVE  \/ HeldBy(req'[p], Admitted, erased') /\ ~Reserving(req'[p])
         \/ Reserving(req[p]) /\ Reserving(req'[p]) /\ req'[p].us = req[p].us
<1> DEFINE OK == \/ HeldBy(req'[p], Admitted, erased') /\ ~Reserving(req'[p])
                 \/ Reserving(req[p]) /\ Reserving(req'[p]) /\ req'[p].us = req[p].us
<1> USE DEF TypeOK
<1>1. ASSUME req'[p].pc \in Loose PROVE OK
  BY <1>1, HeldLoose
<1>2. ASSUME NEW point \in Loose, Goto(p, point) PROVE OK
  <2>1. req'[p].pc = point
    BY <1>2 DEF Goto, Request
  <2> QED
    BY <1>1, <1>2, <2>1
<1>3. ASSUME req'[p] = Idle PROVE OK
  BY <1>1, <1>3, LoosePoints
<1>4. ASSUME Done(p) PROVE OK
  BY <1>3, <1>4 DEF Done
<1>5. ASSUME NEW r, NEW n, WriteUsage(p, r, n) PROVE req'[p] = r
  BY <1>5 DEF WriteUsage
<1>6. ASSUME NEW r, ReleaseWhatWasActive(p, r) PROVE req'[p] = r
  BY <1>5, <1>6 DEF ReleaseWhatWasActive
<1>7. ASSUME req'[p] = AfterMark(p) PROVE OK
  <2>1. AfterMark(p).pc \in {"sync", "idle"}
    BY DEF AfterMark, Idle
  <2> QED
    BY <1>1, <1>7, <2>1, LoosePoints
<1>9. CASE CheckQuota(p)
  <2>1. CASE req' = [req EXCEPT ![p].pc = "admit", ![p].seen = status]
    <3>1. req'[p].pc = "admit" /\ req'[p].us = req[p].us
      BY <2>1 DEF Request
    <3> QED
      BY <1>9, <3>1 DEF CheckQuota, At, Reserving
  <2> QED
    BY <1>4, <1>9, <2>1 DEF CheckQuota
<1>10. CASE \/ AbortAdmission(p) \/ WriteStarted(p) \/ WriteProgress(p)
            \/ WriteRetried(p) \/ PurgeService(p) \/ Abandon(p)
  BY <1>4, <1>10 DEF AbortAdmission, WriteStarted, WriteProgress, WriteRetried,
     PurgeService, Abandon
<1>11. CASE \/ Admit(p) \/ WriteProgressFailed(p) \/ ExpireOnConfirm(p) \/ WriteTotals(p)
  BY <1>3, <1>5, <1>11 DEF Admit, WriteProgressFailed, ExpireOnConfirm, WriteTotals
<1>12. CASE \/ PollOnConfirm(p) \/ Verify(p) \/ RejectObject(p) \/ CancelObject(p)
            \/ CleanupObject(p) \/ PurgeRows(p)
  BY <1>2, <1>4, <1>12, LoosePoints DEF PollOnConfirm, Verify, RejectObject,
     CancelObject, CleanupObject, PurgeRows
<1>13. CASE Reject(p)
  BY <1>3, <1>4, <1>5, <1>13 DEF Reject
<1>14. CASE Register(p)
  BY <1>3, <1>4, <1>5, <1>14 DEF Register, Publish
<1>15. CASE RetryObject(p)
  <2>1. ASSUME NEW u, NEW g, req' = [req EXCEPT ![p].pc = "retry", ![p].uids[u] = g]
        PROVE  OK
    <3>1. req'[p].pc = "retry"
      BY <2>1 DEF Request
    <3> QED
      BY <1>1, <3>1, LoosePoints
  <2> QED
    BY <1>2, <1>4, <1>15, <2>1, LoosePoints DEF RetryObject
<1>16. CASE WriteCancelled(p) \/ WriteFinalized(p)
  BY <1>3, <1>6, <1>16 DEF WriteCancelled, WriteFinalized
<1>17. CASE ReadMarked(p)
  <2>1. CASE req' = [req EXCEPT ![p] = AfterMark(p)]
    BY <1>7, <2>1
  <2>2. ASSUME NEW point \in {"ready", "failed"}, NEW seen,
               req' = [req EXCEPT ![p].pc = point, ![p].seen = seen]
        PROVE  OK
    <3>1. req'[p].pc = point
      BY <2>2 DEF Request
    <3> QED
      BY <1>1, <2>2, <3>1, LoosePoints
  <2> QED
    BY <1>17, <2>1, <2>2 DEF ReadMarked
<1>18. CASE MarkStreamReady(p) \/ MissingRow(p)
  <2>1. req'[p] = AfterMark(p)
    BY <1>5, <1>18 DEF MarkStreamReady, MissingRow, Publish
  <2> QED
    BY <1>7, <2>1
<1>19. CASE MarkStreamFailed(p)
  BY <1>6, <1>7, <1>19 DEF MarkStreamFailed
<1>20. CASE StartMaintenance(p) \/ EndSync(p)
  <2>1. StartMaintenance(p) => req'[p].pc = "cleanup"
    BY DEF StartMaintenance, Idle
  <2>2. EndSync(p) => req'[p].pc = "reconcile"
    BY DEF EndSync, Idle
  <2> QED
    BY <1>1, <1>20, <2>1, <2>2, LoosePoints
<1>21. CASE CleanupRelease(p)
  <2>1. req'[p] = [req[p] EXCEPT !.pc = "cleanup", !.cur = {}]
    BY <1>5, <1>21 DEF CleanupRelease
  <2>2. req'[p].pc = "cleanup"
    BY <2>1 DEF Request
  <2> QED
    BY <1>1, <2>2, LoosePoints
<1>22. CASE SelectStreams(p)
  <2>1. req'[p].pc = "sync"
    BY <1>22 DEF SelectStreams, Request
  <2> QED
    BY <1>1, <2>1, LoosePoints
<1>23. CASE ReadActive(p) \/ ReadFiles(p)
  <2>1. req'[p].pc \in {"recount_active", "recount_files", "recount"}
    BY <1>23 DEF ReadActive, ReadFiles, Request
  <2> QED
    BY <1>1, <2>1, LoosePoints
<1>24. ASSUME NEW u \in Uploads, ExpireStale(p, u) \/ PollStream(p, u) PROVE OK
  <2>1. ExpireStale(p, u) => req'[p].pc \in {"cleanup_object", "cleanup"}
    BY DEF ExpireStale, At, Request
  <2>2. PollStream(p, u) => req'[p].pc \in {"mark_ready", "mark_failed", "sync"}
    BY DEF PollStream, At, Request
  <2> QED
    BY <1>1, <1>24, <2>1, <2>2, LoosePoints
<1>25. CASE PurgeAttachments(p)
  <2>1. /\ req'[p].pc = "purge_files" /\ req'[p].us = req[p].us
        /\ erased' = erased \union req[p].cur
    BY <1>25 DEF PurgeAttachments, Goto, Request
  <2>2. req[p].us \subseteq req[p].cur \ Stream
    BY <1>25 DEF PurgeAttachments, At, InHand, HeldBy
  <2> QED
    BY <2>1, <2>2 DEF HeldBy, Reserving
<1>26. CASE ReadPurged(p)
  <2> DEFINE us == req[p].cur \intersect Rows
             point == IF us = {} THEN "purge_service" ELSE "purge_uploads"
             r == [req[p] EXCEPT !.pc = point, !.us = us, !.seen = SeenOf(us),
                                 !.uids = UidsOf(us)]
  <2>0. req'[p] = r
    BY <1>26 DEF ReadPurged, TypeOK, Request
  <2>1. r.pc = point
    <3> HIDE DEF us, point
    <3> QED
      BY req[p] \in Request DEF Request
  <2>2. req'[p].pc \in {"purge_uploads", "purge_service"}
    BY <2>0, <2>1
  <2> QED
    BY <1>1, <2>2, LoosePoints
<1>27. ASSUME NEW u \in Uploads, PurgeFile(p, u) \/ PurgeUpload(p, u) PROVE OK
  <2> DEFINE next == [req[p] EXCEPT !.us = @ \ {u}]
  <2>1. req'[p] = next
    BY <1>5, <1>27 DEF PurgeFile, PurgeUpload
  <2>2. req'[p].pc = req[p].pc /\ req'[p].us = req[p].us \ {u}
    BY <2>1 DEF Request
  <2>3. CASE PurgeFile(p, u)
    <3>1. req[p].pc = "purge_files" /\ erased' = erased
      BY <2>3 DEF PurgeFile, At, services
    <3>2. req[p].us \subseteq erased \ Stream
      BY <3>1 DEF InHand, HeldBy
    <3> QED
      BY <2>2, <3>1, <3>2 DEF HeldBy, Reserving
  <2>4. CASE PurgeUpload(p, u)
    BY <1>1, <2>2, <2>4, LoosePoints DEF PurgeUpload, At
  <2> QED
    BY <1>27, <2>3, <2>4
<1> QED
  BY <1>9, <1>10, <1>11, <1>12, <1>13, <1>14, <1>15, <1>16, <1>17, <1>18, <1>19, <1>20,
     <1>21, <1>22, <1>23, <1>24, <1>25, <1>26, <1>27 DEF Continue

\* What is in hand, together with the types.
HandInv == TypeOK /\ InHand /\ Apart

LEMMA HandStep ==
  ASSUME HandInv, NEW p \in Procs,
         Call(p) \/ Continue(p) \/ StartMaintenance(p) \/ Abandon(p)
  PROVE  InHand' /\ Apart'
<1> USE DEF HandInv
<1>1. Effect(p)
  BY Effects
<1>2. /\ Admitted \subseteq Admitted' /\ erased \subseteq erased'
      /\ ~Admit(p) => Admitted' = Admitted
      /\ Admit(p) => /\ Admitted' = Admitted \union req[p].us
                     /\ req'[p] = Idle /\ Reserving(req[p])
  <2>1. erased \subseteq erased'
    BY <1>1 DEF Effect, Quiet, Admit, WriteTotals, Publishes, PurgeAttachments, Deletes,
       services
  <2>2. Admit(p) => req'[p] = Idle /\ Reserving(req[p])
    BY DEF Admit, WriteUsage, At, Reserving
  <2> QED
    BY <1>1, <2>1, <2>2, RowsStep
<1>3. ASSUME NEW q \in Procs, q # p
      PROVE  /\ req'[q].pc = req[q].pc /\ req'[q].us = req[q].us
             /\ req'[q].cur = req[q].cur /\ req'[q].to = req[q].to
  <2>1. req[q] \in Request
    BY DEF TypeOK
  <2> QED
    BY <1>3, <2>1, OthersKept, ClashedKeeps
<1>4. /\ HeldBy(req'[p], Admitted, erased')
      /\ Reserving(req'[p]) =>
           \A q \in Procs \ {p} :
             Reserving(req[q]) => req'[p].us \intersect req[q].us = {}
  <2>1. CASE Call(p)
    BY <2>1, CallHand
  <2>2. CASE Continue(p) \/ StartMaintenance(p) \/ Abandon(p)
    <3>1. CASE Reserving(req[p]) /\ Reserving(req'[p]) /\ req'[p].us = req[p].us
      <4>1. HeldBy(req'[p], Admitted, erased')
        BY <3>1 DEF InHand, HeldBy, Reserving
      <4> QED
        BY <3>1, <4>1 DEF Apart
    <3> QED
      BY <2>2, <3>1, ContinueHand
  <2> QED
    BY <2>1, <2>2
<1>5. ~Reserving(Idle) /\ HeldBy(Idle, Admitted', erased')
  BY LoosePoints, HeldLoose
<1>6. ASSUME NEW q \in Procs PROVE HeldBy(req'[q], Admitted', erased')
  <2>1. CASE q # p
    <3>1. HeldBy(req[q], Admitted, erased)
      BY DEF InHand
    <3>2. Admit(p) /\ Reserving(req[q]) => req[p].us \intersect req[q].us = {}
      BY <1>2, <2>1 DEF Apart
    <3> QED
      BY <1>2, <1>3, <2>1, <3>1, <3>2 DEF HeldBy, Reserving
  <2>2. CASE q = p /\ Admit(p)
    BY <1>2, <1>5, <2>2
  <2>3. CASE q = p /\ ~Admit(p)
    BY <1>2, <1>4, <2>3
  <2> QED
    BY <2>1, <2>2, <2>3
<1>7. ASSUME NEW q \in Procs, NEW r \in Procs, q # r,
             Reserving(req'[q]), Reserving(req'[r])
      PROVE  req'[q].us \intersect req'[r].us = {}
  <2>1. CASE q # p /\ r # p
    BY <1>3, <1>7, <2>1 DEF Apart, Reserving
  <2>2. CASE q = p
    BY <1>3, <1>4, <1>7, <2>2 DEF Reserving
  <2>3. CASE r = p
    BY <1>3, <1>4, <1>7, <2>3 DEF Reserving
  <2> QED
    BY <2>1, <2>2, <2>3
<1> QED
  BY <1>6, <1>7 DEF InHand, Apart

LEMMA WorldKeeps ==
  ASSUME World
  PROVE  UNCHANGED <<status, attachments, stored, usage, req, erased>>
BY DEF World, TimePasses, ObjectArrives, VideoProcessed, files, rows, services

LEMMA HandInvariant ==
  /\ Init => HandInv
  /\ HandInv /\ [Next]_vars => HandInv'
<1>1. ASSUME Init PROVE HandInv
  <2>1. \A p \in Procs : req[p] = Idle
    BY <1>1 DEF Init
  <2> QED
    <3>1. InHand
      BY <2>1, LoosePoints, HeldLoose DEF InHand
    <3>2. Apart
      BY <2>1 DEF Apart, Reserving, Idle
    <3> QED
      BY <1>1, <3>1, <3>2, TypeInit DEF HandInv
<1>2. ASSUME HandInv, [Next]_vars PROVE HandInv'
  <2>1. TypeOK'
    BY <1>2, TypeStep DEF HandInv
  <2>2. ASSUME UNCHANGED <<status, req, erased>> PROVE InHand' /\ Apart'
    BY <1>2, <2>2 DEF HandInv, InHand, Apart, Admitted
  <2>3. InHand' /\ Apart'
    BY <1>2, <2>2, HandStep, WorldKeeps DEF Next, vars
  <2> QED
    BY <2>1, <2>3 DEF HandInv
<1> QED
  BY <1>1, <1>2

-----------------------------------------------------------------------------
(* Attachments and files.                                                  *)

\* The inductive invariant behind AttachedOnce and FilesMatchAttachments.
AttachInv ==
  /\ HandInv /\ AttachedOnce /\ FilesMatchAttachments
  /\ Published \subseteq Admitted /\ StoredRows \subseteq Admitted

LEMMA PublishEffect ==
  ASSUME TypeOK, NEW p \in Procs,
         NEW u \in Rows, NEW r \in Request, ~Taken(u), Publish(p, u, r)
  PROVE  /\ u \in Uploads \ (Published \union StoredRows)
         /\ attachments' = [attachments EXCEPT ![u] = 1]
         /\ stored' = [stored EXCEPT ![u] = u \notin Stream]
         /\ status' = [status EXCEPT ![u] = "CONFIRMED"]
         /\ Published' = Published \union {u}
         /\ StoredRows' = IF u \in Stream THEN StoredRows ELSE StoredRows \union {u}
<1>1. u \in Uploads /\ attachments[u] = 0 /\ ~stored[u]
  BY DEF Taken, Rows, Admitted, TypeOK
<1>2. attachments' = [attachments EXCEPT ![u] = 1]
  BY <1>1 DEF Publish, TypeOK
<1>3. stored' = [stored EXCEPT ![u] = u \notin Stream]
  BY DEF Publish
<1>4. status' = [status EXCEPT ![u] = "CONFIRMED"]
  BY <1>1 DEF Publish, SetStatus, TypeOK
<1>5. Published' = Published \union {u}
  BY <1>1, <1>2 DEF Published, TypeOK
<1>6. StoredRows' = IF u \in Stream THEN StoredRows ELSE StoredRows \union {u}
  BY <1>1, <1>3 DEF StoredRows, TypeOK
<1> QED
  BY <1>1, <1>2, <1>3, <1>4, <1>5, <1>6 DEF Published, StoredRows

\* The purge takes all the attachments of a service, and then its files one by
\* one, of which none has its attachment any more.
LEMMA ErasedEffect ==
  ASSUME TypeOK, NEW p \in Procs, PurgeAttachments(p)
  PROVE  /\ UNCHANGED <<status, stored, usage>>
         /\ erased' = erased \union req[p].cur
         /\ \A u \in Uploads :
              attachments'[u] = IF u \in req[p].cur THEN 0 ELSE attachments[u]
         /\ Published' = Published \ req[p].cur /\ StoredRows' = StoredRows
<1>1. \A u \in Uploads :
        attachments'[u] = IF u \in req[p].cur THEN 0 ELSE attachments[u]
  BY DEF PurgeAttachments
<1>2. Published' = Published \ req[p].cur
  BY <1>1 DEF Published, TypeOK
<1> QED
  BY <1>1, <1>2 DEF PurgeAttachments, rows, StoredRows

LEMMA DeletedEffect ==
  ASSUME TypeOK, NEW p \in Procs, Deletes(p)
  PROVE  \E u \in erased \ Stream :
           /\ u \in StoredRows /\ StoredRows' = StoredRows \ {u}
           /\ Published' = Published
           /\ usage' = GivenBack(u)
<1>1. PICK u \in erased \ Stream : /\ stored[u]
                                  /\ stored' = [stored EXCEPT ![u] = FALSE]
                                  /\ usage' = GivenBack(u)
  BY DEF Deletes
<1>2. u \in Uploads
  BY DEF TypeOK
<1>3. u \in StoredRows /\ StoredRows' = StoredRows \ {u}
  BY <1>1, <1>2 DEF StoredRows, TypeOK
<1>4. Published' = Published
  BY DEF Deletes, Published
<1> QED
  BY <1>1, <1>3, <1>4

\* What exists changes by a publication and by the purge, not otherwise.
LEMMA OtherEffect ==
  ASSUME NEW p \in Procs, Quiet \/ Admit(p) \/ WriteTotals(p)
  PROVE  /\ UNCHANGED <<attachments, stored, erased>>
         /\ Published' = Published /\ StoredRows' = StoredRows
BY DEF Quiet, Admit, WriteTotals, files, services, Published, StoredRows

LEMMA AttachStep ==
  ASSUME AttachInv, [Next]_vars
  PROVE  /\ AttachedOnce' /\ FilesMatchAttachments'
         /\ (Published \subseteq Admitted)' /\ (StoredRows \subseteq Admitted)'
<1> USE DEF AttachInv, HandInv
<1> DEFINE OK == /\ AttachedOnce' /\ FilesMatchAttachments'
                 /\ (Published \subseteq Admitted)' /\ (StoredRows \subseteq Admitted)'
<1>1. ASSUME UNCHANGED <<attachments, stored, erased>>, Admitted \subseteq Admitted',
             \A u \in Uploads : status'[u] = "CONFIRMED" => status[u] = "CONFIRMED"
      PROVE  OK
  BY <1>1 DEF AttachedOnce, FilesMatchAttachments, Published, StoredRows
<1>2. ASSUME NEW us, NEW s, SetStatus(us, s), s # "CONFIRMED"
      PROVE  \A u \in Uploads : status'[u] = "CONFIRMED" => status[u] = "CONFIRMED"
  BY <1>2 DEF SetStatus
<1>3. ASSUME NEW p \in Procs,
             Call(p) \/ Continue(p) \/ StartMaintenance(p) \/ Abandon(p)
      PROVE  OK
  <2>1. Effect(p) /\ Admitted \subseteq Admitted'
    BY <1>3, Effects, RowsStep
  <2>2. CASE Quiet
    BY <1>1, <1>2, <2>1, <2>2, OtherEffect DEF Quiet, Relabels
  <2>3. CASE Admit(p)
    BY <1>1, <1>2, <2>1, <2>3, OtherEffect DEF Admit
  <2>4. CASE WriteTotals(p)
    BY <1>1, <2>1, <2>4, OtherEffect DEF WriteTotals, rows
  <2>5. CASE Publishes(p)
    <3>1. PICK u \in Rows, r \in Request : ~Taken(u) /\ Publish(p, u, r)
      BY <2>5 DEF Publishes
    <3>2. /\ u \in Uploads \ (Published \union StoredRows)
          /\ attachments' = [attachments EXCEPT ![u] = 1]
          /\ stored' = [stored EXCEPT ![u] = u \notin Stream]
          /\ status' = [status EXCEPT ![u] = "CONFIRMED"]
          /\ Published' = Published \union {u}
          /\ StoredRows' = IF u \in Stream THEN StoredRows ELSE StoredRows \union {u}
      BY <3>1, PublishEffect
    <3>3. AttachedOnce'
      BY <2>5, <3>2 DEF AttachedOnce, Publishes, TypeOK
    <3>4. FilesMatchAttachments'
      BY <2>5, <3>2 DEF FilesMatchAttachments, Publishes, TypeOK
    <3>5. u \in Admitted
      BY DEF Rows
    <3> QED
      BY <2>1, <3>2, <3>3, <3>4, <3>5
  <2>6. CASE PurgeAttachments(p)
    <3>1. /\ UNCHANGED <<status, stored>> /\ erased' = erased \union req[p].cur
          /\ \A u \in Uploads :
               attachments'[u] = IF u \in req[p].cur THEN 0 ELSE attachments[u]
          /\ Published' = Published \ req[p].cur /\ StoredRows' = StoredRows
      BY <2>6, ErasedEffect
    <3>2. AttachedOnce'
      BY <3>1 DEF AttachedOnce
    <3>3. FilesMatchAttachments'
      BY <3>1 DEF FilesMatchAttachments
    <3> QED
      BY <2>1, <3>1, <3>2, <3>3
  <2>7. CASE Deletes(p)
    <3>1. PICK u \in erased : stored' = [stored EXCEPT ![u] = FALSE]
      BY <2>7 DEF Deletes
    <3>2. UNCHANGED <<status, attachments, erased>>
      BY <2>7 DEF Deletes, rows
    <3>3. AttachedOnce'
      BY <3>2 DEF AttachedOnce
    <3>4. FilesMatchAttachments'
      BY <3>1, <3>2 DEF FilesMatchAttachments, TypeOK
    <3>5. Published' = Published /\ StoredRows' \subseteq StoredRows
      BY <2>7, DeletedEffect
    <3> QED
      BY <2>1, <3>3, <3>4, <3>5
  <2> QED
    BY <2>1, <2>2, <2>3, <2>4, <2>5, <2>6, <2>7 DEF Effect
<1>4. CASE World
  BY <1>1, <1>4, WorldKeeps DEF Admitted
<1>5. CASE UNCHANGED vars
  BY <1>1, <1>5 DEF vars, Admitted
<1> QED
  BY <1>3, <1>4, <1>5 DEF Next

LEMMA AttachInvariant == Spec => []AttachInv
<1>1. Init => AttachInv
  <2> SUFFICES ASSUME Init PROVE AttachInv
    OBVIOUS
  <2>1. \A u \in Uploads : status[u] = "NONE" /\ attachments[u] = 0 /\ stored[u] = FALSE
    BY DEF Init, Unread
  <2>2. AttachedOnce /\ Published = {} /\ StoredRows = {}
    BY <2>1 DEF AttachedOnce, Published, StoredRows
  <2>3. ASSUME NEW u \in Uploads
        PROVE  stored[u] = (u \notin Stream /\ attachments[u] > 0)
    <3>1. stored[u] = FALSE /\ ~(attachments[u] > 0)
      BY <2>1
    <3> QED
      BY <3>1, Zenon
  <2> QED
    BY <2>2, <2>3, HandInvariant DEF AttachInv, FilesMatchAttachments
<1>2. AttachInv /\ [Next]_vars => AttachInv'
  BY HandInvariant, AttachStep DEF AttachInv
<1> QED
  BY <1>1, <1>2, PTL DEF Spec

\* No interleaving of confirms, webhooks, polls, retries, late progress calls
\* and purges gives an upload two attachments, or confirms one that has none
\* unless a purge took it.
THEOREM NeverAttachedTwice == Spec => []AttachedOnce
BY AttachInvariant, PTL DEF AttachInv

\* A registered file always has its attachment, and an attachment of the object
\* store its registered file, as long as no purge has reached them.
THEOREM FilesAndAttachmentsAgree == Spec => []FilesMatchAttachments
BY AttachInvariant, PTL DEF AttachInv

-----------------------------------------------------------------------------
(* The ready counters.                                                     *)

LEMMA SumGrows ==
  ASSUME NEW T \in SUBSET Uploads, NEW S \in SUBSET T
  PROVE  Declared[S] <= Declared[T] /\ Actual[S] <= Actual[T]
<1>1. S \in SUBSET Uploads /\ T \ S \in SUBSET Uploads
  OBVIOUS
<1>2. S \intersect (T \ S) = {} /\ S \union (T \ S) = T
  OBVIOUS
<1>3. Declared[T] = Declared[S] + Declared[T \ S] /\ Actual[T] = Actual[S] + Actual[T \ S]
  <2>1. ASSUME NEW m, IsMeasure(m) PROVE m[T] = m[S] + m[T \ S]
    <3>1. m[S \union (T \ S)] = m[S] + m[T \ S]
      BY <1>1, <1>2, <2>1 DEF IsMeasure
    <3> QED
      BY <1>2, <3>1
  <2> QED
    BY <2>1, SizesAssumption
<1> QED
  BY <1>1, <1>3, SumType

LEMMA SumOneMore ==
  ASSUME NEW S \in SUBSET Uploads, NEW u \in Uploads \ S
  PROVE  /\ Declared[S \union {u}] = Declared[S] + Declared[{u}]
         /\ Actual[S \union {u}] = Actual[S] + Actual[{u}]
<1>1. ASSUME NEW m, IsMeasure(m) PROVE m[S \union {u}] = m[S] + m[{u}]
  <2>1. {u} \in SUBSET Uploads /\ S \intersect {u} = {}
    OBVIOUS
  <2> QED
    BY <1>1, <2>1 DEF IsMeasure
<1> QED
  BY <1>1, SizesAssumption

LEMMA CountGrows ==
  ASSUME NEW T \in SUBSET Uploads, NEW S \in SUBSET T
  PROVE  Cardinality(S) <= Cardinality(T)
BY UploadsAssumption, FS_Subset

LEMMA CountOneMore ==
  ASSUME NEW S \in SUBSET Uploads, NEW u \in Uploads \ S
  PROVE  Cardinality(S \union {u}) = Cardinality(S) + 1
BY UploadsAssumption, FS_Subset, FS_AddElement

\* The points at which a reconciliation has summed the files.
Summed == {"recount_active", "recount"}

\* The sums of a reconciliation under way are behind what exists, unless it has
\* been told that a file it summed is deleted, which only a purge does.
TotalsBehind ==
  \A p \in Procs :
    /\ req[p].pc \notin Summed => req[p].totals.ready = 0 /\ req[p].totals.files = 0
    /\ req[p].pc \in Summed /\ ~req[p].clash =>
         /\ req[p].totals.ready <= Actual[StoredRows]
         /\ req[p].totals.files <= Cardinality(StoredRows)
    /\ req[p].totals.files <= Cardinality(Admitted)
    /\ erased = {} => ~(req[p].pc \in Summed /\ req[p].clash)

\* What becomes of the sums a request has computed.
NoSums(q) ==
  /\ req'[q].pc \notin Summed
  /\ req'[q].totals.ready = 0 /\ req'[q].totals.files = 0

NewSums(q) ==
  /\ req'[q].totals.ready = Actual[StoredRows]
  /\ req'[q].totals.files = Cardinality(StoredRows)
  /\ ~req'[q].clash
  /\ req'[q].pc \in Summed
  /\ UNCHANGED stored

OldSums(q) ==
  /\ req'[q].totals.ready = req[q].totals.ready
  /\ req'[q].totals.files = req[q].totals.files
  /\ req'[q].clash = req[q].clash
  /\ req[q].pc \in Summed
  /\ req'[q].pc \in Summed
  /\ UNCHANGED stored

TotalsFrom(q) == NoSums(q) \/ NewSums(q) \/ OldSums(q)

LEMMA TotalsStep ==
  ASSUME TypeOK, TotalsBehind, NEW p \in Procs,
         Call(p) \/ Continue(p) \/ StartMaintenance(p) \/ Abandon(p)
  PROVE  TotalsFrom(p)
<1> USE DEF TypeOK
<1>1. ASSUME req'[p].totals = req[p].totals, req[p].pc \notin Summed,
             req'[p].pc \notin Summed
      PROVE  TotalsFrom(p)
  BY <1>1 DEF TotalsFrom, NoSums, TotalsBehind
<1>2. ASSUME req'[p].totals = NoUsage, req'[p].pc \notin Summed PROVE TotalsFrom(p)
  BY <1>2 DEF TotalsFrom, NoSums, NoUsage
<1>3. Idle.totals = NoUsage /\ Idle.pc = "idle" /\ "idle" \notin Summed
  BY DEF Idle, Summed
<1>4. ASSUME Done(p) PROVE TotalsFrom(p)
  BY <1>2, <1>3, <1>4 DEF Done
<1>5. ASSUME NEW point, Goto(p, point), point \notin Summed, req[p].pc \notin Summed
      PROVE  TotalsFrom(p)
  <2>1. req'[p].totals = req[p].totals /\ req'[p].pc = point
    BY <1>5 DEF Goto, Request
  <2> QED
    BY <1>1, <1>5, <2>1
<1>6. ASSUME NEW r,
             \/ r = Idle \/ r = AfterMark(p)
             \/ r.totals = req[p].totals /\ r.pc \notin Summed /\ req[p].pc \notin Summed,
             req'[p] = r
      PROVE  TotalsFrom(p)
  <2>1. AfterMark(p).totals = NoUsage /\ AfterMark(p).pc \notin Summed
    BY DEF AfterMark, Idle, Summed
  <2> QED
    BY <1>1, <1>2, <1>3, <1>6, <2>1
<1>7. ASSUME NEW r, \/ \E n : WriteUsage(p, r, n)
                    \/ ReleaseWhatWasActive(p, r)
      PROVE  req'[p] = r
  BY <1>7 DEF WriteUsage, ReleaseWhatWasActive
<1>8. ASSUME ReadActive(p) \/ ReadFiles(p) PROVE TotalsFrom(p)
  <2>1. CASE ReadActive(p)
    <3>1. /\ req'[p].totals.ready = req[p].totals.ready
          /\ req'[p].totals.files = req[p].totals.files
          /\ req'[p].clash = req[p].clash
          /\ UNCHANGED stored
      BY <2>1 DEF ReadActive, files, Request, Usage
    <3>2. CASE At(p, "recount_active")
      <4>1. req'[p].pc = "recount"
        BY <2>1, <3>2 DEF ReadActive, Request
      <4> QED
        BY <3>1, <3>2, <4>1 DEF TotalsFrom, OldSums, Summed, At
    <3>3. CASE ~At(p, "recount_active")
      <4>1. req'[p].pc = "recount_files" /\ req[p].pc \notin Summed
        BY <2>1, <3>3 DEF ReadActive, Reconciling, Calling, At, Request, Summed
      <4> QED
        BY <3>1, <4>1 DEF TotalsFrom, NoSums, TotalsBehind, Summed
    <3> QED
      BY <3>2, <3>3
  <2>2. CASE ReadFiles(p)
    BY <2>2 DEF ReadFiles, TotalsFrom, NewSums, Request, Usage, Summed, files
  <2> QED
    BY <1>8, <2>1, <2>2
<1>9. CASE Call(p)
  <2>1. ASSUME NEW u \in Uploads, CreateIntent(p, u) PROVE TotalsFrom(p)
    <3>1. PICK ids : Intending(p, {u}, ids)
      BY <2>1 DEF CreateIntent
    <3>2. req'[p].totals = NoUsage /\ req'[p].pc \notin Summed
      BY <3>1 DEF Intending, Idle, Summed
    <3> QED
      BY <1>2, <3>2
  <2>2. ASSUME NEW us \in SUBSET Uploads, CreateWithManifest(p, us) PROVE TotalsFrom(p)
    <3>1. req'[p].totals = NoUsage /\ req'[p].pc \notin Summed
      BY <2>2 DEF CreateWithManifest, Intending, Idle, Summed
    <3> QED
      BY <1>2, <3>1
  <2>3. ASSUME NEW u \in Uploads,
               \/ MarkStarted(p, u) \/ Confirm(p, u) \/ Cancel(p, u)
               \/ Retry(p, u) \/ StreamWebhook(p, u)
        PROVE  TotalsFrom(p)
    <3>1. PICK point \in Points \ Summed, kept \in SUBSET Uploads :
            req' = [req EXCEPT ![p] = Reading(u, point, kept)]
      <4>1. {"start", "expire", "stream_poll", "verify", "cancel_object", "retry_object",
             "mark_ready", "mark_failed"} \subseteq Points \ Summed
        BY DEF Points, ClientPoints, MarkPoints, Summed
      <4> QED
        BY <2>3, <4>1 DEF MarkStarted, Confirm, Cancel, Retry, StreamWebhook, Begin
    <3>2. req'[p].totals = NoUsage /\ req'[p].pc \notin Summed
      BY <3>1 DEF Reading, Idle
    <3> QED
      BY <1>2, <3>2
  <2>4. ASSUME NEW u \in Uploads, NEW to \in ProgressStatus, UpdateProgress(p, u, to)
        PROVE  TotalsFrom(p)
    <3>1. req'[p].totals = NoUsage /\ req'[p].pc \notin Summed
      BY <2>4 DEF UpdateProgress, Reading, Idle, Summed
    <3> QED
      BY <1>2, <3>1
  <2>5. ASSUME NEW S \in Services, FinalizeWithFailures(p, S) \/ PermanentDelete(p, S)
        PROVE  TotalsFrom(p)
    <3>1. req'[p].totals = NoUsage /\ req'[p].pc \notin Summed
      BY <2>5 DEF FinalizeWithFailures, PermanentDelete, Idle, Summed
    <3> QED
      BY <1>2, <3>1
  <2>6. ASSUME NEW S \in Services, RemoveService(p, S) \/ RestoreService(p, S)
        PROVE  TotalsFrom(p)
    <3>1. req' = req /\ req[p].pc \notin Summed
      BY <2>6 DEF RemoveService, RestoreService, Calling, At, Summed
    <3> QED
      BY <1>1, <3>1
  <2> QED
    BY <1>8, <1>9, <2>1, <2>2, <2>3, <2>4, <2>5, <2>6 DEF Call, UploadCall
<1>10. CASE \/ AbortAdmission(p) \/ WriteStarted(p) \/ WriteProgress(p)
            \/ WriteRetried(p) \/ PurgeService(p) \/ Abandon(p)
  BY <1>4, <1>10 DEF AbortAdmission, WriteStarted, WriteProgress, WriteRetried,
     PurgeService, Abandon
<1>11. CASE \/ Admit(p) \/ WriteProgressFailed(p) \/ ExpireOnConfirm(p) \/ WriteTotals(p)
            \/ WriteCancelled(p) \/ WriteFinalized(p)
  BY <1>6, <1>7, <1>11 DEF Admit, WriteProgressFailed, ExpireOnConfirm, WriteTotals,
     WriteCancelled, WriteFinalized
<1>12. CASE \/ PollOnConfirm(p) \/ Verify(p) \/ RejectObject(p) \/ CancelObject(p)
            \/ CleanupObject(p) \/ PurgeAttachments(p) \/ PurgeRows(p)
  BY <1>4, <1>5, <1>12 DEF PollOnConfirm, Verify, RejectObject, CancelObject,
     CleanupObject, PurgeAttachments, PurgeRows, At, Summed
<1>13. CASE Reject(p)
  BY <1>4, <1>6, <1>7, <1>13 DEF Reject
<1>14. CASE Register(p)
  BY <1>4, <1>6, <1>7, <1>14 DEF Register, Publish
<1>15. CASE RetryObject(p)
  <2>1. ASSUME NEW u, NEW g, req' = [req EXCEPT ![p].pc = "retry", ![p].uids[u] = g]
        PROVE  TotalsFrom(p)
    <3>1. req'[p].totals = req[p].totals /\ req'[p].pc = "retry"
      BY <2>1 DEF Request
    <3> QED
      BY <1>1, <1>15, <3>1 DEF RetryObject, At, Summed
  <2>2. \/ Goto(p, "retry") \/ Done(p)
        \/ \E u, g : req' = [req EXCEPT ![p].pc = "retry", ![p].uids[u] = g]
    BY <1>15 DEF RetryObject
  <2> QED
    BY <1>4, <1>5, <1>15, <2>1, <2>2 DEF RetryObject, At, Summed
<1>16. CASE CheckQuota(p)
  <2>1. ASSUME req' = [req EXCEPT ![p].pc = "admit", ![p].seen = status]
        PROVE  TotalsFrom(p)
    <3>1. req'[p].totals = req[p].totals /\ req'[p].pc = "admit"
      BY <2>1 DEF Request
    <3> QED
      BY <1>1, <1>16, <3>1 DEF CheckQuota, At, Summed
  <2> QED
    BY <1>4, <1>16, <2>1 DEF CheckQuota
<1>17. CASE ReadMarked(p)
  <2>1. CASE req' = [req EXCEPT ![p] = AfterMark(p)]
    BY <1>6, <2>1
  <2>2. ASSUME NEW point \in {"ready", "failed"}, NEW seen,
               req' = [req EXCEPT ![p].pc = point, ![p].seen = seen]
        PROVE  TotalsFrom(p)
    <3>1. req'[p].totals = req[p].totals /\ req'[p].pc = point
      BY <2>2 DEF Request
    <3> QED
      BY <1>1, <1>17, <2>2, <3>1 DEF ReadMarked, At, Summed
  <2> QED
    BY <1>17, <2>1, <2>2 DEF ReadMarked
<1>18. CASE MarkStreamReady(p) \/ MissingRow(p)
  <2>1. req'[p] = AfterMark(p)
    BY <1>7, <1>18 DEF MarkStreamReady, MissingRow, Publish
  <2> QED
    BY <1>6, <2>1
<1>19. CASE MarkStreamFailed(p)
  BY <1>6, <1>7, <1>19 DEF MarkStreamFailed
<1>20. CASE StartMaintenance(p) \/ EndSync(p)
  <2>1. StartMaintenance(p) => req'[p].totals = NoUsage /\ req'[p].pc = "cleanup"
    BY DEF StartMaintenance, Idle
  <2>2. EndSync(p) => req'[p].totals = NoUsage /\ req'[p].pc = "reconcile"
    BY DEF EndSync, Idle
  <2> QED
    BY <1>2, <1>20, <2>1, <2>2 DEF Summed
<1>21. CASE CleanupRelease(p)
  <2>1. req'[p] = [req[p] EXCEPT !.pc = "cleanup", !.cur = {}]
    BY <1>21 DEF CleanupRelease, WriteUsage
  <2>2. req'[p].totals = req[p].totals /\ req'[p].pc = "cleanup"
    BY <2>1 DEF Request
  <2> QED
    BY <1>1, <1>21, <2>2 DEF CleanupRelease, At, Summed
<1>22. CASE SelectStreams(p)
  <2>1. req'[p].totals = req[p].totals /\ req'[p].pc = "sync"
    BY <1>22 DEF SelectStreams, Request
  <2> QED
    BY <1>1, <1>22, <2>1 DEF SelectStreams, At, Summed
<1>23. ASSUME NEW u \in Uploads, ExpireStale(p, u) \/ PollStream(p, u)
       PROVE  TotalsFrom(p)
  <2>1. ExpireStale(p, u) => /\ req'[p].totals = req[p].totals
                             /\ req'[p].pc \in {"cleanup_object", req[p].pc}
    BY DEF ExpireStale, Request
  <2>2. PollStream(p, u) => /\ req'[p].totals = req[p].totals
                            /\ req'[p].pc \in {"mark_ready", "mark_failed", req[p].pc}
    BY DEF PollStream, Request
  <2> QED
    BY <1>1, <1>23, <2>1, <2>2 DEF ExpireStale, PollStream, At, Summed
<1>24. CASE ReadPurged(p)
  <2> DEFINE us == req[p].cur \intersect Rows
             point == IF us = {} THEN "purge_service" ELSE "purge_uploads"
             r == [req[p] EXCEPT !.pc = point, !.us = us, !.seen = SeenOf(us),
                                 !.uids = UidsOf(us)]
  <2>0. req'[p] = r
    BY <1>24 DEF ReadPurged, TypeOK, Request
  <2>1. r.pc = point /\ r.totals = req[p].totals
    <3> HIDE DEF us, point
    <3> QED
      BY req[p] \in Request DEF Request
  <2>2. /\ req'[p].totals = req[p].totals
        /\ req'[p].pc \in {"purge_service", "purge_uploads"}
    BY <2>0, <2>1
  <2> QED
    BY <1>1, <1>24, <2>2 DEF ReadPurged, At, Summed
<1>25. ASSUME NEW u \in Uploads, PurgeFile(p, u) \/ PurgeUpload(p, u)
       PROVE  TotalsFrom(p)
  <2>1. req'[p] = [req[p] EXCEPT !.us = @ \ {u}]
    BY <1>7, <1>25 DEF PurgeFile, PurgeUpload
  <2>2. req'[p].totals = req[p].totals /\ req'[p].pc = req[p].pc
    BY <2>1 DEF Request
  <2> QED
    BY <1>1, <1>25, <2>2 DEF PurgeFile, PurgeUpload, At, Summed
<1> QED
  BY <1>8, <1>9, <1>10, <1>11, <1>12, <1>13, <1>14, <1>15, <1>16, <1>17, <1>18, <1>19,
     <1>20, <1>21, <1>22, <1>23, <1>24, <1>25 DEF Continue

LEMMA TotalsBehindStep ==
  ASSUME AttachInv, TotalsBehind, NEW p \in Procs,
         Call(p) \/ Continue(p) \/ StartMaintenance(p) \/ Abandon(p)
  PROVE  TotalsBehind'
<1> USE DEF AttachInv, HandInv
<1>1. /\ Effect(p) /\ TotalsFrom(p)
      /\ Admitted \in SUBSET Admitted' /\ Admitted' \in SUBSET Uploads
      /\ StoredRows \in SUBSET Admitted /\ StoredRows' \in SUBSET Uploads
  BY Effects, TotalsStep, RowsStep DEF Admitted, StoredRows
<1>2. /\ Cardinality(StoredRows) \in Nat /\ Cardinality(StoredRows') \in Nat
      /\ Cardinality(Admitted) \in Nat /\ Cardinality(Admitted') \in Nat
      /\ Cardinality(StoredRows) <= Cardinality(Admitted)
      /\ Cardinality(Admitted) <= Cardinality(Admitted')
      /\ Actual[StoredRows] \in Nat /\ Actual[StoredRows'] \in Nat
  BY <1>1, CountType, CountGrows, SumType
<1>3. erased' = {} => erased = {} /\ ~Deletes(p)
  BY <1>1 DEF Effect, Quiet, Admit, WriteTotals, Publishes, PurgeAttachments, Deletes,
     services
<1>4. ~Deletes(p) => StoredRows \subseteq StoredRows'
  BY <1>1, OtherEffect, ErasedEffect, PublishEffect DEF Effect, Publishes
<1>5. ~Deletes(p) => /\ Actual[StoredRows] <= Actual[StoredRows']
                    /\ Cardinality(StoredRows) <= Cardinality(StoredRows')
  BY <1>1, <1>4, SumGrows, CountGrows
<1>6. ASSUME UNCHANGED stored
      PROVE  StoredRows' = StoredRows
  BY <1>6 DEF StoredRows
<1> DEFINE Behind(q) ==
      /\ req'[q].pc \notin Summed => req'[q].totals.ready = 0 /\ req'[q].totals.files = 0
      /\ req'[q].pc \in Summed /\ ~req'[q].clash =>
           /\ req'[q].totals.ready <= Actual[StoredRows']
           /\ req'[q].totals.files <= Cardinality(StoredRows')
      /\ req'[q].totals.files <= Cardinality(Admitted')
      /\ erased' = {} => ~(req'[q].pc \in Summed /\ req'[q].clash)
<1>7. ASSUME NEW q \in Procs, q # p PROVE Behind(q)
  <2>1. req[q] \in Request
    BY DEF TypeOK
  <2>2. /\ req[q].totals.ready \in Nat /\ req[q].totals.files \in Nat
        /\ req[q].clash \in BOOLEAN
    BY <2>1 DEF Request, Usage
  <2>3. /\ req'[q] \in {req[q], Clashed(req[q]), Outdated(Clashed(req[q]))}
        /\ erased = {} => req'[q] \in {req[q], Clashed(req[q])}
        /\ req'[q].pc = req[q].pc /\ req'[q].totals = req[q].totals
    BY <1>7, <2>1, OthersKept, ClashedKeeps
  <2>4. CASE req[q].pc \notin Summed
    BY <1>2, <2>2, <2>3, <2>4 DEF TotalsBehind
  <2>5. CASE req[q].pc \in Summed
    <3>1. Clashed(req[q]) = req[q] /\ Outdated(req[q]).clash
      BY <2>1, <2>5 DEF Clashed, Outdated, Summed, Request
    <3>2. Deletes(p) => req'[q].clash
      BY <1>7, <3>1 DEF Deletes
    <3>3. ~req'[q].clash => ~req[q].clash /\ ~Deletes(p)
      BY <2>3, <3>1, <3>2
    <3>4. erased' = {} => ~req'[q].clash
      BY <1>3, <2>3, <2>5, <3>1 DEF TotalsBehind
    <3>5. req[q].totals.files <= Cardinality(Admitted')
      BY <1>2, <2>2 DEF TotalsBehind
    <3>6. ASSUME ~req'[q].clash
          PROVE  /\ req[q].totals.ready <= Actual[StoredRows']
                 /\ req[q].totals.files <= Cardinality(StoredRows')
      BY <1>2, <1>5, <2>2, <2>5, <3>3, <3>6 DEF TotalsBehind
    <3> QED
      BY <2>3, <2>5, <3>4, <3>5, <3>6
  <2> QED
    BY <2>4, <2>5
<1>8. Behind(p)
  <2>1. CASE NoSums(p)
    BY <1>2, <2>1 DEF NoSums
  <2>2. CASE NewSums(p)
    BY <1>2, <1>6, <2>2 DEF NewSums
  <2>3. CASE OldSums(p)
    <3>1. StoredRows' = StoredRows
      BY <1>6, <2>3 DEF OldSums
    <3>2. req[p].totals.files \in Nat /\ req[p].totals.files <= Cardinality(Admitted')
      BY <1>2 DEF TotalsBehind, TypeOK, Request, Usage
    <3>3. erased' = {} => ~req'[p].clash
      BY <1>3, <2>3 DEF OldSums, TotalsBehind
    <3> QED
      BY <2>3, <3>1, <3>2, <3>3 DEF OldSums, TotalsBehind
  <2> QED
    BY <1>1, <2>1, <2>2, <2>3 DEF TotalsFrom
<1>9. ASSUME NEW q \in Procs PROVE Behind(q)
  BY <1>7, <1>8
<1> QED
  BY <1>9 DEF TotalsBehind

CountInv == AttachInv /\ TotalsBehind

LEMMA CountInvariant == Spec => []CountInv
<1>1. ASSUME Init PROVE TotalsBehind
  <2>1. /\ \A p \in Procs : /\ req[p].pc = "idle"
                            /\ req[p].totals.ready = 0 /\ req[p].totals.files = 0
    BY <1>1 DEF Init, Idle, NoUsage
  <2>2. Cardinality(Admitted) \in Nat
    BY CountType DEF Admitted
  <2> QED
    BY <2>1, <2>2 DEF TotalsBehind, Summed
<1>2. ASSUME CountInv, [Next]_vars PROVE TotalsBehind'
  <2>1. ASSUME UNCHANGED <<status, stored, req, erased>> PROVE TotalsBehind'
    BY <1>2, <2>1 DEF CountInv, TotalsBehind, StoredRows, Admitted
  <2> QED
    BY <1>2, <2>1, TotalsBehindStep, WorldKeeps DEF CountInv, Next, vars
<1>3. Init => TotalsBehind
  BY <1>1
<1>4. CountInv /\ [Next]_vars => TotalsBehind'
  BY <1>2
<1> QED
  BY <1>3, <1>4, AttachInvariant, PTL DEF Spec, CountInv

\* The step by which a request could make the counters run ahead.
LEMMA CoveredStep ==
  ASSUME CountInv, TypeOK', Covered, NEW p \in Procs, Effect(p)
  PROVE  \/ Covered' \/ RecountWritten(p)
         \/ ~(Published \intersect Stream \subseteq Published')
<1> USE DEF CountInv, AttachInv, HandInv
<1> DEFINE videos == Published \intersect Stream
           counted == StoredRows \union videos
<1>1. /\ StoredRows \in SUBSET Uploads /\ videos \in SUBSET Uploads
      /\ counted \in SUBSET Uploads
  BY DEF StoredRows, Published
<1>2. /\ Actual[StoredRows] \in Nat /\ Declared[videos] \in Nat
      /\ Cardinality(counted) \in Nat /\ usage.ready \in Nat /\ usage.files \in Nat
      /\ usage'.ready \in Nat /\ usage'.files \in Nat
  BY <1>1, SumType, CountType DEF TypeOK, Usage
<1>3. /\ usage.ready <= Actual[StoredRows] + Declared[videos]
      /\ usage.files <= Cardinality(counted)
  BY DEF Covered
<1>4. CASE Quiet
  <2>1. StoredRows' = StoredRows /\ Published' = Published
    BY <1>4, OtherEffect
  <2> QED
    BY <1>2, <1>3, <1>4, <2>1 DEF Quiet, Covered
<1>5. CASE Admit(p)
  <2>1. StoredRows' = StoredRows /\ Published' = Published
    BY <1>5, OtherEffect
  <2>2. usage'.ready = usage.ready /\ usage'.files = usage.files
    BY <1>5 DEF Admit, WriteUsage, Reserved, TypeOK, Usage
  <2> QED
    BY <1>3, <2>1, <2>2 DEF Covered
<1>6. CASE WriteTotals(p)
  BY <1>6 DEF WriteTotals, WriteUsage, RecountWritten
<1>7. CASE PurgeAttachments(p) /\ videos \subseteq Published'
  <2>1. StoredRows' = StoredRows /\ Published' \subseteq Published /\ usage' = usage
    BY <1>7, ErasedEffect
  <2>2. (Published \intersect Stream)' = videos
    BY <1>7, <2>1
  <2> QED
    BY <1>3, <2>1, <2>2 DEF Covered
<1>8. CASE Deletes(p)
  <2>1. PICK u \in erased \ Stream : /\ u \in StoredRows /\ StoredRows' = StoredRows \ {u}
                                    /\ Published' = Published /\ usage' = GivenBack(u)
    BY <1>8, DeletedEffect
  <2> DEFINE left == StoredRows \ {u}
             still == left \union videos
  <2>2. /\ left \in SUBSET Uploads /\ u \in Uploads \ left /\ left \union {u} = StoredRows
        /\ still \in SUBSET Uploads /\ u \in Uploads \ still /\ still \union {u} = counted
    BY <1>1, <2>1
  <2>3. Actual[StoredRows] = Actual[left] + Actual[{u}]
    BY <2>2, SumOneMore
  <2>4. Cardinality(counted) = Cardinality(still) + 1
    BY <2>2, CountOneMore
  <2>5. /\ Actual[left] \in Nat /\ Actual[{u}] \in Nat /\ Cardinality(still) \in Nat
    BY <2>2, SumType, CountType
  <2>6. usage'.ready = Floor(usage.ready - Actual[{u}]) /\ usage'.files = Floor(usage.files - 1)
    BY <2>1 DEF GivenBack, SizeOf, TypeOK, Usage
  <2>7. usage'.ready <= Actual[left] + Declared[videos]
    BY <1>2, <1>3, <2>3, <2>5, <2>6 DEF Floor
  <2>8. usage'.files <= Cardinality(still)
    BY <1>2, <1>3, <2>4, <2>5, <2>6 DEF Floor
  <2> QED
    BY <2>1, <2>7, <2>8 DEF Covered
<1>9. CASE Publishes(p)
  <2>1. PICK u \in Rows, r \in Request : ~Taken(u) /\ Publish(p, u, r)
    BY <1>9 DEF Publishes
  <2>2. /\ u \in Uploads \ (Published \union StoredRows)
        /\ Published' = Published \union {u}
        /\ StoredRows' = IF u \in Stream THEN StoredRows ELSE StoredRows \union {u}
    BY <2>1, PublishEffect
  <2>3. usage' = MovedToReady(u, SizeOf(u))
    BY <2>1 DEF Publish, WriteUsage
  <2>4. (StoredRows \union (Published \intersect Stream))' = counted \union {u}
    BY <2>2
  <2>5. u \in Uploads \ counted
    BY <2>2
  <2>6. usage'.files <= Cardinality(counted \union {u})
    <3>1. Cardinality(counted \union {u}) = Cardinality(counted) + 1
      BY <1>1, <2>5, CountOneMore
    <3>2. usage'.files = usage.files + 1
      BY <2>3 DEF MovedToReady
    <3> QED
      BY <1>2, <1>3, <3>1, <3>2
  <2>7. CASE u \in Stream
    <3>1. /\ (Published \intersect Stream)' = videos \union {u}
          /\ u \in Uploads \ videos
      BY <2>2, <2>7
    <3>2. Declared[videos \union {u}] = Declared[videos] + Declared[{u}]
      BY <1>1, <3>1, SumOneMore
    <3>3. usage'.ready = usage.ready + Declared[{u}] /\ Declared[{u}] \in Nat
      BY <2>2, <2>3, <2>7, SumType DEF MovedToReady, SizeOf
    <3>4. usage'.ready <= Actual[StoredRows] + Declared[videos \union {u}]
      BY <1>2, <1>3, <3>2, <3>3
    <3>5. StoredRows' = StoredRows
      BY <2>2, <2>7
    <3> QED
      BY <2>4, <2>6, <3>1, <3>4, <3>5, Zenon DEF Covered
  <2>8. CASE u \notin Stream
    <3>1. u \in Uploads \ StoredRows /\ StoredRows' = StoredRows \union {u}
      BY <2>2, <2>8
    <3>2. Actual[StoredRows'] = Actual[StoredRows] + Actual[{u}]
      BY <1>1, <3>1, SumOneMore
    <3>3. usage'.ready = usage.ready + Actual[{u}] /\ Actual[{u}] \in Nat
      BY <2>2, <2>3, <2>8, SumType DEF MovedToReady, SizeOf
    <3>4. Published' \intersect Stream = videos
      BY <2>2, <2>8
    <3>5. usage'.ready <= Actual[StoredRows'] + Declared[videos]
      BY <1>2, <1>3, <3>2, <3>3
    <3> QED
      BY <2>4, <2>6, <3>4, <3>5, Zenon DEF Covered
  <2> QED
    BY <2>7, <2>8
<1> QED
  BY <1>4, <1>5, <1>6, <1>7, <1>8, <1>9 DEF Effect

\* A reconciliation that no deletion has overtaken leaves the counters right.
LEMMA RecountStep ==
  ASSUME CountInv, NEW p \in Procs, Effect(p), RecountWritten(p), ~req[p].clash
  PROVE  Covered'
<1> USE DEF CountInv, AttachInv, HandInv
<1>1. ~Deletes(p)
  BY DEF RecountWritten, Deletes, At
<1>2. StoredRows \in SUBSET StoredRows'
  BY <1>1, OtherEffect, ErasedEffect, PublishEffect DEF Effect, Publishes
<1> DEFINE videos == Published' \intersect Stream
           counted == StoredRows' \union videos
<1>3. /\ StoredRows' \in SUBSET counted /\ StoredRows' \in SUBSET Uploads
      /\ StoredRows \in SUBSET counted /\ StoredRows \in SUBSET Uploads
      /\ videos \in SUBSET Uploads /\ counted \in SUBSET Uploads
  BY <1>2 DEF StoredRows, Published
<1>4. /\ Actual[StoredRows] <= Actual[StoredRows']
      /\ Cardinality(StoredRows) <= Cardinality(counted)
  BY <1>2, <1>3, SumGrows, CountGrows
<1>5. /\ Actual[StoredRows] \in Nat /\ Actual[StoredRows'] \in Nat
      /\ Declared[videos] \in Nat /\ Cardinality(StoredRows) \in Nat
      /\ Cardinality(counted) \in Nat
  BY <1>3, SumType, CountType
<1>6. /\ usage'.ready \in Nat /\ usage'.files \in Nat
      /\ usage'.ready <= Actual[StoredRows] /\ usage'.files <= Cardinality(StoredRows)
  BY DEF RecountWritten, TotalsBehind, At, Summed, TypeOK, Request, Usage
<1>7. usage'.ready <= Actual[StoredRows'] + Declared[videos]
  BY <1>4, <1>5, <1>6
<1>8. usage'.files <= Cardinality(counted)
  BY <1>4, <1>5, <1>6
<1> QED
  BY <1>7, <1>8 DEF Covered

LEMMA ReadyStep == CountInv /\ TypeOK' /\ [Next]_vars =>
  \/ ~Covered /\ ~\E p \in Procs : RecountWritten(p) /\ ~req[p].clash
  \/ Covered'
  \/ \E p \in Procs : RecountWritten(p) /\ req[p].clash
  \/ ~(Published \intersect Stream \subseteq Published')
<1> DEFINE Goal ==
      \/ ~Covered /\ ~\E p \in Procs : RecountWritten(p) /\ ~req[p].clash
      \/ Covered'
      \/ \E p \in Procs : RecountWritten(p) /\ req[p].clash
      \/ ~(Published \intersect Stream \subseteq Published')
<1> SUFFICES ASSUME CountInv, TypeOK', [Next]_vars PROVE Goal
  OBVIOUS
<1> USE DEF CountInv, AttachInv, HandInv
<1>1. ASSUME NEW q \in Procs, req'[q].pc = req[q].pc PROVE ~RecountWritten(q)
  BY <1>1 DEF RecountWritten, At, Idle
<1>2. ASSUME UNCHANGED <<attachments, stored, usage, req>> PROVE Goal
  <2>1. Covered' = Covered
    BY <1>2 DEF Covered, StoredRows, Published
  <2>2. \A q \in Procs : ~RecountWritten(q)
    BY <1>1, <1>2
  <2> QED
    BY <2>1, <2>2
<1>3. ASSUME NEW p \in Procs,
             Call(p) \/ Continue(p) \/ StartMaintenance(p) \/ Abandon(p)
      PROVE  Goal
  <2>1. Effect(p)
    BY <1>3, Effects
  <2>2. ASSUME NEW q \in Procs, q # p PROVE ~RecountWritten(q)
    <3>1. req[q] \in Request
      BY DEF TypeOK
    <3>2. req'[q].pc = req[q].pc
      BY <1>3, <2>2, <3>1, OthersKept, ClashedKeeps
    <3> QED
      BY <1>1, <3>2
  <2>3. CASE RecountWritten(p)
    BY <2>1, <2>3, RecountStep
  <2>4. CASE ~RecountWritten(p)
    BY <2>1, <2>2, <2>4, CoveredStep
  <2> QED
    BY <2>3, <2>4
<1> QED
  BY <1>2, <1>3, WorldKeeps DEF Next, vars

\* The ready counters of an organisation come to run ahead of its files and
\* videos only by a purge that overlaps a reconciliation, or by one that has
\* given back the bytes of its streamed videos not yet; whatever confirms,
\* releases or dies besides, and a reconciliation that no deletion overtakes
\* puts them right.
THEOREM ReadyCountersNeverOverstated == Spec => ReadyNeverOverstated
BY CountInvariant, ReadyStep, TypeCorrect, PTL DEF Spec, ReadyNeverOverstated

-----------------------------------------------------------------------------
(* Uploads implements AttachmentRegister.                                  *)

LEMMA RegisterInit == Init => AsRegister!Init
<1> SUFFICES ASSUME Init PROVE AsRegister!Init
  OBVIOUS
<1>1. Admitted = {} /\ Published = {} /\ erased = {} /\ usage.files = 0
  BY DEF Init, Unread, Admitted, Published, NoUsage
<1> QED
  BY <1>1 DEF AsRegister!Init

\* The Cardinality that AttachmentRegister takes from FiniteSets is the same.
LEMMA SameCardinality ==
  ASSUME NEW S
  PROVE  AsRegister!Cardinality(S) = Cardinality(S)
BY DEF AsRegister!Cardinality, Cardinality

LEMMA RegisterStep == CountInv /\ TypeOK' /\ [Next]_vars => [AsRegister!Next]_AsRegister!vars
<1> SUFFICES ASSUME CountInv, TypeOK', [Next]_vars
             PROVE  [AsRegister!Next]_AsRegister!vars
  OBVIOUS
<1> USE DEF CountInv, AttachInv, HandInv
<1>1. /\ usage.files \in Nat /\ usage'.files \in Nat
  BY DEF TypeOK, Usage
<1>2. ASSUME Admitted' = Admitted, Published' = Published, erased' = erased,
             usage'.files <= usage.files
      PROVE  AsRegister!Next
  <2>1. usage'.files \in 0 .. usage.files
    BY <1>1, <1>2
  <2>2. AsRegister!Recount
    BY <1>2, <2>1 DEF AsRegister!Recount
  <2> QED
    BY <2>2 DEF AsRegister!Next
<1>3. ASSUME NEW p \in Procs,
             Call(p) \/ Continue(p) \/ StartMaintenance(p) \/ Abandon(p)
      PROVE  AsRegister!Next
  <2>1. /\ Effect(p)
        /\ ~Admit(p) => Admitted' = Admitted
        /\ Admit(p) => Admitted' = Admitted \union req[p].us
    BY <1>3, Effects, RowsStep
  <2>2. CASE Admit(p)
    <3>1. req[p].us # {} /\ req[p].us \subseteq Uploads \ Admitted
      BY <2>2 DEF Admit, InHand, HeldBy, Reserving, At, TypeOK, Request
    <3>2. usage'.files = usage.files
      BY <2>2 DEF Admit, WriteUsage, Reserved, TypeOK, Usage
    <3>3. Published' = Published /\ erased' = erased
      BY <2>2, OtherEffect
    <3>4. AsRegister!Admit(req[p].us)
      BY <2>1, <2>2, <3>1, <3>2, <3>3 DEF AsRegister!Admit
    <3>5. req[p].us \in SUBSET Uploads
      BY <3>1
    <3> QED
      BY <3>4, <3>5 DEF AsRegister!Next
  <2>3. CASE Publishes(p) /\ ~Admit(p)
    <3>1. PICK u \in Rows, r \in Request : ~Taken(u) /\ Publish(p, u, r)
      BY <2>3 DEF Publishes
    <3>2. u \in Uploads \ Published /\ Published' = Published \union {u}
      BY <3>1, PublishEffect
    <3>3. usage'.files = usage.files + 1
      BY <3>1 DEF Publish, WriteUsage, MovedToReady
    <3>4. u \in Admitted /\ Admitted' = Admitted /\ erased' = erased
      BY <2>1, <2>3 DEF Rows, Publishes
    <3>5. AsRegister!Publish(u)
      BY <3>2, <3>3, <3>4 DEF AsRegister!Publish
    <3> QED
      BY <3>2, <3>5 DEF AsRegister!Next
  <2>4. CASE WriteTotals(p) /\ ~Admit(p)
    <3>1. /\ usage' = req[p].totals /\ req[p].pc \in Summed
      BY <2>4 DEF WriteTotals, WriteUsage, At, Summed
    <3>2. /\ Published \in SUBSET Uploads /\ Admitted \in SUBSET Uploads
          /\ erased = {} => StoredRows \in SUBSET Published
      BY DEF FilesMatchAttachments, StoredRows, Published, Admitted
    <3>3. usage'.files <= Cardinality(Admitted)
      BY <3>1 DEF TotalsBehind
    <3>4. erased = {} => usage'.files <= Cardinality(StoredRows)
      BY <3>1 DEF TotalsBehind
    <3>5. /\ Cardinality(Published) \in Nat /\ Cardinality(Admitted) \in Nat
          /\ StoredRows \in SUBSET Uploads => Cardinality(StoredRows) \in Nat
          /\ erased = {} => Cardinality(StoredRows) <= Cardinality(Published)
      BY <3>2, CountType, CountGrows
    <3>6. StoredRows \in SUBSET Uploads
      BY DEF StoredRows
    <3>7. usage'.files \in 0 .. Cardinality(IF erased = {} THEN Published ELSE Admitted)
      <4>1. CASE erased = {}
        BY <1>1, <3>4, <3>5, <3>6, <4>1
      <4>2. CASE erased # {}
        BY <1>1, <3>3, <3>5, <4>2
      <4> QED
        BY <4>1, <4>2
    <3>8. UNCHANGED <<Admitted, Published, erased>>
      BY <2>1, <2>4, OtherEffect
    <3>9. AsRegister!Recount
      BY <3>7, <3>8, SameCardinality DEF AsRegister!Recount
    <3> QED
      BY <3>9 DEF AsRegister!Next
  <2>5. CASE Quiet /\ ~Admit(p)
    BY <1>2, <2>1, <2>5, OtherEffect DEF Quiet
  <2>6. CASE PurgeAttachments(p) /\ ~Admit(p)
    <3>1. req[p].cur \in SUBSET Uploads
      BY DEF TypeOK, Request
    <3>2. /\ Published' = Published \ req[p].cur /\ erased' = erased \union req[p].cur
          /\ usage'.files = usage.files /\ Admitted' = Admitted
      BY <2>1, <2>6, ErasedEffect
    <3>3. AsRegister!Erase(req[p].cur)
      BY <3>1, <3>2 DEF AsRegister!Erase
    <3> QED
      BY <3>1, <3>3 DEF AsRegister!Next
  <2>7. CASE Deletes(p) /\ ~Admit(p)
    <3>1. PICK u \in erased \ Stream : Published' = Published /\ usage' = GivenBack(u)
      BY <2>7, DeletedEffect
    <3>2. u \in Uploads /\ erased' = erased
      BY <2>7 DEF TypeOK, Deletes
    <3> QED
      BY <1>2, <2>1, <2>7, <3>1, <3>2, GivenBackQuiet
  <2> QED
    BY <2>1, <2>2, <2>3, <2>4, <2>5, <2>6, <2>7 DEF Effect
<1>4. CASE World \/ UNCHANGED vars
  BY <1>4, WorldKeeps DEF vars, Admitted, Published, AsRegister!vars
<1> QED
  BY <1>3, <1>4 DEF Next

\* The whole upload machinery implements the register of attachments: seen
\* through the rows, the attachments and the file count, each of its steps is an
\* admission, one publication of an upload not yet published, the purge of a
\* service's attachments, a recount that does not exceed what exists as long as
\* nothing was purged, or nothing.
THEOREM ImplementsRegister == Spec => RegisterSpec
BY RegisterInit, RegisterStep, CountInvariant, TypeCorrect, PTL
   DEF Spec, RegisterSpec, AsRegister!Spec

-----------------------------------------------------------------------------
(* The admission of intents.                                               *)

\* The inductive invariant behind AdmissionWithinQuota: as long as nobody has
\* updated the usage row, what the transaction summed is still there.
SnapshotHolds ==
  \A p \in Procs :
    At(p, "admit") /\ ~req[p].clash /\ Quota > 0
      => Actual[StoredRows] + Declared[CountedBy(p) \union req[p].us] <= Quota

AdmitInv == AttachInv /\ SnapshotHolds

\* What a request that is at its transaction can do, and how it got there.
LEMMA AdmissionSteps ==
  ASSUME TypeOK, InHand, NEW p \in Procs,
         Call(p) \/ Continue(p) \/ StartMaintenance(p) \/ Abandon(p)
  PROVE  /\ At(p, "admit") => Admit(p) \/ AbortAdmission(p) \/ Abandon(p)
         /\ req'[p].pc = "admit" => CheckQuota(p)
<1>1. ASSUME Reserving(req[p])
      PROVE  CheckQuota(p) \/ Admit(p) \/ AbortAdmission(p) \/ Abandon(p)
  BY <1>1 DEF Reserving, Call, UploadCall, Calling, Continue, StartMaintenance, At, Reconciling,
     CreateIntent, CreateWithManifest, MarkStarted, Confirm, Cancel, Retry,
     StreamWebhook, UpdateProgress, FinalizeWithFailures, ReadActive, ReadFiles,
     WriteStarted, WriteProgress, WriteProgressFailed, ExpireOnConfirm, PollOnConfirm,
     Verify, RejectObject, Reject, Register, CancelObject, WriteCancelled, RetryObject,
     WriteRetried, WriteFinalized, ReadMarked, MarkStreamReady, MarkStreamFailed,
     CleanupObject, CleanupRelease, SelectStreams, EndSync, ExpireStale, PollStream,
     WriteTotals, Writing, MissingRow, WritePoints, RemoveService, RestoreService,
     PermanentDelete, PurgeAttachments, PurgeFile, ReadPurged, PurgeUpload, PurgeRows,
     PurgeService
<1>2. At(p, "admit") => Admit(p) \/ AbortAdmission(p) \/ Abandon(p)
  BY <1>1 DEF At, Reserving, CheckQuota
<1>3. ASSUME req'[p].pc = "admit", Call(p) PROVE FALSE
  <2>1. ASSUME NEW us, NEW ids, Intending(p, us, ids) PROVE FALSE
    BY <1>3, <2>1 DEF Intending, TypeOK, Idle
  <2>2. ASSUME NEW u \in Uploads,
               \/ MarkStarted(p, u) \/ Confirm(p, u) \/ Cancel(p, u)
               \/ Retry(p, u) \/ StreamWebhook(p, u)
        PROVE  FALSE
    <3>1. PICK point, kept : /\ req' = [req EXCEPT ![p] = Reading(u, point, kept)]
                            /\ point # "admit"
      BY <2>2 DEF MarkStarted, Confirm, Cancel, Retry, StreamWebhook, Begin
    <3> QED
      BY <1>3, <3>1 DEF Reading, TypeOK, Idle
  <2>3. ASSUME NEW u \in Uploads, NEW to \in ProgressStatus, UpdateProgress(p, u, to)
        PROVE  FALSE
    BY <1>3, <2>3 DEF UpdateProgress, Reading, TypeOK, Idle
  <2>4. ASSUME NEW S \in Services,
               \/ FinalizeWithFailures(p, S) \/ PermanentDelete(p, S)
               \/ RemoveService(p, S) \/ RestoreService(p, S)
        PROVE  FALSE
    BY <1>3, <2>4 DEF FinalizeWithFailures, PermanentDelete, RemoveService,
       RestoreService, Calling, At, TypeOK, Idle
  <2>5. ASSUME ReadActive(p) \/ ReadFiles(p) PROVE FALSE
    BY <1>3, <2>5 DEF ReadActive, ReadFiles, TypeOK, Request
  <2> QED
    BY <1>3, <2>1, <2>2, <2>3, <2>4, <2>5 DEF Call, UploadCall, CreateIntent, CreateWithManifest
<1>4. ASSUME req'[p].pc = "admit", Continue(p) \/ StartMaintenance(p) \/ Abandon(p)
      PROVE  CheckQuota(p)
  <2>1. Reserving(req[p])
    BY <1>4, ContinueHand DEF Reserving
  <2>2. Admit(p) \/ AbortAdmission(p) \/ Abandon(p) => req'[p] = Idle
    BY DEF Admit, WriteUsage, AbortAdmission, Abandon, Done, TypeOK
  <2> QED
    BY <1>1, <1>4, <2>1, <2>2 DEF Idle
<1> QED
  BY <1>2, <1>3, <1>4

\* The sums at the snapshot, in the terms of SnapshotHolds.
LEMMA QuotaAtSnapshot ==
  ASSUME HandInv, NEW p \in Procs, CheckQuota(p), req'[p].pc = "admit", Quota > 0
  PROVE  Actual[StoredRows'] + Declared[CountedBy(p)' \union req'[p].us] <= Quota
<1> USE DEF HandInv
<1>1. req' = [req EXCEPT ![p].pc = "admit", ![p].seen = status]
      /\ ~(ProjectedBytes(req[p].us) > Quota)
  <2>1. ~Done(p)
    BY DEF Done, TypeOK, Idle
  <2> QED
    BY <2>1 DEF CheckQuota
<1>2. req'[p].us = req[p].us /\ req'[p].seen = status
  BY <1>1 DEF TypeOK, Request
<1>3. status' = status /\ stored' = stored
  BY DEF CheckQuota, rows, files
<1>4. StoredRows' = StoredRows /\ CountedBy(p)' = ActiveRows
  BY <1>2, <1>3 DEF StoredRows, CountedBy, ActiveRows, Rows, Admitted, Active
<1>5. /\ req[p].us \in SUBSET Uploads /\ ActiveRows \in SUBSET Uploads
      /\ ActiveRows \intersect req[p].us = {}
  BY DEF CheckQuota, InHand, HeldBy, Reserving, At, TypeOK, Request, ActiveRows, Admitted, Active
<1>6. Declared[ActiveRows \union req[p].us] = Declared[ActiveRows] + Declared[req[p].us]
  BY <1>5, SizesAssumption DEF IsMeasure
<1>7. /\ Actual[StoredRows] \in Nat /\ Declared[ActiveRows] \in Nat
      /\ Declared[req[p].us] \in Nat
  BY <1>5, SumType DEF StoredRows
<1>8. Actual[StoredRows] + Declared[ActiveRows \union req[p].us] <= Quota
  BY <1>1, <1>6, <1>7, BoundsAssumption DEF ProjectedBytes
<1> QED
  BY <1>2, <1>4, <1>8

LEMMA SnapshotStep ==
  ASSUME AdmitInv, NEW p \in Procs,
         Call(p) \/ Continue(p) \/ StartMaintenance(p) \/ Abandon(p)
  PROVE  SnapshotHolds'
<1> USE DEF AdmitInv, AttachInv, HandInv
<1>1. Effect(p)
  BY Effects
<1>2. SUFFICES ASSUME NEW q \in Procs, At(q, "admit")', ~req'[q].clash, Quota > 0
               PROVE  Actual[StoredRows'] + Declared[CountedBy(q)' \union req'[q].us]
                        <= Quota
  BY DEF SnapshotHolds
<1>3. CASE q = p
  BY <1>2, <1>3, AdmissionSteps, QuotaAtSnapshot DEF At
<1>4. CASE q # p
  <2>1. req[q] \in Request /\ req'[q] \in {req[q], Clashed(req[q]), Outdated(Clashed(req[q]))}
    BY <1>4, OthersKept DEF TypeOK
  <2>2. /\ req'[q].pc = req[q].pc /\ req'[q].us = req[q].us /\ req'[q].seen = req[q].seen
    BY <2>1, ClashedKeeps
  <2>3. At(q, "admit")
    BY <1>2, <2>2 DEF At
  <2>4. Clashed(req[q]).clash /\ Outdated(Clashed(req[q])).clash
    BY <2>1, <2>3 DEF Clashed, Outdated, At, Request
  <2>5. req'[q] = req[q]
    BY <1>2, <2>1, <2>4
  <2>6. ~Admit(p) /\ ~WriteTotals(p) /\ ~Publishes(p) /\ ~Deletes(p)
    BY <1>2, <1>4, <2>4 DEF Admit, WriteTotals, Publishes, Publish, Deletes, WriteUsage
  <2>7. Rows' \subseteq Rows /\ StoredRows' = StoredRows
    BY <1>1, <2>6, RowsStep, OtherEffect, ErasedEffect DEF Effect
  <2> DEFINE before == CountedBy(q) \union req[q].us
             after == CountedBy(q)' \union req[q].us
  <2>8. /\ after \in SUBSET before /\ before \in SUBSET Uploads /\ after \in SUBSET Uploads
        /\ StoredRows \in SUBSET Uploads
    BY <2>1, <2>5, <2>7 DEF CountedBy, Rows, Admitted, StoredRows, Request
  <2>9. /\ Declared[after] <= Declared[before] /\ Declared[after] \in Nat
        /\ Declared[before] \in Nat /\ Actual[StoredRows] \in Nat
    BY <2>8, SumGrows, SumType
  <2>10. Actual[StoredRows] + Declared[before] <= Quota
    BY <1>2, <2>3, <2>5 DEF SnapshotHolds
  <2>11. Actual[StoredRows] + Declared[after] <= Quota
    BY <2>9, <2>10, BoundsAssumption
  <2> QED
    BY <2>5, <2>7, <2>11
<1> QED
  BY <1>3, <1>4

LEMMA AdmitInvariant == Spec => []AdmitInv
<1>1. ASSUME Init PROVE SnapshotHolds
  BY <1>1 DEF Init, SnapshotHolds, At, Idle
<1>2. ASSUME AdmitInv, [Next]_vars PROVE SnapshotHolds'
  <2>1. ASSUME UNCHANGED <<status, stored, req>> PROVE SnapshotHolds'
    BY <1>2, <2>1 DEF AdmitInv, SnapshotHolds, At, StoredRows, CountedBy, Rows, Admitted
  <2> QED
    BY <1>2, <2>1, SnapshotStep, WorldKeeps DEF Next, vars
<1>3. Init => SnapshotHolds
  BY <1>1
<1>4. AdmitInv /\ [Next]_vars => SnapshotHolds'
  BY <1>2
<1> QED
  BY <1>3, <1>4, AttachInvariant, PTL DEF Spec, AdmitInv

LEMMA AdmissionStep == AdmitInv /\ [Next]_vars =>
  \A p \in Procs :
    At(p, "admit") /\ req'[p] = Idle /\ status' # status /\ Quota > 0
      => Actual[StoredRows] + Declared[CountedBy(p) \union req[p].us] <= Quota
<1> SUFFICES ASSUME AdmitInv, [Next]_vars, NEW p \in Procs, At(p, "admit"),
                    req'[p] = Idle, status' # status, Quota > 0
             PROVE  Actual[StoredRows] + Declared[CountedBy(p) \union req[p].us] <= Quota
  OBVIOUS
<1> USE DEF AdmitInv, AttachInv, HandInv
<1>1. PICK q \in Procs : Call(q) \/ Continue(q) \/ StartMaintenance(q) \/ Abandon(q)
  BY WorldKeeps DEF Next, vars
<1>2. q = p
  <2>1. Idle.pc = "idle" /\ req[p] \in Request
    BY DEF Idle, TypeOK
  <2> QED
    BY <1>1, <2>1, OthersKept, ClashedKeeps DEF At
<1>3. Admit(p)
  BY <1>1, <1>2, AdmissionSteps DEF AbortAdmission, Abandon, rows
<1> QED
  BY <1>3 DEF Admit, SnapshotHolds

\* Concurrent intents cannot together exceed the quota: whichever is admitted
\* still counts the files, the reservations of its snapshot and every intent
\* admitted since.
THEOREM QuotaHolds == Spec => AdmissionWithinQuota
BY AdmitInvariant, AdmissionStep, PTL DEF Spec, AdmissionWithinQuota
=============================================================================
