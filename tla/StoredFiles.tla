------------------------------ MODULE StoredFiles ------------------------------
(***************************************************************************)
(* The files of one organisation: the picture of an asset, of an owner, of *)
(* a user or of the organisation itself, and the attachments a service is  *)
(* created with.  A file is an object of the store and a row of StoredFile; *)
(* the counters of the organisation are kept beside the rows, and a row of  *)
(* the program refers to its file (StoredFilesService,                      *)
(* StorageGovernanceService and the handlers that call them).               *)
(*                                                                          *)
(* A request is a process r whose req[r].at names its next await.  A call   *)
(* that an earlier check rejects changes nothing and is left out.           *)
(***************************************************************************)
EXTENDS Naturals, FiniteSets, Sequences

CONSTANTS Requests,   \* concurrent handlers
          Rows,       \* rows that refer to files
          Mixes,      \* what the rows may be
          First,      \* the files each row has at first
          MaxFiles,   \* bound: files that come to exist
          Bytes,      \* bytes of a set of files
          Override, PlanGb, Gb, Fallback, \* where the quota comes from
          Reservations, \* bytes the uploads under way may have reserved
          MaxEdits,   \* bound: calls that upload nothing
          MaxFaults   \* bound: awaits that fail and processes that die

Files == 1 .. MaxFiles
Kinds == {"asset", "owner", "user", "organization", "service"}

ASSUME FirstAssumption ==
  /\ Mixes \subseteq [Rows -> Kinds] /\ Mixes # {}
  /\ First \in [Rows -> SUBSET Files]
  /\ \A a, b \in Rows : a # b => First[a] \intersect First[b] = {}
  /\ Rows # {} /\ \E n \in 0 .. MaxFiles : UNION {First[a] : a \in Rows} = 1 .. n
ASSUME BytesAssumption ==
  /\ Bytes \in [SUBSET Files -> Nat]
  /\ Bytes[{}] = 0
  /\ \A S \in SUBSET Files : \A f \in Files \ S :
       Bytes[{f}] > 0 /\ Bytes[S \union {f}] = Bytes[S] + Bytes[{f}]
ASSUME BoundAssumption ==
  {MaxFiles, Override, PlanGb, Gb, Fallback, MaxEdits, MaxFaults} \union Reservations \subseteq Nat

VARIABLES
  kind,    \* what each row is
  refs,    \* the files each row refers to
  exists,  \* rows that have been inserted
  stored,  \* rows of StoredFile
  objects, \* objects of the store
  usage,   \* OrganizationStorageUsage: ready bytes and files
  alerted, \* last_storage_alert_pct, 0 for null
  last,    \* the last id that was given to a file
  req, edits, faults,
  overlapped, \* history: two requests have been under way at once
  left,       \* history: files a request let go of when it failed or died
  torn,       \* history: files whose deletion was cut between the object and the row
  unanswered, \* history: rows that were inserted by a request that then failed
  unmarked,   \* history: a mark was not written
  mailed      \* history: the highest threshold mailed since usage was seen below all

rows == <<kind, refs, exists, stored, objects, usage, alerted, last>>
lost == <<left, torn, unanswered>>
past == <<lost, unmarked, mailed>>
vars == <<rows, req, edits, faults, overlapped, past>>

Ops   == {"none", "create", "replace", "edit", "remove"}
Steps == {"idle", "sum", "quota", "upload", "register", "drop", "owner", "write", "answer",
          "find", "blob", "unlink", "list", "notify", "mark"}
Thresholds == {0, 80, 100}
Request == [at : Steps, op : Ops, row : Rows, old : SUBSET Files, new : SUBSET Files,
            file : Files \union {0}, thumb : BOOLEAN, kill : SUBSET Files, sum : Nat,
            pct : Thresholds, seen : Thresholds]
Idle == [at |-> "idle", op |-> "none", row |-> CHOOSE a \in Rows : TRUE, old |-> {}, new |-> {},
         file |-> 0, thumb |-> FALSE, kill |-> {}, sum |-> 0, pct |-> 0, seen |-> 0]

TypeOK ==
  /\ kind \in [Rows -> Kinds]
  /\ refs \in [Rows -> SUBSET Files]
  /\ exists \subseteq Rows
  /\ stored \subseteq Files
  /\ objects \subseteq Files
  /\ usage \in [bytes : Nat, files : Nat]
  /\ alerted \in Thresholds
  /\ last \in 0 .. MaxFiles
  /\ req \in [Requests -> Request]
  /\ edits \in 0 .. MaxEdits /\ faults \in 0 .. MaxFaults
  /\ left \subseteq Files /\ torn \subseteq Files /\ unanswered \subseteq Rows
  /\ overlapped \in BOOLEAN /\ unmarked \in BOOLEAN
  /\ mailed \in Thresholds

Present == UNION {First[a] : a \in Rows}

Init ==
  /\ kind \in Mixes
  /\ refs = First
  /\ exists = {a \in Rows : First[a] # {}}
  /\ stored = Present /\ objects = Present
  /\ usage = [bytes |-> Bytes[Present], files |-> Cardinality(Present)]
  /\ alerted = 0
  /\ last = Cardinality(Present)
  /\ req = [r \in Requests |-> Idle]
  /\ edits = 0 /\ faults = 0
  /\ overlapped = FALSE /\ unmarked = FALSE
  /\ left = {} /\ torn = {} /\ unanswered = {}
  /\ mailed = 0

-----------------------------------------------------------------------------
At(r, step) == req[r].at = step
Goto(r, to) == req' = [req EXCEPT ![r] = to] /\ UNCHANGED <<edits, overlapped>>
Onward(r, step) == Goto(r, [req[r] EXCEPT !.at = step])
Fault == faults < MaxFaults /\ faults' = faults + 1

Start(r, to) ==
  /\ At(r, "idle")
  /\ req' = [req EXCEPT ![r] = to]
  /\ overlapped' = (overlapped \/ \E p \in Requests \ {r} : ~At(p, "idle"))
  /\ UNCHANGED <<faults, past>>
Edited == edits < MaxEdits /\ edits' = edits + 1

\* The files are deleted one by one in any order, each by deleteStoredFileAndBlob.
Killing(fs) == IF fs = {} THEN Idle ELSE [Idle EXCEPT !.at = "find", !.kill = fs]
\* A handler that fails deletes what it had registered.
GiveUp(r) == Goto(r, Killing(req[r].new))

-----------------------------------------------------------------------------
(* The quota.                                                               *)

\* An override of the organisation, the gigabytes of its plan, or the environment.
ResolveQuota(override, gb, fallback) ==
  CASE override > 0 -> override
    [] override = 0 /\ gb > 0 -> gb * Gb
    [] OTHER -> fallback
Quota == ResolveQuota(Override, PlanGb, Fallback)

ReadSum(r) ==
  /\ At(r, "sum")
  /\ Goto(r, [req[r] EXCEPT !.at = "quota", !.sum = Bytes[stored]])
  /\ UNCHANGED <<rows, faults, past>>

\* The sum that was read, less the file that will be replaced, with the new one:
\* of a photo its own bytes, the thumbnail is not made yet.
CheckQuota(r) ==
  /\ At(r, "quota")
  /\ IF Quota > 0 /\ req[r].sum + Bytes[{req[r].file}] > Quota + Bytes[req[r].old \intersect stored]
     THEN GiveUp(r) ELSE Onward(r, "upload")
  /\ UNCHANGED <<rows, faults, past>>

-----------------------------------------------------------------------------
(* Handlers that upload.                                                    *)

\* A picture takes the place of the one the row is read with.
WithPicture(r, a) ==
  /\ a \in exists
  /\ last < MaxFiles
  /\ last' = last + 1
  /\ Start(r, [Idle EXCEPT !.at = "sum", !.op = "replace", !.row = a,
                           !.old = refs[a], !.file = last + 1])
  /\ UNCHANGED <<kind, refs, exists, stored, objects, usage, alerted, edits>>

UpdateAsset(r, a)      == kind[a] = "asset" /\ WithPicture(r, a)
UpdateOwner(r, a)      == kind[a] = "owner" /\ WithPicture(r, a)
UpdateOwnProfile(r, a) == kind[a] = "user" /\ WithPicture(r, a)
UpdateSettings(r, a)   == kind[a] = "organization" /\ WithPicture(r, a)

\* A new row with so many files.
NewRow(r, a, n) ==
  /\ a \notin exists /\ \A p \in Requests : req[p].op = "create" => req[p].row # a
  /\ last + n <= MaxFiles
  /\ last' = last + n
  /\ Start(r, [Idle EXCEPT !.at = "sum", !.op = "create", !.row = a,
                           !.file = last + 1, !.thumb = n = 2])
  /\ UNCHANGED <<kind, refs, exists, stored, objects, usage, alerted, edits>>

CreateAsset(r, a) == kind[a] = "asset" /\ NewRow(r, a, 1)
CreateOwner(r, a) == kind[a] = "owner" /\ NewRow(r, a, 1)
\* A service comes with a photo and the thumbnail that is made of it.
CreateService(r, a) == kind[a] = "service" /\ NewRow(r, a, 2)

Upload(r) ==
  /\ At(r, "upload")
  /\ objects' = objects \union {req[r].file}
  /\ Onward(r, "register")
  /\ UNCHANGED <<kind, refs, exists, stored, usage, alerted, last, faults, past>>

UploadFails(r) ==
  /\ At(r, "upload") /\ Fault
  /\ GiveUp(r)
  /\ UNCHANGED <<rows, past>>

AfterRegister(r) ==
  LET registered == [req[r] EXCEPT !.new = @ \union {req[r].file}]
  IN  CASE req[r].thumb -> [registered EXCEPT !.at = "upload", !.file = @ + 1, !.thumb = FALSE]
        [] ~req[r].thumb /\ kind[req[r].row] = "asset" -> [registered EXCEPT !.at = "owner"]
        [] OTHER -> [registered EXCEPT !.at = "write"]

\* One transaction: the row and the counters.
Register(r) ==
  /\ At(r, "register")
  /\ stored' = stored \union {req[r].file}
  /\ usage' = [bytes |-> usage.bytes + Bytes[{req[r].file}], files |-> usage.files + 1]
  /\ Goto(r, AfterRegister(r))
  /\ UNCHANGED <<kind, refs, exists, objects, alerted, last, faults, past>>

RegisterFails(r) ==
  /\ At(r, "register") /\ Fault
  /\ Onward(r, "drop")
  /\ UNCHANGED <<rows, past>>

\* The store may answer with an error, which is logged and no more.
RemoveObject(r) ==
  \/ objects' = objects \ {req[r].file} /\ UNCHANGED faults
  \/ Fault /\ UNCHANGED objects

DropObject(r) ==
  /\ At(r, "drop")
  /\ RemoveObject(r)
  /\ GiveUp(r)
  /\ UNCHANGED <<kind, refs, exists, stored, usage, alerted, last, past>>

\* ensureOwnerBelongsToOrg, asked after the upload and outside the try: an
\* asset whose owner is refused leaves its picture behind.
CheckOwner(r) ==
  /\ At(r, "owner")
  /\ \/ Onward(r, "write") /\ UNCHANGED left
     \/ Goto(r, Idle) /\ left' = left \union req[r].new
  /\ UNCHANGED <<rows, faults, torn, unanswered, unmarked, mailed>>

-----------------------------------------------------------------------------
(* Handlers that upload nothing.                                            *)

\* An edit writes back the picture it was read with; only the settings of the
\* organisation leave the column alone.
Edit(r, a) ==
  /\ a \in exists /\ kind[a] \in {"asset", "owner", "user"}
  /\ Edited
  /\ Start(r, [Idle EXCEPT !.at = "write", !.op = "edit", !.row = a, !.old = refs[a]])
  /\ UNCHANGED rows

RemovePicture(r, a) ==
  /\ a \in exists /\ kind[a] \in {"asset", "user"}
  /\ Edited
  /\ Start(r, [Idle EXCEPT !.at = "write", !.op = "remove", !.row = a, !.old = refs[a]])
  /\ UNCHANGED rows

Written(r) == CASE req[r].op = "edit" -> req[r].old
                [] req[r].op = "remove" -> {}
                [] OTHER -> req[r].new
AfterWrite(r) == CASE req[r].op \in {"replace", "remove"} -> Killing(req[r].old)
                   [] req[r].op = "create" /\ kind[req[r].row] = "service" ->
                        [req[r] EXCEPT !.at = "answer"]
                   [] OTHER -> Idle

\* Mutant: the picture that was replaced is not deleted.
WriteRowOnly(r) ==
  /\ At(r, "write") /\ Written(r) \subseteq stored
  /\ refs' = [refs EXCEPT ![req[r].row] = Written(r)]
  /\ exists' = exists \union {req[r].row}
  /\ Goto(r, Idle)
  /\ UNCHANGED <<kind, stored, objects, usage, alerted, last, faults, past>>

\* Mutant: no foreign key.
WriteAnyRow(r) ==
  /\ At(r, "write")
  /\ refs' = [refs EXCEPT ![req[r].row] = Written(r)]
  /\ exists' = exists \union {req[r].row}
  /\ Goto(r, AfterWrite(r))
  /\ UNCHANGED <<kind, stored, objects, usage, alerted, last, faults, past>>

\* The foreign key refuses a file that has gone meanwhile.
WriteRow(r) ==
  /\ At(r, "write")
  /\ IF Written(r) \subseteq stored
     THEN /\ refs' = [refs EXCEPT ![req[r].row] = Written(r)]
          /\ exists' = exists \union {req[r].row}
          /\ Goto(r, AfterWrite(r))
     ELSE GiveUp(r) /\ UNCHANGED <<refs, exists>>
  /\ UNCHANGED <<kind, stored, objects, usage, alerted, last, faults, past>>

WriteFails(r) ==
  /\ At(r, "write") /\ Fault
  /\ GiveUp(r)
  /\ UNCHANGED <<rows, past>>

\* services.create resolves the links of the service it has inserted inside the
\* same try: if that fails, the files of the service are deleted under it.
Answer(r) ==
  /\ At(r, "answer")
  /\ Goto(r, Idle)
  /\ UNCHANGED <<rows, faults, past>>

AnswerFails(r) ==
  /\ At(r, "answer") /\ Fault
  /\ unanswered' = unanswered \union {req[r].row}
  /\ GiveUp(r)
  /\ UNCHANGED <<rows, left, torn, unmarked, mailed>>

-----------------------------------------------------------------------------
(* deleteStoredFileAndBlob.                                                 *)

\* A file whose row has gone is let be.
FindFile(r, f) ==
  /\ At(r, "find") /\ f \in req[r].kill
  /\ IF f \in stored THEN Goto(r, [req[r] EXCEPT !.at = "blob", !.file = f])
     ELSE Goto(r, Killing(req[r].kill \ {f}))
  /\ UNCHANGED <<rows, faults, past>>

DeleteBlob(r) ==
  /\ At(r, "blob")
  /\ RemoveObject(r)
  /\ Onward(r, "unlink")
  /\ UNCHANGED <<kind, refs, exists, stored, usage, alerted, last, past>>

Floor(n, k) == IF n > k THEN n - k ELSE 0

Unlinked(r) ==
  /\ At(r, "unlink")
  /\ stored' = stored \ {req[r].file}
  /\ refs' = [a \in Rows |-> refs[a] \ {req[r].file}]
  /\ Goto(r, Killing(req[r].kill \ {req[r].file}))
  /\ UNCHANGED <<kind, exists, objects, alerted, last, faults, past>>

\* Mutant: the row goes, the counters stay.
UnlinkUncounted(r) == Unlinked(r) /\ UNCHANGED usage

\* One transaction: the row, ON DELETE SET NULL on what refers to it, and the
\* counters, whether or not the row was still there.
Unlink(r) ==
  /\ Unlinked(r)
  /\ usage' = [bytes |-> Floor(usage.bytes, Bytes[{req[r].file}]),
               files |-> Floor(usage.files, 1)]

\* Any of its awaits is rejected and nobody tries again: the file stays as far
\* as it came, the last step leaves its row without its object.  The other
\* files of a service are deleted all the same.
DeleteFails(r) ==
  /\ req[r].at \in {"find", "blob", "unlink"} /\ Fault
  /\ \E f \in IF At(r, "find") THEN req[r].kill ELSE {req[r].file} :
       /\ Goto(r, Killing(req[r].kill \ {f}))
       /\ left' = left \union {f}
       /\ torn' = IF At(r, "unlink") THEN torn \union {f} ELSE torn
  /\ UNCHANGED <<rows, unanswered, unmarked, mailed>>

-----------------------------------------------------------------------------
(* The sweep of orphans.                                                    *)

\* Pictures and attachments lie under org/<id>; what is listed is <id>.
Folder == <<"org", "id">>
SweepPrefix == <<"id">>
IsUnder(path, prefix) == SubSeq(path, 1, Len(prefix)) = prefix
Listed == {f \in objects : IsUnder(Folder, SweepPrefix)}

ReconcileFiles(r) ==
  /\ Edited
  /\ Start(r, [Idle EXCEPT !.at = "list", !.kill = stored])
  /\ UNCHANGED rows

DeleteOrphans(r) ==
  /\ At(r, "list")
  /\ objects' = objects \ (Listed \ req[r].kill)
  /\ Goto(r, Idle)
  /\ UNCHANGED <<kind, refs, exists, stored, usage, alerted, last, faults, past>>

-----------------------------------------------------------------------------
(* The warning of every morning.                                            *)

\* What is reserved for uploads under way counts as used.
Reached(held, t) == ((usage.bytes + held) * 10000) \div Quota >= t * 100
Crossed(held) == CASE Reached(held, 100) -> 100
                   [] Reached(held, 80) /\ ~Reached(held, 100) -> 80
                   [] OTHER -> 0

WarnNearLimit(r) ==
  /\ Quota > 0
  /\ Edited
  /\ \E held \in Reservations :
       Start(r, [Idle EXCEPT !.at = "notify", !.pct = Crossed(held), !.seen = alerted])
  /\ UNCHANGED rows

\* Mutant: the mark goes back with the usage.
NotifyAndLower(r) ==
  /\ At(r, "notify")
  /\ IF req[r].pct > req[r].seen
     THEN /\ mailed' = IF req[r].pct > mailed THEN req[r].pct ELSE mailed
          /\ Onward(r, "mark")
     ELSE /\ mailed' = IF req[r].pct = 0 THEN 0 ELSE mailed
          /\ IF req[r].pct < req[r].seen THEN Onward(r, "mark") ELSE Goto(r, Idle)
  /\ UNCHANGED <<rows, faults, lost, unmarked>>

\* The mail leaves before the mark is written.
Notify(r) ==
  /\ At(r, "notify")
  /\ IF req[r].pct > req[r].seen
     THEN /\ mailed' = IF req[r].pct > mailed THEN req[r].pct ELSE mailed
          /\ Onward(r, "mark")
     ELSE /\ mailed' = IF req[r].pct = 0 THEN 0 ELSE mailed
          /\ IF req[r].pct = 0 /\ req[r].seen # 0 THEN Onward(r, "mark") ELSE Goto(r, Idle)
  /\ UNCHANGED <<rows, faults, lost, unmarked>>

Mark(r) ==
  /\ At(r, "mark")
  /\ alerted' = req[r].pct
  /\ Goto(r, Idle)
  /\ UNCHANGED <<kind, refs, exists, stored, objects, usage, last, faults, past>>

\* The mail has left, the job stops.
MarkFails(r) ==
  /\ At(r, "mark") /\ Fault
  /\ unmarked' = TRUE
  /\ Goto(r, Idle)
  /\ UNCHANGED <<rows, lost, mailed>>

-----------------------------------------------------------------------------
\* What a request has registered or is out to delete.
InHand(r) == IF At(r, "list") THEN {} ELSE req[r].new \union req[r].kill

\* The process dies, and every request with it.
Crash ==
  /\ Fault
  /\ \E r \in Requests : ~At(r, "idle")
  /\ req' = [r \in Requests |-> Idle]
  /\ left' = left \union UNION {InHand(r) : r \in Requests}
  /\ torn' = torn \union {req[r].file : r \in {p \in Requests : At(p, "unlink")}}
  /\ unmarked' = (unmarked \/ \E r \in Requests : At(r, "mark"))
  /\ UNCHANGED <<rows, edits, overlapped, unanswered, mailed>>

Call(r) ==
  \/ \E a \in Rows :
       \/ UpdateAsset(r, a) \/ UpdateOwner(r, a) \/ UpdateOwnProfile(r, a) \/ UpdateSettings(r, a)
       \/ CreateAsset(r, a) \/ CreateOwner(r, a) \/ CreateService(r, a)
       \/ Edit(r, a) \/ RemovePicture(r, a)
  \/ ReconcileFiles(r) \/ WarnNearLimit(r)

Continue(r) ==
  \/ ReadSum(r) \/ CheckQuota(r) \/ Upload(r) \/ Register(r) \/ DropObject(r)
  \/ CheckOwner(r) \/ WriteRow(r) \/ Answer(r)
  \/ \E f \in Files : FindFile(r, f)
  \/ DeleteBlob(r) \/ Unlink(r) \/ DeleteOrphans(r) \/ Notify(r) \/ Mark(r)

Fail(r) ==
  \/ UploadFails(r) \/ RegisterFails(r) \/ WriteFails(r) \/ AnswerFails(r)
  \/ DeleteFails(r) \/ MarkFails(r)

Next ==
  \/ \E r \in Requests : Call(r) \/ Continue(r) \/ Fail(r)
  \/ Crash

Spec == Init /\ [][Next]_vars

-----------------------------------------------------------------------------
(* Properties.                                                              *)

\* The counters of the organisation never say more than its files, and say
\* exactly that as long as no two requests overlapped: whatever failed or died
\* half way (registerFile, deleteStoredFileAndBlob).
CountersAgree ==
  /\ usage.bytes <= Bytes[stored] /\ usage.files <= Cardinality(stored)
  /\ ~overlapped => usage = [bytes |-> Bytes[stored], files |-> Cardinality(stored)]

\* Whatever a row refers to is in the store, is being deleted this moment, or is
\* a file whose deletion was cut between its object and its row.  As long as no
\* two requests overlapped nobody is out to delete, or has half deleted, what a
\* row refers to, except for a service whose request failed after it was
\* inserted: the row is written before the file it replaces is deleted, a
\* request that gives up deletes what no row has, the foreign key refuses what
\* has gone (deleteStoredFileAndBlob, the handlers that call it).
NoDeadLinks ==
  \A a \in Rows : \A f \in refs[a] :
    /\ f \in objects \union torn \/ \E r \in Requests : At(r, "unlink") /\ req[r].file = f
    /\ overlapped \/ a \in unanswered \/
         (f \notin torn /\ \A r \in Requests : f \in req[r].kill => At(r, "list"))

\* A registered file belongs to a row, or to a request that will give it one or
\* delete it, unless requests overlapped or a request let go of this very file:
\* its deletion was rejected, the process died, or the owner of an asset was
\* refused after the picture was registered (the catch of each handler).
NoLeaks ==
  overlapped \/
    \A f \in stored : \/ \E a \in Rows : f \in refs[a]
                      \/ \E r \in Requests : f \in InHand(r)
                      \/ f \in left

\* An organisation is mailed about a threshold once until its usage has been
\* seen below all of them; a job that overlaps another, or dies or is rejected
\* between the mail and the mark, repeats itself (warnStorageNearLimit).
OneMailPerRise ==
  [][\A r \in Requests :
       (Notify(r) /\ req[r].pct > req[r].seen /\ ~overlapped /\ ~unmarked) => req[r].pct > mailed]_vars

\* A sweep that runs alone leaves no object without a row (organizations.controller:
\* "Reconciliar archivos huerfanos de storage").
SweepLeavesNoOrphan ==
  [][\A r \in Requests : (DeleteOrphans(r) /\ ~overlapped) => objects' \subseteq stored]_vars
===============================================================================
