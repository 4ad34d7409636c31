-------------------------- MODULE AttachmentSnapshot --------------------------
(***************************************************************************)
(* The attachment columns of a Service row, which the pages show, and their*)
(* recomputation: refreshServiceAttachmentSnapshot in                      *)
(* backend/src/uploads/uploads.service.ts.                                 *)
(*                                                                         *)
(* Every handler of module Uploads changes upload rows first and refreshes *)
(* the columns afterwards, outside any transaction: three queries, in no   *)
(* fixed order, and one update.  Here a writer makes some change such a    *)
(* handler may make and then refreshes; a sweeper is the reconciliation,   *)
(* which refreshes every service without changing a row.                   *)
(***************************************************************************)
EXTENDS Integers, FiniteSets

CONSTANTS Uploads,   \* the uploads of the service
          Writers,   \* handlers that change a row and then refresh
          Sweepers,  \* reconciliations of the organisation
          Declared,  \* declared bytes of a set of uploads, summed
          Written,   \* bound: the statuses the handlers write
          MaxFaults  \* bound: handlers that die before their refresh is done

Active == {"PENDING", "UPLOADING", "UPLOADED"}
Failed == {"FAILED", "EXPIRED"}
RowStatus == Active \union Failed \union {"CONFIRMED", "CANCELLED"}
Status == RowStatus \union {"NONE"}
ShownStatus == {"NONE", "UPLOADING", "PARTIALLY_READY", "READY", "FAILED"}
Queries == {"uploads", "sum", "count"}
Refreshers == Writers \union Sweepers

ASSUME SnapshotAssumption ==
  /\ IsFiniteSet(Uploads)
  /\ Writers \intersect Sweepers = {}
  /\ Declared \in [SUBSET Uploads -> Nat]
  /\ \A S, T \in SUBSET Uploads :
       S \intersect T = {} => Declared[S \union T] = Declared[S] + Declared[T]
  /\ Written \subseteq RowStatus
  /\ MaxFaults \in Nat

VARIABLES status,    \* FileUpload.status of each upload, "NONE" without a row
          attached,  \* uploads that have a ServiceAttachment
          shown,     \* the attachment columns of the service
          ref,       \* the refreshes: the queries still to come, their results
          faults     \* handlers that died so far

vars == <<status, attached, shown, ref, faults>>

Shown == [status : ShownStatus, pending : Nat, failed : Nat, ready : Nat,
          total : Nat, bytesReady : Nat]

Resting == [pc |-> "idle", todo |-> {}, seen |-> [u \in Uploads |-> "NONE"],
            bytes |-> 0, count |-> 0]

TypeOK ==
  /\ status \in [Uploads -> Status]
  /\ attached \subseteq Uploads
  /\ shown \in Shown
  /\ ref \in [Refreshers ->
       [pc : {"idle", "reading", "writing"}, todo : SUBSET Queries,
        seen : [Uploads -> Status], bytes : Nat, count : Nat]]
  /\ faults \in 0 .. MaxFaults

Init ==
  /\ status = [u \in Uploads |-> "NONE"]
  /\ attached = {}
  /\ shown = [status |-> "NONE", pending |-> 0, failed |-> 0, ready |-> 0,
              total |-> 0, bytesReady |-> 0]
  /\ ref = [p \in Refreshers |-> Resting]
  /\ faults = 0

-----------------------------------------------------------------------------
\* What the columns become, from the rows and sums that the queries returned.
ShownFor(active, failed, ready, expected) ==
  CASE active > 0 /\ ready = 0                -> "UPLOADING"
    [] active > 0 /\ ready > 0                -> "PARTIALLY_READY"
    [] active = 0 /\ failed > 0 /\ ready > 0  -> "PARTIALLY_READY"
    [] active = 0 /\ failed > 0 /\ ready = 0  -> "FAILED"
    [] active = 0 /\ failed = 0 /\ expected > 0 -> "READY"
    [] OTHER                                  -> "NONE"

\* Mutant: the confirmed uploads are added to the sum of the attachments.
SnapshotTwice(seen, bytes, count) ==
  [status |-> "READY", pending |-> 0, failed |-> 0, ready |-> count,
   total |-> bytes,
   bytesReady |-> bytes + Declared[{u \in Uploads : seen[u] = "CONFIRMED"}]]

Snapshot(seen, bytes, count) ==
  LET in(S) == {u \in Uploads : seen[u] \in S}
      open == in(RowStatus \ {"CONFIRMED"})
      active == Cardinality(in(Active))
      failed == Cardinality(in(Failed))
  IN  [status     |-> ShownFor(active, failed, count, count + Cardinality(open)),
       pending    |-> active,
       failed     |-> failed,
       ready      |-> count,
       total      |-> Declared[open] + bytes,
       bytesReady |-> bytes]

Refreshing(p) == [ref EXCEPT ![p] = [Resting EXCEPT !.pc = "reading", !.todo = Queries]]

\* A committed change of an upload row.  The handlers update the row whatever
\* its status has become, except that they attach an upload only once.
Change(p, u, s) ==
  /\ p \in Writers
  /\ ref[p].pc = "idle"
  /\ status[u] = "NONE" => s = "PENDING"
  /\ status' = [status EXCEPT ![u] = s]
  /\ IF s = "CONFIRMED"
     THEN u \notin attached /\ attached' = attached \union {u}
     ELSE UNCHANGED attached
  /\ ref' = Refreshing(p)
  /\ UNCHANGED <<shown, faults>>

\* Mutant: reconciliation only refreshes a service with an upload under way.
SweepActive(p) ==
  /\ p \in Sweepers
  /\ ref[p].pc = "idle"
  /\ \E u \in Uploads : status[u] \in Active
  /\ ref' = Refreshing(p)
  /\ UNCHANGED <<status, attached, shown, faults>>

Sweep(p) ==
  /\ p \in Sweepers
  /\ ref[p].pc = "idle"
  /\ ref' = Refreshing(p)
  /\ UNCHANGED <<status, attached, shown, faults>>

\* Promise.all of findMany, aggregate and count.
Query(p, q) ==
  /\ ref[p].pc = "reading"
  /\ q \in ref[p].todo
  /\ ref' = [ref EXCEPT
       ![p].pc = IF ref[p].todo = {q} THEN "writing" ELSE "reading",
       ![p].todo = @ \ {q},
       ![p].seen = IF q = "uploads" THEN status ELSE @,
       ![p].bytes = IF q = "sum" THEN Declared[attached] ELSE @,
       ![p].count = IF q = "count" THEN Cardinality(attached) ELSE @]
  /\ UNCHANGED <<status, attached, shown, faults>>

Write(p) ==
  /\ ref[p].pc = "writing"
  /\ shown' = Snapshot(ref[p].seen, ref[p].bytes, ref[p].count)
  /\ ref' = [ref EXCEPT ![p] = Resting]
  /\ UNCHANGED <<status, attached, faults>>

\* The handler dies, or a query is rejected: the change stays, not refreshed.
Abandon(p) ==
  /\ ref[p].pc # "idle"
  /\ faults < MaxFaults
  /\ faults' = faults + 1
  /\ ref' = [ref EXCEPT ![p] = Resting]
  /\ UNCHANGED <<status, attached, shown>>

Refresh(p) == (\E q \in Queries : Query(p, q)) \/ Write(p)

Next ==
  \E p \in Refreshers :
    \/ \E u \in Uploads, s \in Written : Change(p, u, s)
    \/ Sweep(p) \/ Refresh(p) \/ Abandon(p)

Spec == Init /\ [][Next]_vars

(***************************************************************************)
(* A refresh that has begun ends unless it dies, and reconciliation keeps  *)
(* being scheduled.  Nobody has to change anything.                        *)
(***************************************************************************)
Fairness ==
  /\ \A p \in Refreshers : WF_vars(Refresh(p))
  /\ \A p \in Sweepers : WF_vars(Sweep(p))

FairSpec == Spec /\ Fairness

-----------------------------------------------------------------------------
\* The page never shows more videos, or more bytes, than are attached, however
\* many refreshes overlap and however old the queries they write are.
ShownNeverAhead ==
  /\ shown.ready <= Cardinality(attached)
  /\ shown.bytesReady <= Declared[attached]

\* What the columns should be.
Exact == Snapshot(status, Declared[attached], Cardinality(attached))

\* Refreshes that overtake each other or die leave old columns behind; once the
\* rows stop changing, reconciliation makes them exact, for good.
SnapshotConverges ==
  <>[](\A p \in Writers : ref[p].pc = "idle") => <>[](shown = Exact)
=============================================================================
