-------------------------- MODULE MaintenanceProofs --------------------------
(***************************************************************************)
(* Proofs about what keeps the uploads in order while the program runs on: *)
(* the attachment columns of a service (AttachmentSnapshot), for any       *)
(* uploads, writers, sweepers and additive sizes, and the lease of the     *)
(* hourly job (MaintenanceLock), for any runs and any TTL.                 *)
(***************************************************************************)
EXTENDS AttachmentSnapshot, MaintenanceLock, FiniteSetTheorems, TLAPS

(***************************************************************************)
(* AttachmentSnapshot.  Attachments are only added, so whatever a refresh  *)
(* has counted or summed was true once and is not too much later; that is  *)
(* the part of the invariant that is about refreshes under way.            *)
(***************************************************************************)
Ref == [pc : {"idle", "reading", "writing"}, todo : SUBSET Queries,
        seen : [Uploads -> Status], bytes : Nat, count : Nat]

\* What a refresh has read is never ahead of the attachments.
ReadNeverAhead ==
  \A p \in Refreshers : /\ ref[p].count <= Cardinality(attached)
                        /\ ref[p].bytes <= Declared[attached]

SnapshotInv == TypeOK /\ ReadNeverAhead /\ ShownNeverAhead

-----------------------------------------------------------------------------
(* Sizes and counts of sets of uploads.                                    *)

LEMMA Measures ==
  ASSUME NEW S \in SUBSET Uploads
  PROVE  Declared[S] \in Nat /\ Cardinality(S) \in Nat /\ IsFiniteSet(S)
BY SnapshotAssumption, FS_Subset, FS_CardinalityType

\* More attachments are never fewer bytes.
LEMMA Monotone ==
  ASSUME NEW S \in SUBSET Uploads, NEW T \in SUBSET Uploads, S \subseteq T
  PROVE  Declared[S] <= Declared[T] /\ Cardinality(S) <= Cardinality(T)
<1>1. Declared[S] <= Declared[T]
  <2>1. T = S \union (T \ S) /\ S \intersect (T \ S) = {} /\ T \ S \in SUBSET Uploads
    OBVIOUS
  <2>2. Declared[S \union (T \ S)] = Declared[S] + Declared[T \ S]
    BY <2>1, SnapshotAssumption
  <2>3. Declared[T] = Declared[S] + Declared[T \ S]
    BY <2>1, <2>2
  <2> QED
    BY <2>1, <2>3, Measures
<1>2. Cardinality(S) <= Cardinality(T)
  BY FS_Subset, Measures
<1> QED
  BY <1>1, <1>2

LEMMA RestingType == Resting \in Ref
BY DEF Resting, Ref, Status

LEMMA RefreshingType ==
  ASSUME NEW p \in Refreshers, ref \in [Refreshers -> Ref]
  PROVE  /\ Refreshing(p) \in [Refreshers -> Ref]
         /\ Refreshing(p)[p].count = 0 /\ Refreshing(p)[p].bytes = 0
         /\ \A q \in Refreshers \ {p} : Refreshing(p)[q] = ref[q]
BY RestingType DEF Refreshing, Resting, Ref

\* The columns a refresh writes: its own count and sum, and counts of its rows.
LEMMA SnapshotType ==
  ASSUME NEW seen \in [Uploads -> Status], NEW bytes \in Nat, NEW count \in Nat
  PROVE  /\ Snapshot(seen, bytes, count) \in Shown
         /\ Snapshot(seen, bytes, count).ready = count
         /\ Snapshot(seen, bytes, count).bytesReady = bytes
<1> DEFINE in(S) == {u \in Uploads : seen[u] \in S}
           open == in(RowStatus \ {"CONFIRMED"})
<1>1. /\ Cardinality(in(Active)) \in Nat /\ Cardinality(in(Failed)) \in Nat
      /\ Cardinality(open) \in Nat /\ Declared[open] \in Nat
  BY Measures
<1>2. ShownFor(Cardinality(in(Active)), Cardinality(in(Failed)), count,
               count + Cardinality(open)) \in ShownStatus
  BY DEF ShownFor, ShownStatus
<1> QED
  BY <1>1, <1>2 DEF Snapshot, Shown

-----------------------------------------------------------------------------
LEMMA SnapshotInitially == Init => SnapshotInv
<1> SUFFICES ASSUME Init PROVE SnapshotInv
  OBVIOUS
<1>1. /\ {} \in SUBSET Uploads
      /\ Declared[{}] \in Nat /\ Cardinality({}) \in Nat
  BY Measures
<1>2. TypeOK
  BY RestingType, SnapshotAssumption DEF Init, TypeOK, Shown, ShownStatus, Status, Ref
<1>3. ReadNeverAhead /\ ShownNeverAhead
  BY <1>1 DEF Init, ReadNeverAhead, ShownNeverAhead, Resting
<1> QED
  BY <1>2, <1>3 DEF SnapshotInv

LEMMA Attachments ==
  ASSUME SnapshotInv
  PROVE  /\ attached \in SUBSET Uploads
         /\ Declared[attached] \in Nat /\ Cardinality(attached) \in Nat
         /\ ref \in [Refreshers -> Ref] /\ status \in [Uploads -> Status]
         /\ shown \in Shown /\ faults \in Nat
BY Measures, SnapshotAssumption DEF SnapshotInv, TypeOK, Ref

LEMMA ChangeKeeps ==
  ASSUME SnapshotInv, NEW p \in Refreshers, NEW u \in Uploads, NEW s \in Written, Change(p, u, s)
  PROVE  SnapshotInv'
<1>1. status' \in [Uploads -> Status]
  BY SnapshotAssumption, Attachments DEF Change, Status
<1>2. attached \subseteq attached' /\ attached' \in SUBSET Uploads
  BY Attachments DEF Change
<1>3. /\ Declared[attached] <= Declared[attached']
      /\ Cardinality(attached) <= Cardinality(attached')
      /\ Declared[attached'] \in Nat /\ Cardinality(attached') \in Nat
  BY <1>2, Monotone, Measures, Attachments
<1>4. ref' = Refreshing(p) /\ UNCHANGED <<shown, faults>>
  BY DEF Change
<1>5. TypeOK'
  BY <1>1, <1>2, <1>4, RefreshingType, Attachments DEF SnapshotInv, TypeOK, Ref
<1>6. ReadNeverAhead'
  <2> SUFFICES ASSUME NEW q \in Refreshers
               PROVE  /\ ref'[q].count <= Cardinality(attached')
                      /\ ref'[q].bytes <= Declared[attached']
    BY DEF ReadNeverAhead
  <2>1. CASE q = p
    BY <2>1, <1>3, <1>4, RefreshingType, Attachments
  <2>2. CASE q # p
    <3>1. ref'[q] = ref[q] /\ ref[q].count \in Nat /\ ref[q].bytes \in Nat
      BY <2>2, <1>4, RefreshingType, Attachments DEF Ref
    <3>2. ref[q].count <= Cardinality(attached) /\ ref[q].bytes <= Declared[attached]
      BY DEF SnapshotInv, ReadNeverAhead
    <3> QED
      BY <3>1, <3>2, <1>3, Attachments
  <2> QED
    BY <2>1, <2>2
<1>7. ShownNeverAhead'
  BY <1>3, <1>4, Attachments DEF SnapshotInv, ShownNeverAhead, Shown
<1> QED
  BY <1>5, <1>6, <1>7 DEF SnapshotInv

LEMMA SweepKeeps ==
  ASSUME SnapshotInv, NEW p \in Refreshers, Sweep(p)
  PROVE  SnapshotInv'
<1>1. ref' = Refreshing(p) /\ UNCHANGED <<status, attached, shown, faults>>
  BY DEF Sweep
<1>2. TypeOK' /\ ShownNeverAhead'
  BY <1>1, RefreshingType, Attachments DEF SnapshotInv, TypeOK, ShownNeverAhead, Ref
<1>3. ReadNeverAhead'
  BY <1>1, RefreshingType, Attachments DEF SnapshotInv, ReadNeverAhead
<1> QED
  BY <1>2, <1>3 DEF SnapshotInv

LEMMA QueryKeeps ==
  ASSUME SnapshotInv, NEW p \in Refreshers, NEW q \in Queries, Query(p, q)
  PROVE  SnapshotInv'
<1>1. UNCHANGED <<status, attached, shown, faults>>
  BY DEF Query
<1> DEFINE next == [ref[p] EXCEPT
                      !.pc = IF ref[p].todo = {q} THEN "writing" ELSE "reading",
                      !.todo = @ \ {q},
                      !.seen = IF q = "uploads" THEN status ELSE @,
                      !.bytes = IF q = "sum" THEN Declared[attached] ELSE @,
                      !.count = IF q = "count" THEN Cardinality(attached) ELSE @]
<1>2. ref' = [ref EXCEPT ![p] = next]
  BY Attachments DEF Query
<1>3. /\ next \in Ref
      /\ next.count \in {ref[p].count, Cardinality(attached)}
      /\ next.bytes \in {ref[p].bytes, Declared[attached]}
  BY Attachments DEF Ref
<1>4. TypeOK' /\ ShownNeverAhead'
  BY <1>1, <1>2, <1>3, Attachments DEF SnapshotInv, TypeOK, ShownNeverAhead, Ref
<1>5. ReadNeverAhead'
  <2> SUFFICES ASSUME NEW x \in Refreshers
               PROVE  /\ ref'[x].count <= Cardinality(attached)
                      /\ ref'[x].bytes <= Declared[attached]
    BY <1>1 DEF ReadNeverAhead
  <2>1. ref[x].count <= Cardinality(attached) /\ ref[x].bytes <= Declared[attached]
    BY DEF SnapshotInv, ReadNeverAhead
  <2>2. CASE x = p
    <3>1. ref'[x] = next
      BY <1>2, <2>2, Attachments
    <3> HIDE DEF next
    <3> QED
      BY <3>1, <2>1, <2>2, <1>3, Attachments
  <2>3. CASE x # p
    BY <1>2, <2>1, <2>3, Attachments
  <2> QED
    BY <2>2, <2>3
<1> QED
  BY <1>4, <1>5 DEF SnapshotInv

LEMMA WriteKeeps ==
  ASSUME SnapshotInv, NEW p \in Refreshers, Write(p)
  PROVE  SnapshotInv'
<1>1. ref[p].seen \in [Uploads -> Status] /\ ref[p].bytes \in Nat /\ ref[p].count \in Nat
  BY Attachments DEF Ref
<1>2. /\ shown' \in Shown
      /\ shown'.ready = ref[p].count /\ shown'.bytesReady = ref[p].bytes
  BY <1>1, SnapshotType DEF Write
<1>3. ref' = [ref EXCEPT ![p] = Resting] /\ UNCHANGED <<status, attached, faults>>
  BY DEF Write
<1>4. TypeOK'
  BY <1>2, <1>3, RestingType, Attachments DEF SnapshotInv, TypeOK, Ref
<1>5. ReadNeverAhead'
  BY <1>3, Attachments DEF SnapshotInv, ReadNeverAhead, Resting
<1>6. ShownNeverAhead'
  BY <1>2, <1>3 DEF SnapshotInv, ReadNeverAhead, ShownNeverAhead
<1> QED
  BY <1>4, <1>5, <1>6 DEF SnapshotInv

LEMMA AbandonKeeps ==
  ASSUME SnapshotInv, NEW p \in Refreshers, Abandon(p)
  PROVE  SnapshotInv'
<1>1. /\ ref' = [ref EXCEPT ![p] = Resting] /\ UNCHANGED <<status, attached, shown>>
      /\ faults' = faults + 1 /\ faults < MaxFaults
  BY DEF Abandon
<1>2. faults' \in 0 .. MaxFaults
  BY <1>1, SnapshotAssumption, Attachments
<1>3. TypeOK' /\ ShownNeverAhead'
  BY <1>1, <1>2, RestingType, Attachments DEF SnapshotInv, TypeOK, ShownNeverAhead, Ref
<1>4. ReadNeverAhead'
  BY <1>1, Attachments DEF SnapshotInv, ReadNeverAhead, Resting
<1> QED
  BY <1>3, <1>4 DEF SnapshotInv

LEMMA SnapshotStep == SnapshotInv /\ [Next]_vars => SnapshotInv'
<1> SUFFICES ASSUME SnapshotInv, [Next]_vars PROVE SnapshotInv'
  OBVIOUS
<1>1. CASE Next
  <2> PICK p \in Refreshers :
        \/ \E u \in Uploads, s \in Written : Change(p, u, s)
        \/ Sweep(p) \/ Refresh(p) \/ Abandon(p)
    BY <1>1 DEF Next
  <2> QED
    BY ChangeKeeps, SweepKeeps, QueryKeeps, WriteKeeps, AbandonKeeps DEF Refresh
<1>2. CASE UNCHANGED vars
  BY <1>2 DEF vars, SnapshotInv, TypeOK, ReadNeverAhead, ShownNeverAhead
<1> QED
  BY <1>1, <1>2

LEMMA SnapshotInvariant == Spec => []SnapshotInv
BY SnapshotInitially, SnapshotStep, PTL DEF Spec

\* The state of the model keeps its type.
THEOREM SnapshotTypeCorrect == Spec => []TypeOK
<1>1. SnapshotInv => TypeOK
  BY DEF SnapshotInv
<1> QED
  BY <1>1, SnapshotInvariant, PTL

\* The page never shows more videos or bytes than are attached, however many
\* handlers and reconciliations refresh one service at once
\* (refreshServiceAttachmentSnapshot).
THEOREM PageNeverAhead == Spec => []ShownNeverAhead
<1>1. SnapshotInv => ShownNeverAhead
  BY DEF SnapshotInv
<1> QED
  BY <1>1, SnapshotInvariant, PTL

(***************************************************************************)
(* MaintenanceLock.                                                        *)
(***************************************************************************)
\* A working run within its TTL is the lease's owner, and the lease has
\* exactly the rest of the TTL left.
LeaseMatchesAge ==
  \A r \in Runs :
    pc[r] \in Working /\ age[r] <= TTL => lease.by = r /\ lease.left = TTL - age[r]

LockInv == LockTypeOK /\ LeaseMatchesAge /\ NothingHeldAfterFinally

LEMMA LockTypeInit == LockInit => LockTypeOK
BY RunsAssumption, TTLAssumption DEF LockInit, LockTypeOK, Over, RunStatus

LEMMA LockTypeStep == LockTypeOK /\ [LockNext]_job => LockTypeOK'
<1> SUFFICES ASSUME LockTypeOK, [LockNext]_job PROVE LockTypeOK'
  OBVIOUS
<1> USE RunsAssumption, TTLAssumption DEF LockTypeOK, Working, InTry, Stages, Over, RunStatus
<1>1. CASE Tick
  BY <1>1 DEF Tick, Free
<1>2. ASSUME NEW r \in Runs, Acquire(r) PROVE LockTypeOK'
  BY <1>2 DEF Acquire
<1>3. ASSUME NEW r \in Runs, Skip(r) PROVE LockTypeOK'
  BY <1>3 DEF Skip
<1>4. ASSUME NEW r \in Runs, CreateRow(r) PROVE LockTypeOK'
  BY <1>4 DEF CreateRow
<1>5. ASSUME NEW r \in Runs, StageDone(r) PROVE LockTypeOK'
  <2>1. NextStage(pc[r]) \in {"sync", "reconcile", "succeed"}
    BY <1>5 DEF StageDone, NextStage
  <2> QED
    BY <1>5, <2>1 DEF StageDone
<1>6. ASSUME NEW r \in Runs, Succeed(r) PROVE LockTypeOK'
  BY <1>6 DEF Succeed
<1>7. ASSUME NEW r \in Runs, RecordFailure(r) PROVE LockTypeOK'
  BY <1>7 DEF RecordFailure
<1>8. ASSUME NEW r \in Runs, Release(r) PROVE LockTypeOK'
  BY <1>8 DEF Release, LeaseAfterRelease
<1>9. ASSUME NEW r \in Runs, CreateRowThrows(r) PROVE LockTypeOK'
  BY <1>9 DEF CreateRowThrows
<1>10. ASSUME NEW r \in Runs, StageThrows(r) PROVE LockTypeOK'
  BY <1>10 DEF StageThrows
<1>11. ASSUME NEW r \in Runs, Crash(r) PROVE LockTypeOK'
  BY <1>11 DEF Crash
<1>12. CASE UNCHANGED job
  BY <1>12 DEF job
<1> QED
  BY <1>1, <1>2, <1>3, <1>4, <1>5, <1>6, <1>7, <1>8, <1>9, <1>10, <1>11,
     <1>12 DEF LockNext, RunStep

\* Every state of the specification has variables of their types: the lease
\* row, each run's program point, its age and its maintenance row.
THEOREM LockTypeCorrect == LockSpec => []LockTypeOK
BY LockTypeInit, LockTypeStep, PTL DEF LockSpec

LEMMA LockInitially == LockInit => LockInv
<1> SUFFICES ASSUME LockInit PROVE LockInv
  OBVIOUS
<1> USE RunsAssumption, TTLAssumption
<1>1. LockTypeOK
  BY LockTypeInit
<1>2. \A r \in Runs : pc[r] = "idle"
  BY DEF LockInit
<1> QED
  BY <1>1, <1>2 DEF LockInv, LeaseMatchesAge, NothingHeldAfterFinally, Working,
     InTry, Stages

\* Steps of a run that leave the lease and the ages alone, and neither start
\* a run nor end one through the finally, keep both parts of the invariant.
LEMMA LockQuiet ==
  ASSUME LockInv, NEW r \in Runs, NEW p,
         pc' = [pc EXCEPT ![r] = p], UNCHANGED <<lease, age>>,
         p \in Working => pc[r] \in Working,
         p # "ended"
  PROVE  LeaseMatchesAge' /\ NothingHeldAfterFinally'
BY DEF LockInv, LockTypeOK, LeaseMatchesAge, NothingHeldAfterFinally, Free

LEMMA LockStep == LockInv /\ [LockNext]_job => LockInv'
<1> SUFFICES ASSUME LockInv, [LockNext]_job PROVE LeaseMatchesAge' /\ NothingHeldAfterFinally' /\ LockTypeOK'
  BY DEF LockInv
<1> USE RunsAssumption, TTLAssumption
<1>t. LockTypeOK /\ LockTypeOK'
  BY LockTypeStep DEF LockInv
<1>1. CASE Tick
  BY <1>1, <1>t DEF LockInv, LockTypeOK, Tick, Free, LeaseMatchesAge, NothingHeldAfterFinally
<1>2. ASSUME NEW r \in Runs, Acquire(r) PROVE LeaseMatchesAge' /\ NothingHeldAfterFinally'
  \* The old lease is over, so no run still working is within its TTL.
  <2>1. \A q \in Runs : pc[q] \in Working => age[q] > TTL
    BY <1>2, <1>t DEF LockInv, LockTypeOK, Acquire, Free, LeaseMatchesAge
  <2> QED
    BY <1>2, <1>t, <2>1
       DEF LockInv, LockTypeOK, Acquire, Free, LeaseMatchesAge, NothingHeldAfterFinally,
           Working, InTry, Stages
<1>3. ASSUME NEW r \in Runs, Release(r) PROVE LeaseMatchesAge' /\ NothingHeldAfterFinally'
  <2>1. pc'[r] = "ended" /\ \A q \in Runs : q # r => pc'[q] = pc[q]
    BY <1>3, <1>t DEF Release, LockTypeOK
  <2>2. lease'.by = lease.by
    BY <1>3, <1>t DEF Release, LeaseAfterRelease, LockTypeOK
  <2>3. lease.by = r => lease'.left = -1
    BY <1>3, <1>t DEF Release, LeaseAfterRelease, LockTypeOK
  <2>4. lease.by # r => lease' = lease
    BY <1>3 DEF Release, LeaseAfterRelease
  <2>5. age' = age
    BY <1>3 DEF Release
  <2>6. LeaseMatchesAge'
    BY <2>1, <2>4, <2>5 DEF LockInv, LeaseMatchesAge, Working, InTry, Stages
  <2>7. NothingHeldAfterFinally'
    BY <2>1, <2>2, <2>3, <2>4 DEF LockInv, NothingHeldAfterFinally, Free
  <2> QED
    BY <2>6, <2>7
<1>4. ASSUME NEW r \in Runs,
             Skip(r) \/ CreateRow(r) \/ CreateRowThrows(r)
      PROVE  LeaseMatchesAge' /\ NothingHeldAfterFinally'
  BY <1>4, LockQuiet DEF Skip, CreateRow, CreateRowThrows, Working, InTry, Stages
<1>5. ASSUME NEW r \in Runs, StageDone(r)
      PROVE  LeaseMatchesAge' /\ NothingHeldAfterFinally'
  <2>1. NextStage(pc[r]) # "ended"
    BY <1>5 DEF StageDone, NextStage, Stages
  <2>2. pc[r] \in Working
    BY <1>5 DEF StageDone, Working, InTry
  <2> QED
    BY <1>5, <2>1, <2>2, LockQuiet DEF StageDone
<1>6. ASSUME NEW r \in Runs,
             Succeed(r) \/ RecordFailure(r) \/ StageThrows(r) \/ Crash(r)
      PROVE  LeaseMatchesAge' /\ NothingHeldAfterFinally'
  <2>1. pc[r] \in Working
    BY <1>6 DEF Succeed, RecordFailure, StageThrows, Crash, Working, InTry
  <2> QED
    BY <1>6, <2>1, LockQuiet DEF Succeed, RecordFailure, StageThrows, Crash
<1>7. CASE UNCHANGED job
  BY <1>7, <1>t DEF LockInv, job, LeaseMatchesAge, NothingHeldAfterFinally, Free
<1> QED
  <2>1. CASE LockNext
    BY <2>1, <1>t, <1>1, <1>2, <1>3, <1>4, <1>5, <1>6 DEF LockNext, RunStep
  <2> QED
    BY <2>1, <1>t, <1>7

LEMMA LockInvariant == LockSpec => []LockInv
BY LockInitially, LockStep, PTL DEF LockSpec

\* Two runs overlap only when one of them outlived its lease, whatever the
\* number of replicas, the lease and the crashes.
THEOREM NoOverlapWithinTTL == LockSpec => []OverlapNeedsExpiry
<1>1. LockInv => OverlapNeedsExpiry
  BY TTLAssumption DEF LockInv, LockTypeOK, LeaseMatchesAge, OverlapNeedsExpiry
<1> QED
  BY <1>1, LockInvariant, PTL

\* A run that left through its finally holds no lease.
THEOREM FinallyReleases == LockSpec => []NothingHeldAfterFinally
<1>1. LockInv => NothingHeldAfterFinally
  BY DEF LockInv
<1> QED
  BY <1>1, LockInvariant, PTL

\* No step of another run takes the lease of a run working within its TTL.
THEOREM OwnerKeepsLease == LockSpec => LeaseNotStolen
<1>1. LockTypeOK /\ [LockNext]_job =>
        [\A r \in Runs :
           lease.by = r /\ lease.left > 0 /\ pc[r] \in Working /\ pc'[r] \in Working
             => lease'.by = r /\ lease'.left >= 0]_job
  <2> SUFFICES ASSUME LockTypeOK, LockNext, NEW r \in Runs,
                      lease.by = r, lease.left > 0, pc[r] \in Working, pc'[r] \in Working
               PROVE  lease'.by = r /\ lease'.left >= 0
    OBVIOUS
  <2>1. ~Free /\ lease.left \in Int
    BY TTLAssumption DEF Free, LockTypeOK
  <2>2. CASE Tick
    BY <2>1, <2>2 DEF Tick, LockTypeOK
  <2>3. ASSUME NEW q \in Runs, Release(q) PROVE lease'.by = r /\ lease'.left >= 0
    <3>1. q # r
      BY <2>3 DEF Release, LockTypeOK, Working, InTry, Stages
    <3> QED
      BY <2>1, <2>3, <3>1 DEF Release, LeaseAfterRelease
  <2>4. CASE UNCHANGED lease
    BY <2>1, <2>4
  <2> QED
    BY <2>1, <2>2, <2>3, <2>4
       DEF LockNext, RunStep, Acquire, Skip, CreateRow, StageDone, Succeed,
           RecordFailure, CreateRowThrows, StageThrows, Crash
<1> QED
  BY <1>1, LockTypeCorrect, PTL DEF LockSpec, LeaseNotStolen
==============================================================================
