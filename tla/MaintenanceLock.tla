--------------------------- MODULE MaintenanceLock ---------------------------
(***************************************************************************)
(* The hourly upload maintenance job and the database lease that keeps two *)
(* replicas from running it at once:                                       *)
(*   backend/src/uploads/maintenance-lock.service.ts                       *)
(*   backend/src/uploads/upload-maintenance.service.ts (runHourlyMaintenance)*)
(*                                                                         *)
(* A member of Runs is one call of runHourlyMaintenance.  Each call makes  *)
(* its own owner id (randomUUID), so the run stands for its owner id; a    *)
(* run that is over may start again, as a later call with a new id, because*)
(* nothing acts for the old one any more.                                  *)
(*                                                                         *)
(* Time is kept relative to NOW(): lease.left is locked_until - NOW(), and *)
(* -1 stands for every moment in the past, the epoch that release() writes *)
(* included.                                                               *)
(***************************************************************************)
EXTENDS Integers

CONSTANTS Runs,   \* calls of runHourlyMaintenance, over all replicas
          TTL,    \* the lease, 55 * 60 s in the code, in clock ticks
          NoRun   \* locked_by of a lock row that does not exist yet

ASSUME RunsAssumption == NoRun \notin Runs
ASSUME TTLAssumption == TTL \in Nat

VARIABLES lease,  \* the MaintenanceJobLock row: [by, left]
          pc,     \* where each run is
          age,    \* ticks since the run acquired the lease, capped at TTL + 1
          row     \* the run's UploadMaintenanceRun row

job == <<lease, pc, age, row>>

\* The three jobs of the try block, in the order the code awaits them.
Stages == {"cleanup", "sync", "reconcile"}

\* Points inside the try/catch/finally: the run believes it owns the lease.
InTry == Stages \union {"succeed", "fail", "release"}

\* Points at which the run has the lease, the one before the try included.
Working == {"create_row"} \union InTry

\* "threw" is the exit that skips the finally, "crashed" a dead replica.
Over == {"idle", "skipped", "ended", "threw", "crashed"}

RunStatus == {"NONE", "RUNNING", "SUCCESS", "FAILED"}

LockTypeOK ==
  /\ lease \in [by : Runs \union {NoRun}, left : -1 .. TTL]
  /\ pc \in [Runs -> Working \union Over]
  /\ age \in [Runs -> 0 .. TTL + 1]
  /\ row \in [Runs -> RunStatus]

LockInit ==
  /\ lease = [by |-> NoRun, left |-> -1]
  /\ pc = [r \in Runs |-> "idle"]
  /\ age = [r \in Runs |-> 0]
  /\ row = [r \in Runs |-> "NONE"]

-----------------------------------------------------------------------------
\* WHERE "MaintenanceJobLock"."locked_until" < NOW(): also the missing row.
Free == lease.left < 0

\* Mutant: ON CONFLICT DO NOTHING, a row once written blocks for ever.
AcquireOnce(r) ==
  /\ pc[r] \in Over
  /\ lease.by = NoRun
  /\ lease' = [by |-> r, left |-> TTL]
  /\ pc' = [pc EXCEPT ![r] = "create_row"]
  /\ age' = [age EXCEPT ![r] = 0]
  /\ row' = [row EXCEPT ![r] = "NONE"]

\* INSERT ... ON CONFLICT DO UPDATE ... WHERE: one atomic statement.
Acquire(r) ==
  /\ pc[r] \in Over
  /\ Free
  /\ lease' = [by |-> r, left |-> TTL]
  /\ pc' = [pc EXCEPT ![r] = "create_row"]
  /\ age' = [age EXCEPT ![r] = 0]
  /\ row' = [row EXCEPT ![r] = "NONE"]

\* RETURNING gave no row: runHourlyMaintenance returns { status: 'skipped' }.
Skip(r) ==
  /\ pc[r] \in Over
  /\ ~Free
  /\ pc' = [pc EXCEPT ![r] = "skipped"]
  /\ row' = [row EXCEPT ![r] = "NONE"]
  /\ UNCHANGED <<lease, age>>

CreateRow(r) ==
  /\ pc[r] = "create_row"
  /\ row' = [row EXCEPT ![r] = "RUNNING"]
  /\ pc' = [pc EXCEPT ![r] = "cleanup"]
  /\ UNCHANGED <<lease, age>>

\* The create is awaited before the try: when it rejects, no finally runs.
CreateRowThrows(r) ==
  /\ pc[r] = "create_row"
  /\ pc' = [pc EXCEPT ![r] = "threw"]
  /\ UNCHANGED <<lease, age, row>>

NextStage(s) ==
  CASE s = "cleanup"   -> "sync"
    [] s = "sync"      -> "reconcile"
    [] s = "reconcile" -> "succeed"

StageDone(r) ==
  /\ pc[r] \in Stages
  /\ pc' = [pc EXCEPT ![r] = NextStage(pc[r])]
  /\ UNCHANGED <<lease, age, row>>

Succeed(r) ==
  /\ pc[r] = "succeed"
  /\ row' = [row EXCEPT ![r] = "SUCCESS"]
  /\ pc' = [pc EXCEPT ![r] = "release"]
  /\ UNCHANGED <<lease, age>>

\* A stage or the SUCCESS update rejects: the catch block is next.
StageThrows(r) ==
  /\ pc[r] \in Stages \union {"succeed"}
  /\ pc' = [pc EXCEPT ![r] = "fail"]
  /\ UNCHANGED <<lease, age, row>>

\* The catch block records FAILED; if that update rejects too, the finally
\* still runs and the row stays RUNNING.
RecordFailure(r) ==
  /\ pc[r] = "fail"
  /\ \/ row' = [row EXCEPT ![r] = "FAILED"]
     \/ UNCHANGED row
  /\ pc' = [pc EXCEPT ![r] = "release"]
  /\ UNCHANGED <<lease, age>>

\* Mutant: the where clause without locked_by.
ReleaseAnyOwner(r) == [lease EXCEPT !.left = -1]

\* updateMany where name and locked_by = ownerId: no row for another owner.
LeaseAfterRelease(r) ==
  IF lease.by = r THEN [lease EXCEPT !.left = -1] ELSE lease

Release(r) ==
  /\ pc[r] = "release"
  /\ lease' = LeaseAfterRelease(r)
  /\ pc' = [pc EXCEPT ![r] = "ended"]
  /\ UNCHANGED <<age, row>>

\* The replica dies, or the release statement itself is lost.
Crash(r) ==
  /\ pc[r] \in Working
  /\ pc' = [pc EXCEPT ![r] = "crashed"]
  /\ UNCHANGED <<lease, age, row>>

Tick ==
  /\ lease' = [lease EXCEPT !.left = IF Free THEN -1 ELSE @ - 1]
  /\ age' = [r \in Runs |-> IF age[r] > TTL THEN age[r] ELSE age[r] + 1]
  /\ UNCHANGED <<pc, row>>

RunStep(r) ==
  \/ CreateRow(r)
  \/ StageDone(r)
  \/ Succeed(r)
  \/ RecordFailure(r)
  \/ Release(r)

LockNext ==
  \/ Tick
  \/ \E r \in Runs :
       \/ Acquire(r) \/ Skip(r)
       \/ RunStep(r)
       \/ CreateRowThrows(r) \/ StageThrows(r) \/ Crash(r)

LockSpec == LockInit /\ [][LockNext]_job

(***************************************************************************)
(* The clock advances, a started call keeps executing, and the external    *)
(* scheduler behind scripts/upload-maintenance.ts keeps calling: as long as*)
(* some call could take the lease, one eventually does.                    *)
(***************************************************************************)
LockFairness ==
  /\ WF_job(Tick)
  /\ WF_job(\E r \in Runs : Acquire(r))
  /\ \A r \in Runs : WF_job(RunStep(r))

FairLockSpec == LockSpec /\ LockFairness

-----------------------------------------------------------------------------
\* Two runs do maintenance at the same time only if one of them has outlived
\* its lease.  In particular a run that overran and then reaches its finally
\* does not free the lease of the run that replaced it and let a third in.
OverlapNeedsExpiry ==
  \A r, q \in Runs :
    r # q /\ pc[r] \in Working /\ pc[q] \in Working => age[r] > TTL \/ age[q] > TTL

\* A run that left through the finally, after success or failure, holds
\* nothing: the lease is not kept until its TTL.
NothingHeldAfterFinally ==
  \A r \in Runs : pc[r] = "ended" /\ lease.by = r => Free

\* No step takes the lease away from a run that is working within its TTL:
\* only the owner's own step, or time, ends a lease.
LeaseNotStolen ==
  [][\A r \in Runs :
       lease.by = r /\ lease.left > 0 /\ pc[r] \in Working /\ pc'[r] \in Working
         => lease'.by = r /\ lease'.left >= 0]_job

\* Maintenance never stops for good: whatever crashed holding the lease, and
\* even after a call that threw before its try, some later call starts again.
MaintenanceRecurs == []<>(\E r \in Runs : pc[r] = "create_row")
=============================================================================
