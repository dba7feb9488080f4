------------------------ MODULE CollectionJobsProofs ------------------------
(***************************************************************************)
(* Proofs about CollectionJobs, for every number of workers, items, jobs   *)
(* and revisions and for every length of the timers.  The last part shows  *)
(* that CollectionJobs implements SourceSync.                              *)
(***************************************************************************)
EXTENDS CollectionRefinement, FiniteSetTheorems, TLAPS

(***************************************************************************)
(* Type correctness.                                                       *)
(***************************************************************************)
LEMMA ConstantRowTypes ==
  /\ AbsentJob \in Job /\ NoRun \in Run /\ NoSpool \in Spool
  /\ Idle \in WorkerState
BY DEF AbsentJob, NoRun, NoSpool, Idle, Job, Run, Spool, WorkerState, Status,
       ACTIVE, Finished, Outcome, PC, InSpool, NoJob

LEMMA Successors ==
  /\ \A r \in Job : r.generation + 1 \in Nat /\ r.attempts + 1 \in Nat
  /\ \A r \in Subscription : r.revision + 1 \in Nat
  /\ \A r \in Spool : r.base + 1 \in Nat
  /\ \A n \in Nat : Less(n) \in Nat
BY DEF Job, Subscription, Spool, Less

LEMMA JobUpdates ==
  ASSUME NEW r \in Job
  PROVE  /\ Stopped(r) \in Job
         /\ Cancelled(r) \in Job
         /\ Reopened(r) \in Job
         /\ \A w \in Worker : LeasedTo(w, r) \in Job
         /\ Delayed(r) \in Job
         /\ \A status \in Status : Settled(r, status) \in Job
<1> DEFINE g == r.generation + 1
           a == r.attempts + 1
<1>1. g \in Nat /\ a \in Nat
  BY Successors
<1>2. LeaseTTL \in Nat /\ RetryDelay \in Nat
      /\ {"pending", "cancelled", "running"} \subseteq Status
  BY BoundsAssumption DEF Status, ACTIVE
<1>3. [r EXCEPT !.status = "cancelled", !.generation = g] \in Job
  <2> HIDE DEF g
  <2> QED
    BY <1>1, <1>2 DEF Job
<1>4. [r EXCEPT !.status = "pending", !.attempts = 0, !.retry = 0,
                !.generation = g] \in Job
  <2> HIDE DEF g
  <2> QED
    BY <1>1, <1>2 DEF Job
<1>5. ASSUME NEW w \in Worker
      PROVE  [r EXCEPT !.status = "running", !.owner = w, !.retry = 0,
                !.attempts = a, !.generation = g, !.lease = LeaseTTL] \in Job
  <2> HIDE DEF g, a
  <2> QED
    BY <1>1, <1>2 DEF Job
<1>6. Stopped(r) \in Job
  BY <1>3 DEF Stopped
<1>7. Cancelled(r) \in Job
  BY <1>6 DEF Cancelled, Job
<1>8. Reopened(r) \in Job
  BY <1>4 DEF Reopened
<1>9. \A w \in Worker : LeasedTo(w, r) \in Job
  BY <1>5 DEF LeasedTo
<1>10. Delayed(r) \in Job
  BY <1>2 DEF Delayed, Job
<1>11. \A status \in Status : Settled(r, status) \in Job
  BY DEF Settled, Job
<1> QED
  BY <1>6, <1>7, <1>8, <1>9, <1>10, <1>11

LEMMA RowTypes ==
  ASSUME TypeOK
  PROVE  /\ NewJob \in Job
         /\ Paused \in Subscription
         /\ CancelledJobs \in [JobIds -> Job]
<1>1. NewJob \in Job
  BY ConstantRowTypes DEF TypeOK, NewJob, Job, Subscription, Status, ACTIVE
<1>2. Paused \in Subscription
  BY DEF TypeOK, Paused, Subscription
<1>3. CancelledJobs \in [JobIds -> Job]
  BY JobUpdates DEF TypeOK, CancelledJobs
<1> QED
  BY <1>1, <1>2, <1>3

LEMMA InitTypeOK == Init => TypeOK
<1> SUFFICES ASSUME Init PROVE TypeOK
  OBVIOUS
<1>1. sub \in Subscription
  BY BoundsAssumption DEF Init, Subscription
<1>2. AbsentJob \in Job /\ NoRun \in Run /\ NoSpool \in Spool
      /\ Idle \in WorkerState
  BY DEF AbsentJob, NoRun, NoSpool, Idle, Job, Run, Spool, WorkerState,
         Status, ACTIVE, Finished, Outcome, PC, InSpool, NoJob
<1>3. count \in 0..MaxJobs /\ request \in [Request -> 0..MaxJobs]
  BY BoundsAssumption DEF Init, NoJob
<1> QED
  BY <1>1, <1>2, <1>3 DEF Init, TypeOK

LEMMA CreateJobType ==
  ASSUME TypeOK, CreateJob
  PROVE  job' \in [JobIds -> Job] /\ count' \in 0..MaxJobs /\ count' = count + 1
BY RowTypes, BoundsAssumption DEF TypeOK, CreateJob, JobIds

LEMMA OwnerType == TypeOK /\ Owner => TypeOK'
<1> SUFFICES ASSUME TypeOK, Owner PROVE TypeOK'
  OBVIOUS
<1>1. ASSUME NEW r \in Request, Enqueue(r) PROVE TypeOK'
  <2>1. job' \in [JobIds -> Job] /\ count' \in 0..MaxJobs
    BY <1>1, CreateJobType DEF Enqueue, TypeOK
  <2>2. request' \in [Request -> 0..MaxJobs]
    BY <1>1, CreateJobType DEF Enqueue, TypeOK, ActiveJobs, JobIds
  <2> QED
    BY <1>1, <2>1, <2>2 DEF Enqueue, TypeOK
<1>2. CASE Cancel
  BY <1>2, RowTypes DEF Cancel, TypeOK
<1>3. ASSUME NEW n \in Intervals, EnableSchedule(n) PROVE TypeOK'
  BY <1>3, BoundsAssumption DEF EnableSchedule, TypeOK, Subscription
<1>4. ASSUME NEW n \in Intervals, DisableSchedule(n) PROVE TypeOK'
  <2>1. sub' \in Subscription
    BY <1>4, RowTypes DEF DisableSchedule, Subscription
  <2> QED
    BY <1>4, <2>1, RowTypes DEF DisableSchedule, TypeOK
<1>5. CASE UpdateDiscussions
  <2>1. sub' \in Subscription
    BY <1>5, RowTypes, Successors DEF UpdateDiscussions, Subscription, Paused
  <2> QED
    BY <1>5, <2>1, RowTypes DEF UpdateDiscussions, TypeOK
<1>6. CASE RetryFailed
  <2>1. job[count] \in Job
    BY <1>6 DEF RetryFailed, TypeOK, JobIds
  <2> QED
    BY <1>6, <2>1, JobUpdates DEF RetryFailed, TypeOK
<1>7. CASE DisableSource
  <2>1. job' \in [JobIds -> Job]
    BY <1>7, JobUpdates DEF DisableSource, TypeOK
  <2> QED
    BY <1>7, <2>1, RowTypes DEF DisableSource, TypeOK
<1>8. CASE EnableSource
  BY <1>8 DEF EnableSource, TypeOK
<1>9. CASE StartManual
  BY <1>9 DEF StartManual, TypeOK
<1>10. CASE FinishManual
  BY <1>10 DEF Concluded, FinishManual, TypeOK
<1> QED
  BY <1>1, <1>2, <1>3, <1>4, <1>5, <1>6, <1>7, <1>8, <1>9, <1>10 DEF Owner

LEMMA ScheduleType == TypeOK /\ ScheduleDue => TypeOK'
<1> SUFFICES ASSUME TypeOK, ScheduleDue PROVE TypeOK'
  OBVIOUS
<1>1. sub' \in Subscription
  <2>1. [sub EXCEPT !.due = sub.interval] \in Subscription
    BY BoundsAssumption DEF TypeOK, Subscription
  <2> QED
    BY <2>1, RowTypes DEF ScheduleDue
<1>2. job' \in [JobIds -> Job] /\ count' \in 0..MaxJobs
  BY RowTypes, CreateJobType DEF ScheduleDue, TypeOK
<1> QED
  BY <1>1, <1>2 DEF ScheduleDue, TypeOK

LEMMA TickType == TypeOK /\ Tick => TypeOK'
<1> SUFFICES ASSUME TypeOK, Tick PROVE TypeOK'
  OBVIOUS
<1>1. ASSUME NEW j \in JobIds
      PROVE  [job[j] EXCEPT !.retry = Less(@), !.lease = Less(@)] \in Job
  BY Successors DEF TypeOK, Job
<1>2. [sub EXCEPT !.due = Less(@)] \in Subscription
  BY Successors DEF TypeOK, Subscription
<1> QED
  BY <1>1, <1>2 DEF Tick, TypeOK

LEMMA FailType ==
  ASSUME TypeOK, NEW w \in Worker, NEW code \in {"transient", "fatal"},
         Fail(w, code)
  PROVE  TypeOK'
<1>1. [wk[w] EXCEPT !.pc = "failing", !.code = code, !.todo = {}]
        \in WorkerState
  BY DEF TypeOK, WorkerState, PC
<1> QED
  BY <1>1 DEF Fail, Released, TypeOK

LEMMA HoldsJob ==
  ASSUME TypeOK, NEW w \in Worker, Holds(w)
  PROVE  /\ wk[w].job \in JobIds
         /\ job[wk[w].job] \in Job
         /\ Renewed(w) \in Job
BY BoundsAssumption DEF TypeOK, Holds, Renewed, Job

LEMMA WorkType == ASSUME TypeOK, NEW w \in Worker, Work(w) PROVE TypeOK'
<1> DEFINE j == wk[w].job
<1>1. CASE Claim(w)
  <2>1. PICK k \in ActiveJobs :
          IF ~policy \/ job[k].revision # sub.revision
          THEN /\ job' = Refused(k)
               /\ sub' = IF policy THEN Paused ELSE sub
               /\ UNCHANGED wk
          ELSE IF Exhausted(k)
               THEN /\ job' = [job EXCEPT ![k] = Settled(@, "failed")]
                    /\ sub' = Paused
                    /\ UNCHANGED wk
               ELSE /\ job' = [job EXCEPT ![k] = LeasedTo(w, @)]
                    /\ wk' = [wk EXCEPT ![w] =
                                [Idle EXCEPT !.pc = "claimed", !.job = k,
                                   !.generation = job[k].generation + 1]]
                    /\ UNCHANGED sub
    BY <1>1 DEF Claim
  <2>2. k \in JobIds /\ k \in Nat /\ job[k] \in Job
    BY DEF ActiveJobs, TypeOK, JobIds
  <2>3. Stopped(job[k]) \in Job /\ LeasedTo(w, job[k]) \in Job
        /\ Settled(job[k], "failed") \in Job
    BY <2>2, JobUpdates DEF Status, Finished
  <2>4. Refused(k) \in [JobIds -> Job]
    BY <2>2, <2>3, RowTypes DEF Refused, TypeOK
  <2>5. [job EXCEPT ![k] = Settled(@, "failed")] \in [JobIds -> Job]
    BY <2>2, <2>3 DEF TypeOK
  <2>7. [job EXCEPT ![k] = LeasedTo(w, @)] \in [JobIds -> Job]
    BY <2>2, <2>3 DEF TypeOK
  <2>8. [Idle EXCEPT !.pc = "claimed", !.job = k,
                     !.generation = job[k].generation + 1] \in WorkerState
    BY <2>2, Successors, ConstantRowTypes DEF WorkerState, PC
  <2>9. job' \in [JobIds -> Job] /\ sub' \in Subscription
        /\ wk' \in [Worker -> WorkerState]
    BY <2>1, <2>4, <2>5, <2>7, <2>8, RowTypes DEF TypeOK
  <2> QED
    BY <1>1, <2>9 DEF Claim, TypeOK
<1>2. CASE TakeSpool(w)
  <2>1. spool' \in [JobIds -> Spool]
    BY <1>2, ConstantRowTypes DEF TakeSpool, TypeOK
  <2>2. wk' \in [Worker -> WorkerState]
    BY <1>2 DEF TakeSpool, TypeOK, WorkerState, PC, InSpool
  <2> QED
    BY <1>2, <2>1, <2>2 DEF TakeSpool, TypeOK
<1>3. CASE SpoolBusy(w)
  BY <1>3, FailType DEF SpoolBusy
<1>4. CASE OpenPreparation(w)
  <2>1. j \in JobIds /\ Renewed(w) \in Job
    BY <1>4, HoldsJob DEF OpenPreparation
  <2>2. [NoSpool EXCEPT !.state = "open", !.base = sub.progress] \in Spool
    BY ConstantRowTypes DEF TypeOK, Subscription, Spool
  <2>3. job' \in [JobIds -> Job] /\ spool' \in [JobIds -> Spool]
    BY <1>4, <2>1, <2>2 DEF OpenPreparation, TypeOK
  <2>4. wk' \in [Worker -> WorkerState]
    BY <1>4 DEF OpenPreparation, TypeOK, WorkerState, PC, InSpool
  <2> QED
    BY <1>4, <2>3, <2>4 DEF OpenPreparation, TypeOK
<1>5. CASE Heartbeat(w)
  BY <1>5, HoldsJob DEF Heartbeat, TypeOK
<1>6. CASE Prepared(w)
  <2>1. wk' \in [Worker -> WorkerState]
    BY <1>6 DEF Prepared, TypeOK, WorkerState, PC, InSpool
  <2> QED
    BY <1>6, <2>1, HoldsJob DEF Prepared, TypeOK
<1>7. CASE Seal(w)
  <2>1. wk' \in [Worker -> WorkerState]
    BY <1>7 DEF Seal, TypeOK, WorkerState, PC, InSpool
  <2>2. ASSUME NEW m \in Manifests, NEW d \in Spool
        PROVE  SealedWith(m, d) \in Spool
    <3> DEFINE items == m.items  invalid == m.invalid  gaps == m.gaps
    <3>1. items \in SUBSET Item /\ invalid \in SUBSET Item /\ gaps \in BOOLEAN
      BY ManifestsAssumption
    <3>2. [d EXCEPT !.state = "sealed", !.items = items, !.invalid = invalid,
                    !.gaps = gaps] \in Spool
      <4> HIDE DEF items, invalid, gaps
      <4> QED
        BY <3>1 DEF Spool
    <3> QED
      BY <3>2 DEF SealedWith
  <2>3. PICK m \in Manifests :
          spool' = [spool EXCEPT ![wk[w].job] = SealedWith(m, @)]
    BY <1>7 DEF Seal
  <2>4. \A k \in JobIds : SealedWith(m, spool[k]) \in Spool
    BY <2>2 DEF TypeOK
  <2>5. spool' \in [JobIds -> Spool]
    BY <2>3, <2>4 DEF TypeOK
  <2> QED
    BY <1>7, <2>1, <2>5 DEF Seal, TypeOK
<1>8. CASE CreateBatch(w)
  <2>1. j \in JobIds /\ Renewed(w) \in Job
    BY <1>8, HoldsJob DEF CreateBatch
  <2>2. spool[j].items \in SUBSET Item
    BY <2>1 DEF TypeOK, Spool
  <2>3. wk' \in [Worker -> WorkerState]
    BY ZenonT(60), <1>8, <2>2 DEF CreateBatch, TypeOK, WorkerState, PC, InSpool
  <2>4. [NoRun EXCEPT !.status = "active", !.expected = spool[j].items] \in Run
    BY <2>2, ConstantRowTypes DEF Run
  <2>5. run' \in [JobIds -> Run]
    BY <1>8, <2>4 DEF CreateBatch, TypeOK
  <2>6. [Renewed(w) EXCEPT !.bound = TRUE] \in Job
    BY <2>1 DEF Job
  <2>7. job' \in [JobIds -> Job]
    BY <1>8, <2>6 DEF CreateBatch, TypeOK
  <2> QED
    BY <1>8, <2>3, <2>5, <2>7 DEF CreateBatch, TypeOK
<1>9. ASSUME NEW i \in Item, IngestItem(w, i) PROVE TypeOK'
  <2>1. j \in JobIds /\ Renewed(w) \in Job
    BY <1>9, HoldsJob DEF IngestItem
  <2>2. ReceiptOf(j, i) \subseteq Outcome
    BY <2>1 DEF ReceiptOf, TypeOK, Run, Outcome
  <2>3. PICK o \in ReceiptOf(j, i) : run' = [run EXCEPT ![j].receipt[i] = o]
    BY <1>9 DEF IngestItem
  <2>4. run' \in [JobIds -> Run]
    BY <2>1, <2>2, <2>3 DEF TypeOK, Run
  <2>5. wk' \in [Worker -> WorkerState]
    BY <1>9 DEF IngestItem, TypeOK, WorkerState
  <2>6. job' \in [JobIds -> Job]
    BY <1>9, <2>1 DEF IngestItem, TypeOK
  <2> QED
    BY <1>9, <2>4, <2>5, <2>6 DEF IngestItem, TypeOK
<1>10. CASE Finish(w)
  <2>1. j \in JobIds /\ Renewed(w) \in Job
    BY <1>10, HoldsJob DEF Concluded, Finish
  <2>2. BatchStatus(j) \in Finished
    BY DEF BatchStatus, Finished
  <2>3. run' \in [JobIds -> Run]
    BY <1>10, <2>1, <2>2 DEF Concluded, Finish, TypeOK, Run
  <2>4. Settled(Renewed(w), BatchStatus(j)) \in Job
    BY <2>1, <2>2, JobUpdates DEF Status
  <2>5. job' \in [JobIds -> Job]
    BY <1>10, <2>1, <2>4 DEF Concluded, Finish, TypeOK
  <2>6. [sub EXCEPT !.progress = spool[j].base + 1] \in Subscription
    BY <2>1, Successors DEF TypeOK, Subscription
  <2>7. sub' \in Subscription
    BY <1>10, <2>6, RowTypes DEF Concluded, Finish
  <2> QED
    BY <1>10, <2>3, <2>5, <2>7, ConstantRowTypes DEF Concluded, Finish, Released, TypeOK
<1>11. CASE LoseLease(w)
  BY <1>11, FailType DEF LoseLease
<1>12. CASE ReportFailure(w)
  <2>1. CASE ~Holds(w)
    BY <1>12, <2>1, ConstantRowTypes DEF ReportFailure, TypeOK
  <2>2. CASE Holds(w)
    <3>1. j \in JobIds /\ Renewed(w) \in Job /\ job[j] \in Job
      BY <2>2, HoldsJob
    <3>2. Delayed(job[j]) \in Job
      BY <3>1, JobUpdates
    <3>3. Settled(Renewed(w), "failed") \in Job
      BY <3>1, JobUpdates DEF Status, Finished
    <3>4. job' \in [JobIds -> Job] /\ sub' \in Subscription
      BY <1>12, <2>2, <3>1, <3>2, <3>3, RowTypes DEF ReportFailure, TypeOK
    <3> QED
      BY <1>12, <3>4, ConstantRowTypes DEF ReportFailure, TypeOK
  <2> QED
    BY <2>1, <2>2
<1>13. ASSUME NEW code \in {"transient", "fatal"}, ProviderError(w, code)
       PROVE  TypeOK'
  BY <1>13, FailType DEF ProviderError
<1>14. CASE SpoolError(w)
  BY <1>14, FailType DEF SpoolError
<1>15. CASE Crash(w)
  BY <1>15, ConstantRowTypes DEF Crash, Released, TypeOK
<1> QED
  BY <1>1, <1>2, <1>3, <1>4, <1>5, <1>6, <1>7, <1>8, <1>9, <1>10, <1>11,
     <1>12, <1>13, <1>14, <1>15 DEF Work, Step

LEMMA NextTypeOK == TypeOK /\ [Next]_vars => TypeOK'
<1> SUFFICES ASSUME TypeOK, [Next]_vars PROVE TypeOK'
  OBVIOUS
<1>1. CASE UNCHANGED vars
  BY <1>1 DEF vars, TypeOK
<1>2. CASE Next
  BY <1>2, OwnerType, ScheduleType, WorkType, TickType DEF Next
<1> QED
  BY <1>1, <1>2

(***************************************************************************)
(* Every row and every worker state has its type in every reachable state. *)
(***************************************************************************)
THEOREM TypeCorrect == Spec => []TypeOK
BY InitTypeOK, NextTypeOK, PTL DEF Spec

-----------------------------------------------------------------------------
(***************************************************************************)
(* The inductive invariant.  RowInv speaks of the database rows only: the  *)
(* owner's calls, the schedule and the claims keep it by themselves.       *)
(* SpoolInv ties the rows to the spool and to where each worker is.        *)
(***************************************************************************)
FutureJobsAbsent == \A j \in JobIds : j > count => job[j].status = "absent"

RevisionsArePast == \A j \in JobIds : job[j].revision <= sub.revision

RowInv ==
  /\ FutureJobsAbsent
  /\ RevisionsArePast
  /\ ActiveIsLatest
  /\ DisabledSourceIsQuiet
  /\ ManualExcludesJobs
  /\ AttemptsBounded

FutureSpoolEmpty ==
  \A j \in JobIds : j > count => spool[j] = NoSpool /\ run[j] = NoRun

WorkerSeesSpool ==
  \A w \in Worker :
    /\ wk[w].pc # "idle" => wk[w].job \in 1..count
    /\ wk[w].pc = "open" => spool[wk[w].job].state # "sealed"
    /\ wk[w].pc \in {"prepare", "seal"} => spool[wk[w].job].state = "open"
    /\ wk[w].pc \in {"batch", "items"} => spool[wk[w].job].state = "sealed"
    /\ wk[w].pc = "items" => run[wk[w].job].status # "none"

SpoolInv ==
  /\ FutureSpoolEmpty
  /\ SpoolIsPrivate
  /\ WorkerSeesSpool
  /\ PreparedFromCurrentProgress
  /\ BatchHasItsManifest

LEMMA RowFields ==
  ASSUME NEW r \in Job
  PROVE  /\ Stopped(r).status = "cancelled" /\ Stopped(r).revision = r.revision
         /\ Stopped(r).attempts = r.attempts
         /\ Cancelled(r).status = "cancelled"
         /\ Cancelled(r).revision = r.revision
         /\ Cancelled(r).attempts = r.attempts
         /\ Reopened(r).status = "pending" /\ Reopened(r).revision = r.revision
         /\ Reopened(r).attempts = 0
         /\ \A w \in Worker :
              /\ LeasedTo(w, r).status = "running"
              /\ LeasedTo(w, r).revision = r.revision
              /\ LeasedTo(w, r).attempts = r.attempts + 1
         /\ Delayed(r).status = "pending" /\ Delayed(r).revision = r.revision
         /\ Delayed(r).attempts = r.attempts
         /\ \A status \in Status :
              /\ Settled(r, status).status = status
              /\ Settled(r, status).revision = r.revision
              /\ Settled(r, status).attempts = r.attempts
BY DEF Stopped, Cancelled, Reopened, LeasedTo, Delayed, Settled, Job

LEMMA RenewedFields ==
  ASSUME TypeOK, NEW w \in Worker, Holds(w)
  PROVE  LET j == wk[w].job IN
         /\ j \in JobIds /\ Active(j) /\ job[j].status = "running"
         /\ Renewed(w) \in Job
         /\ Renewed(w).status = job[j].status
         /\ Renewed(w).revision = job[j].revision
         /\ Renewed(w).attempts = job[j].attempts
BY BoundsAssumption, HoldsJob DEF TypeOK, Holds, Renewed, Job, Active, ACTIVE

\* Cancelling leaves no active job and touches neither revision nor attempts.
LEMMA CancelledFields ==
  ASSUME TypeOK, NEW j \in JobIds
  PROVE  /\ CancelledJobs[j].status =
              IF Active(j) THEN "cancelled" ELSE job[j].status
         /\ CancelledJobs[j].status \notin ACTIVE
         /\ CancelledJobs[j].revision = job[j].revision
         /\ CancelledJobs[j].attempts = job[j].attempts
BY RowFields DEF CancelledJobs, TypeOK, Active, ACTIVE

LEMMA NewJobFields ==
  /\ NewJob.status = "pending" /\ NewJob.revision = sub.revision
  /\ NewJob.attempts = 0
BY DEF NewJob, AbsentJob

LEMMA CreateJobRows ==
  ASSUME TypeOK, RowInv, CreateJob, policy, ~manual, ActiveJobs = {},
         policy' = policy, manual' = manual, sub'.revision = sub.revision
  PROVE  RowInv'
<1>1. count + 1 \in JobIds /\ count' = count + 1
  BY BoundsAssumption DEF TypeOK, CreateJob, JobIds
<1>2. \A j \in JobIds : job'[j] = IF j = count + 1 THEN NewJob ELSE job[j]
  BY <1>1 DEF CreateJob, TypeOK
<1>3. \A j \in JobIds : ~Active(j)
  BY DEF ActiveJobs
<1>4. sub.revision \in Nat
  BY DEF TypeOK, Subscription
<1>5. FutureJobsAbsent' /\ RevisionsArePast'
  BY SMTT(30), <1>1, <1>2, <1>4, NewJobFields
     DEF RowInv, FutureJobsAbsent, RevisionsArePast, JobIds, TypeOK
<1>6. ActiveIsLatest'
  BY <1>1, <1>2, <1>3, NewJobFields DEF ActiveIsLatest, Active
<1>7. DisabledSourceIsQuiet' /\ ManualExcludesJobs'
  BY DEF DisabledSourceIsQuiet, ManualExcludesJobs
<1>8. AttemptsBounded'
  BY <1>1, <1>2, NewJobFields, BoundsAssumption DEF RowInv, AttemptsBounded
<1> QED
  BY <1>5, <1>6, <1>7, <1>8 DEF RowInv

\* A step that leaves no job active keeps the row invariant if it keeps the
\* revisions and the attempts.
LEMMA QuietRows ==
  ASSUME TypeOK, RowInv, count' = count,
         sub'.revision \in Nat, sub'.revision >= sub.revision,
         \A j \in JobIds :
           /\ job'[j].status \notin ACTIVE
           /\ job[j].status = "absent" => job'[j].status = "absent"
           /\ job'[j].revision = job[j].revision
           /\ job'[j].attempts = job[j].attempts,
         ~policy' => ~sub'.enabled
  PROVE  RowInv'
<1>1. ActiveJobs' = {} /\ \A j \in JobIds : ~Active(j)'
  BY DEF ActiveJobs, Active
<1>2. \A j \in JobIds : job[j].revision \in Nat /\ sub.revision \in Nat
  BY DEF TypeOK, Job, Subscription
<1>3. RevisionsArePast'
  BY <1>2 DEF RowInv, RevisionsArePast
<1>4. FutureJobsAbsent' /\ AttemptsBounded'
  BY DEF RowInv, FutureJobsAbsent, AttemptsBounded
<1> QED
  BY <1>1, <1>3, <1>4
     DEF RowInv, ActiveIsLatest, DisabledSourceIsQuiet, ManualExcludesJobs

\* A step that changes at most the status of jobs that stay active, or that
\* settles them, keeps the row invariant.
LEMMA SettlingRows ==
  ASSUME TypeOK, RowInv, count' = count, policy' = policy, manual' = manual,
         sub'.revision = sub.revision, sub'.enabled => sub.enabled,
         \A j \in JobIds :
           /\ job'[j].status \in ACTIVE => Active(j)
           /\ job[j].status = "absent" => job'[j].status = "absent"
           /\ job'[j].revision = job[j].revision
           /\ job'[j].attempts <= MaxAttempts
  PROVE  RowInv'
<1>1. \A j \in JobIds : Active(j)' => Active(j)
  BY DEF Active
<1>2. ActiveJobs' \subseteq ActiveJobs
  BY <1>1 DEF ActiveJobs
<1>3. FutureJobsAbsent' /\ RevisionsArePast' /\ AttemptsBounded'
  BY DEF RowInv, FutureJobsAbsent, RevisionsArePast, AttemptsBounded
<1>4. ActiveIsLatest'
  BY <1>1 DEF RowInv, ActiveIsLatest
<1>5. DisabledSourceIsQuiet' /\ ManualExcludesJobs'
  BY <1>2 DEF RowInv, DisabledSourceIsQuiet, ManualExcludesJobs
<1> QED
  BY <1>3, <1>4, <1>5 DEF RowInv

LEMMA SameRows ==
  ASSUME RowInv, UNCHANGED <<policy, sub, job, count, manual>>
  PROVE  RowInv'
BY DEF RowInv, FutureJobsAbsent, RevisionsArePast, ActiveIsLatest, Active,
       ActiveJobs, DisabledSourceIsQuiet, ManualExcludesJobs, AttemptsBounded

LEMMA PausedFields ==
  ASSUME TypeOK
  PROVE  /\ Paused.revision = sub.revision /\ Paused.enabled = FALSE
         /\ sub.revision \in Nat
BY DEF TypeOK, Paused, Subscription

LEMMA CancelRows ==
  ASSUME TypeOK, RowInv, job' = CancelledJobs, count' = count,
         sub'.revision \in Nat, sub'.revision >= sub.revision,
         ~policy' => ~sub'.enabled
  PROVE  RowInv'
<1>1. ASSUME NEW j \in JobIds
      PROVE  /\ job'[j].status \notin ACTIVE
             /\ job[j].status = "absent" => job'[j].status = "absent"
             /\ job'[j].revision = job[j].revision
             /\ job'[j].attempts = job[j].attempts
  BY CancelledFields DEF Active, ACTIVE
<1> QED
  BY <1>1, QuietRows

LEMMA OwnerRows == TypeOK /\ RowInv /\ Owner => RowInv'
<1> SUFFICES ASSUME TypeOK, RowInv, Owner PROVE RowInv'
  OBVIOUS
<1>1. ASSUME NEW r \in Request, Enqueue(r) PROVE RowInv'
  <2>1. CASE ActiveJobs # {}
    BY <1>1, <2>1, SameRows DEF Enqueue
  <2>2. CASE ActiveJobs = {}
    BY <1>1, <2>2, CreateJobRows DEF Enqueue, CanEnqueue
  <2> QED
    BY <2>1, <2>2
<1>2. CASE Cancel
  <2>1. sub' = sub /\ policy' = policy /\ sub.revision \in Nat
    BY <1>2, PausedFields DEF Cancel
  <2>2. sub'.revision \in Nat /\ sub'.revision >= sub.revision
    BY <2>1
  <2>3. ~policy' => ~sub'.enabled
    BY <2>1 DEF RowInv, DisabledSourceIsQuiet
  <2> QED
    BY <1>2, <2>2, <2>3, CancelRows DEF Cancel
<1>3. ASSUME NEW n \in Intervals, EnableSchedule(n) PROVE RowInv'
  <2>1. sub'.revision = sub.revision /\ policy /\ policy'
    BY <1>3 DEF EnableSchedule, TypeOK, Subscription
  <2> QED
    BY <1>3, <2>1 DEF EnableSchedule, RowInv, FutureJobsAbsent,
       RevisionsArePast, ActiveIsLatest, Active, ActiveJobs,
       DisabledSourceIsQuiet, ManualExcludesJobs, AttemptsBounded
<1>4. ASSUME NEW n \in Intervals, DisableSchedule(n) PROVE RowInv'
  <2>1. sub'.revision = sub.revision /\ sub'.enabled = FALSE
    BY <1>4, RowTypes, PausedFields DEF DisableSchedule, Subscription
  <2> QED
    BY <1>4, <2>1, CancelRows, PausedFields DEF DisableSchedule
<1>5. CASE UpdateDiscussions
  <2>1. sub'.revision = sub.revision + 1 /\ sub'.enabled = FALSE
    BY <1>5, RowTypes, PausedFields DEF UpdateDiscussions, Subscription
  <2> QED
    BY <1>5, <2>1, CancelRows, PausedFields DEF UpdateDiscussions
<1>6. CASE RetryFailed
  <2>1. count \in JobIds /\ count \in Nat /\ job[count] \in Job
        /\ policy /\ ~manual /\ job[count].revision = sub.revision
    BY <1>6, BoundsAssumption DEF RetryFailed, CanEnqueue, TypeOK, JobIds
  <2>2. \A j \in JobIds :
          job'[j] = IF j = count THEN Reopened(job[j]) ELSE job[j]
    BY <1>6 DEF RetryFailed, TypeOK
  <2>3. FutureJobsAbsent' /\ RevisionsArePast' /\ AttemptsBounded'
    BY <1>6, <2>1, <2>2, RowFields, BoundsAssumption DEF RetryFailed, RowInv,
       FutureJobsAbsent, RevisionsArePast, AttemptsBounded
  <2>4. ActiveIsLatest'
    BY <1>6, <2>1, <2>2, RowFields DEF RetryFailed, RowInv, ActiveIsLatest,
       Active
  <2> QED
    BY <1>6, <2>1, <2>3, <2>4
       DEF RetryFailed, RowInv, DisabledSourceIsQuiet, ManualExcludesJobs
<1>7. CASE DisableSource
  <2>1. \A j \in JobIds : /\ job'[j].status \notin ACTIVE
                          /\ job[j].status = "absent"
                               => job'[j].status = "absent"
                          /\ job'[j].revision = job[j].revision
                          /\ job'[j].attempts = job[j].attempts
    BY <1>7, RowFields DEF DisableSource, TypeOK, Active, ACTIVE
  <2>2. sub'.revision = sub.revision /\ sub.revision \in Nat /\ ~sub'.enabled
        /\ count' = count
    BY <1>7, PausedFields DEF DisableSource
  <2>3. sub'.revision \in Nat /\ sub'.revision >= sub.revision
    BY <2>2
  <2> QED
    BY <2>1, <2>2, <2>3, QuietRows
<1>8. CASE EnableSource
  BY <1>8 DEF EnableSource, RowInv, FutureJobsAbsent, RevisionsArePast,
     ActiveIsLatest, Active, ActiveJobs, DisabledSourceIsQuiet,
     ManualExcludesJobs, AttemptsBounded
<1>9. CASE StartManual
  BY <1>9 DEF StartManual, RowInv, FutureJobsAbsent, RevisionsArePast,
     ActiveIsLatest, Active, ActiveJobs, DisabledSourceIsQuiet,
     ManualExcludesJobs, AttemptsBounded
<1>10. CASE FinishManual
  BY <1>10 DEF Concluded, FinishManual, RowInv, FutureJobsAbsent, RevisionsArePast,
     ActiveIsLatest, Active, ActiveJobs, DisabledSourceIsQuiet,
     ManualExcludesJobs, AttemptsBounded
<1> QED
  BY <1>1, <1>2, <1>3, <1>4, <1>5, <1>6, <1>7, <1>8, <1>9, <1>10 DEF Owner

LEMMA ScheduleRows == TypeOK /\ RowInv /\ ScheduleDue => RowInv'
<1> SUFFICES ASSUME TypeOK, RowInv, ScheduleDue PROVE RowInv'
  OBVIOUS
<1>1. CASE ~policy
  BY <1>1 DEF ScheduleDue, RowInv, DisabledSourceIsQuiet
<1>2. CASE policy
  <2>1. sub'.revision = sub.revision /\ sub'.enabled = sub.enabled
    BY <1>2 DEF ScheduleDue, TypeOK, Subscription
  <2>2. CASE ActiveJobs = {} /\ CanEnqueue
    BY <1>2, <2>1, <2>2, CreateJobRows DEF ScheduleDue, CanEnqueue
  <2>3. CASE ~(ActiveJobs = {} /\ CanEnqueue)
    BY <1>2, <2>1, <2>3 DEF ScheduleDue, RowInv, FutureJobsAbsent,
       RevisionsArePast, ActiveIsLatest, Active, ActiveJobs,
       DisabledSourceIsQuiet, ManualExcludesJobs, AttemptsBounded
  <2> QED
    BY <2>2, <2>3
<1> QED
  BY <1>1, <1>2

LEMMA TickRows == TypeOK /\ RowInv /\ Tick => RowInv'
<1> SUFFICES ASSUME TypeOK, RowInv, Tick PROVE RowInv'
  OBVIOUS
<1>1. sub'.revision = sub.revision /\ sub'.enabled = sub.enabled
  BY DEF Tick, TypeOK, Subscription
<1>2. \A j \in JobIds : /\ job'[j].status = job[j].status
                        /\ job'[j].revision = job[j].revision
                        /\ job'[j].attempts = job[j].attempts
  BY DEF Tick, TypeOK, Job
<1> QED
  BY <1>1, <1>2, SettlingRows DEF Tick, RowInv, AttemptsBounded, Active

\* What the guarded writes of a worker do to the rows.
LEMMA RenewRows ==
  ASSUME TypeOK, RowInv, NEW w \in Worker, Holds(w), NEW r,
         r.status \in Status, r.revision = job[wk[w].job].revision,
         r.attempts = job[wk[w].job].attempts,
         job' = [job EXCEPT ![wk[w].job] = r],
         count' = count, policy' = policy, manual' = manual,
         sub'.revision = sub.revision, sub'.enabled => sub.enabled
  PROVE  RowInv'
<1> DEFINE j == wk[w].job
<1>1. j \in JobIds /\ Active(j) /\ job[j].status # "absent"
  BY RenewedFields DEF Holds
<1>2. \A k \in JobIds : job'[k] = IF k = j THEN r ELSE job[k]
  BY <1>1 DEF TypeOK
<1> HIDE DEF j
<1>3. r.revision = job[j].revision /\ r.attempts = job[j].attempts
  BY DEF j
<1> QED
  BY <1>1, <1>2, <1>3, SettlingRows DEF RowInv, AttemptsBounded, Active

LEMMA FailRows ==
  ASSUME RowInv, NEW w, NEW code, Fail(w, code)
  PROVE  RowInv'
BY SameRows DEF Fail

LEMMA ClaimRows ==
  ASSUME TypeOK, RowInv, NEW w \in Worker, Claim(w)
  PROVE  RowInv'
<1>1. PICK j \in ActiveJobs :
        IF ~policy \/ job[j].revision # sub.revision
        THEN TRUE
        ELSE IF Exhausted(j)
             THEN /\ job' = [job EXCEPT ![j] = Settled(@, "failed")]
                  /\ sub' = Paused
             ELSE /\ job' = [job EXCEPT ![j] = LeasedTo(w, @)]
                  /\ UNCHANGED sub
  BY DEF Claim
<1>2. j \in JobIds /\ Active(j) /\ job[j] \in Job /\ job[j].attempts \in Nat
  BY DEF ActiveJobs, TypeOK, Job
<1>3. policy /\ job[j].revision = sub.revision
  BY <1>2 DEF RowInv, DisabledSourceIsQuiet, ActiveIsLatest, ActiveJobs
<1>4. count' = count /\ policy' = policy /\ manual' = manual
  BY DEF Claim
<1>5. ASSUME NEW r, job' = [job EXCEPT ![j] = r], r.status \in Status,
             r.revision = job[j].revision, r.attempts <= MaxAttempts,
             sub' = Paused \/ sub' = sub
      PROVE  RowInv'
  <2>1. \A k \in JobIds : job'[k] = IF k = j THEN r ELSE job[k]
    BY <1>2, <1>5 DEF TypeOK
  <2>2. sub'.revision = sub.revision /\ (sub'.enabled => sub.enabled)
    BY <1>5, PausedFields
  <2>3. ASSUME NEW k \in JobIds
        PROVE  /\ job'[k].status \in ACTIVE => Active(k)
               /\ job[k].status = "absent" => job'[k].status = "absent"
               /\ job'[k].revision = job[k].revision
               /\ job'[k].attempts <= MaxAttempts
    BY <1>2, <1>5, <2>1 DEF RowInv, AttemptsBounded, Active, ACTIVE
  <2> QED
    BY <1>4, <2>2, <2>3, SettlingRows
<1>6. CASE Exhausted(j)
  <2>1. Settled(job[j], "failed").status = "failed"
        /\ Settled(job[j], "failed").revision = job[j].revision
        /\ Settled(job[j], "failed").attempts = job[j].attempts
    BY <1>2, RowFields DEF Status, Finished
  <2>2. job[j].attempts <= MaxAttempts
    BY <1>2 DEF RowInv, AttemptsBounded
  <2> QED
    BY <1>1, <1>3, <1>5, <1>6, <2>1, <2>2 DEF Status, Finished
<1>7. CASE ~Exhausted(j)
  <2>1. LeasedTo(w, job[j]).status = "running"
        /\ LeasedTo(w, job[j]).revision = job[j].revision
        /\ LeasedTo(w, job[j]).attempts = job[j].attempts + 1
    BY <1>2, RowFields
  <2>2. job[j].attempts + 1 <= MaxAttempts
    BY <1>2, <1>7, BoundsAssumption DEF Exhausted
  <2> QED
    BY <1>1, <1>3, <1>5, <1>7, <2>1, <2>2 DEF Status, ACTIVE
<1> QED
  BY <1>6, <1>7

LEMMA WorkRows ==
  ASSUME TypeOK, RowInv, NEW w \in Worker, Work(w)
  PROVE  RowInv'
<1> DEFINE j == wk[w].job
<1>1. CASE Claim(w)
  BY <1>1, ClaimRows
<1>2. CASE TakeSpool(w)
  BY <1>2, SameRows DEF TakeSpool
<1>3. CASE SpoolBusy(w)
  BY <1>3, FailRows DEF SpoolBusy
<1>4. ASSUME Holds(w), job' = [job EXCEPT ![j] = Renewed(w)],
             UNCHANGED <<policy, sub, count, manual>>
      PROVE  RowInv'
  BY <1>4, RenewRows, RenewedFields DEF Job, Status, Active, ACTIVE
<1>5. CASE OpenPreparation(w)
  BY <1>4, <1>5 DEF OpenPreparation
<1>6. CASE Heartbeat(w)
  BY <1>4, <1>6 DEF Heartbeat
<1>7. CASE Prepared(w)
  BY <1>4, <1>7 DEF Prepared
<1>8. CASE Seal(w)
  BY <1>8, SameRows DEF Seal
<1>9. CASE CreateBatch(w)
  <2> DEFINE r == [Renewed(w) EXCEPT !.bound = TRUE]
  <2>1. Holds(w) /\ job' = [job EXCEPT ![j] = r]
        /\ UNCHANGED <<policy, sub, count, manual>>
    BY <1>9 DEF CreateBatch
  <2>2. /\ r.status = "running" /\ r.revision = job[j].revision
        /\ r.attempts = job[j].attempts
    BY <2>1, RenewedFields DEF Job
  <2> HIDE DEF r
  <2> QED
    BY <2>1, <2>2, RenewRows DEF Status, ACTIVE
<1>10. ASSUME NEW i \in Item, IngestItem(w, i) PROVE RowInv'
  BY <1>4, <1>10 DEF IngestItem
<1>11. ASSUME NEW status \in Finished, Holds(w),
              job' = [job EXCEPT ![j] = Settled(Renewed(w), status)],
              UNCHANGED <<policy, count, manual>>,
              sub'.revision = sub.revision, sub'.enabled => sub.enabled
       PROVE  RowInv'
  <2> DEFINE r == Settled(Renewed(w), status)
  <2>1. /\ r.status = status /\ r.revision = job[j].revision
        /\ r.attempts = job[j].attempts
    BY <1>11, RenewedFields, RowFields DEF Status
  <2> HIDE DEF r
  <2> QED
    BY <1>11, <2>1, RenewRows DEF r, Status
<1>12. CASE Finish(w)
  <2>1. BatchStatus(j) \in Finished
    BY DEF BatchStatus, Finished
  <2>2. [sub EXCEPT !.progress = spool[j].base + 1].revision = sub.revision
        /\ [sub EXCEPT !.progress = spool[j].base + 1].enabled = sub.enabled
    BY DEF TypeOK, Subscription
  <2>3. sub'.revision = sub.revision /\ (sub'.enabled => sub.enabled)
    BY <1>12, <2>2, PausedFields DEF Concluded, Finish
  <2> QED
    BY <1>11, <1>12, <2>1, <2>3 DEF Concluded, Finish
<1>13. CASE LoseLease(w)
  BY <1>13, FailRows DEF LoseLease
<1>14. CASE ReportFailure(w)
  <2>1. CASE ~Holds(w)
    BY <1>14, <2>1, SameRows DEF ReportFailure
  <2>2. CASE Holds(w) /\ wk[w].code = "transient"
             /\ ~Exhausted(j)
    <3> DEFINE r == Delayed(job[j])
    <3>1. job' = [job EXCEPT ![j] = r] /\ UNCHANGED <<policy, sub, count, manual>>
      BY <1>14, <2>2 DEF ReportFailure
    <3>2. /\ r.status = "pending" /\ r.revision = job[j].revision
          /\ r.attempts = job[j].attempts
      BY <2>2, HoldsJob, RowFields
    <3> HIDE DEF r
    <3> QED
      BY <2>2, <3>1, <3>2, RenewRows DEF Status, ACTIVE
  <2>3. CASE Holds(w) /\ ~(wk[w].code = "transient"
                           /\ ~Exhausted(j))
    BY <1>11, <1>14, <2>3, PausedFields DEF ReportFailure, Finished
  <2> QED
    BY <2>1, <2>2, <2>3
<1>15. ASSUME NEW code, ProviderError(w, code) PROVE RowInv'
  BY <1>15, FailRows DEF ProviderError
<1>16. CASE SpoolError(w)
  BY <1>16, FailRows DEF SpoolError
<1>17. CASE Crash(w)
  BY <1>17, SameRows DEF Crash
<1> QED
  BY <1>1, <1>2, <1>3, <1>5, <1>6, <1>7, <1>8, <1>9, <1>10, <1>12, <1>13,
     <1>14, <1>15, <1>16, <1>17 DEF Work, Step

LEMMA InitRows == Init => RowInv
BY BoundsAssumption DEF Init, RowInv, FutureJobsAbsent, RevisionsArePast,
   ActiveIsLatest, DisabledSourceIsQuiet, ManualExcludesJobs, AttemptsBounded,
   AbsentJob, Active, ACTIVE, ActiveJobs

LEMMA NextRows == TypeOK /\ RowInv /\ [Next]_vars => RowInv'
<1> SUFFICES ASSUME TypeOK, RowInv, [Next]_vars PROVE RowInv'
  OBVIOUS
<1>1. CASE UNCHANGED vars
  BY <1>1, SameRows DEF vars
<1>2. CASE Next
  BY <1>2, OwnerRows, ScheduleRows, WorkRows, TickRows DEF Next
<1> QED
  BY <1>1, <1>2

THEOREM RowsInvariant == Spec => [](TypeOK /\ RowInv)
<1>1. Init => TypeOK /\ RowInv
  BY InitTypeOK, InitRows
<1>2. (TypeOK /\ RowInv) /\ [Next]_vars => (TypeOK /\ RowInv)'
  BY NextTypeOK, NextRows
<1> QED
  BY <1>1, <1>2, PTL DEF Spec

(***************************************************************************)
(* At most one job is active; it is the latest and of the current          *)
(* configuration, for any number of workers, requests and due slots.       *)
(***************************************************************************)
THEOREM OneActiveJob == Spec => []ActiveIsLatest
BY RowsInvariant, PTL DEF RowInv

(***************************************************************************)
(* Disabling collection leaves nothing that could still collect.           *)
(***************************************************************************)
THEOREM DisableIsFinal == Spec => []DisabledSourceIsQuiet
BY RowsInvariant, PTL DEF RowInv

(***************************************************************************)
(* Manual backfills and incremental jobs exclude each other.               *)
(***************************************************************************)
THEOREM ManualExclusion == Spec => []ManualExcludesJobs
BY RowsInvariant, PTL DEF RowInv

(***************************************************************************)
(* The attempt budget holds over any sequence of failures and takeovers.   *)
(***************************************************************************)
THEOREM BudgetKept == Spec => []AttemptsBounded
BY RowsInvariant, PTL DEF RowInv

-----------------------------------------------------------------------------
(***************************************************************************)
(* SpoolInv is inductive, given TypeOK and RowInv.                         *)
(***************************************************************************)
LEMMA InitSpool == Init => SpoolInv
<1> SUFFICES ASSUME Init PROVE SpoolInv
  OBVIOUS
<1>1. FutureSpoolEmpty /\ WorkerSeesSpool
  BY DEF Init, FutureSpoolEmpty, WorkerSeesSpool, Idle
<1>2. SpoolIsPrivate
  BY NoWorkerAssumption DEF Init, SpoolIsPrivate, Idle, InSpool
<1>3. PreparedFromCurrentProgress /\ BatchHasItsManifest
  BY DEF Init, PreparedFromCurrentProgress, BatchHasItsManifest, Recoverable,
         AbsentJob, ACTIVE
<1> QED
  BY <1>1, <1>2, <1>3 DEF SpoolInv

\* A step on the rows that makes no job recoverable again.
LEMMA RowStepSpool ==
  ASSUME SpoolInv, UNCHANGED <<spool, run, lock, wk, count>>,
         sub'.progress = sub.progress,
         \A j \in JobIds : Recoverable(j)' => Recoverable(j)
  PROVE  SpoolInv'
<1>1. FutureSpoolEmpty' /\ WorkerSeesSpool' /\ SpoolIsPrivate'
  BY DEF SpoolInv, FutureSpoolEmpty, WorkerSeesSpool, SpoolIsPrivate
<1>2. PreparedFromCurrentProgress' /\ BatchHasItsManifest'
  BY DEF SpoolInv, PreparedFromCurrentProgress, BatchHasItsManifest
<1> QED
  BY <1>1, <1>2 DEF SpoolInv

LEMMA CreateJobSpool ==
  ASSUME TypeOK, SpoolInv, CreateJob, UNCHANGED <<spool, run, lock, wk>>
  PROVE  SpoolInv'
<1>1. count \in Nat /\ count' = count + 1
  BY BoundsAssumption DEF TypeOK, CreateJob
<1>2. FutureSpoolEmpty'
  BY <1>1 DEF SpoolInv, FutureSpoolEmpty, JobIds
<1>3. WorkerSeesSpool' /\ SpoolIsPrivate'
  BY <1>1 DEF SpoolInv, WorkerSeesSpool, SpoolIsPrivate
<1>4. \A j \in JobIds : Recoverable(j)' => j > count
  BY <1>1 DEF Recoverable
<1>5. PreparedFromCurrentProgress' /\ BatchHasItsManifest'
  BY <1>4 DEF SpoolInv, FutureSpoolEmpty, PreparedFromCurrentProgress,
              BatchHasItsManifest, NoSpool, NoRun
<1> QED
  BY <1>2, <1>3, <1>5 DEF SpoolInv

\* A step after which the latest job is not recoverable.
LEMMA NoneRecoverableSpool ==
  ASSUME SpoolInv, UNCHANGED <<spool, run, lock, wk, count>>,
         \A j \in JobIds : ~Recoverable(j)'
  PROVE  SpoolInv'
<1>1. FutureSpoolEmpty' /\ WorkerSeesSpool' /\ SpoolIsPrivate'
  BY DEF SpoolInv, FutureSpoolEmpty, WorkerSeesSpool, SpoolIsPrivate
<1>2. PreparedFromCurrentProgress' /\ BatchHasItsManifest'
  BY DEF PreparedFromCurrentProgress, BatchHasItsManifest
<1> QED
  BY <1>1, <1>2 DEF SpoolInv

LEMMA OwnerSpool == TypeOK /\ RowInv /\ SpoolInv /\ Owner => SpoolInv'
<1> SUFFICES ASSUME TypeOK, RowInv, SpoolInv, Owner PROVE SpoolInv'
  OBVIOUS
<1>1. ASSUME NEW r \in Request, Enqueue(r) PROVE SpoolInv'
  <2>1. CASE ActiveJobs # {}
    BY <1>1, <2>1, RowStepSpool DEF Enqueue, Recoverable
  <2>2. CASE ActiveJobs = {}
    BY <1>1, <2>2, CreateJobSpool DEF Enqueue
  <2> QED
    BY <2>1, <2>2
<1>2. ASSUME job' = CancelledJobs, UNCHANGED <<spool, run, lock, wk, count>>,
             sub'.revision = sub.revision, sub'.progress = sub.progress
      PROVE  SpoolInv'
  <2>1. \A j \in JobIds : Recoverable(j)' => Recoverable(j)
    BY <1>2, CancelledFields DEF Recoverable, Active, ACTIVE
  <2> QED
    BY <1>2, <2>1, RowStepSpool
<1>3. CASE Cancel
  BY <1>2, <1>3 DEF Cancel
<1>4. ASSUME NEW n \in Intervals, EnableSchedule(n) PROVE SpoolInv'
  <2>1. sub'.revision = sub.revision /\ sub'.progress = sub.progress
    BY <1>4 DEF EnableSchedule, TypeOK, Subscription
  <2> QED
    BY <1>4, <2>1, RowStepSpool DEF EnableSchedule, Recoverable
<1>5. ASSUME NEW n \in Intervals, DisableSchedule(n) PROVE SpoolInv'
  <2>1. sub'.revision = sub.revision /\ sub'.progress = sub.progress
    BY <1>5 DEF DisableSchedule, Paused, TypeOK, Subscription
  <2> QED
    BY <1>2, <1>5, <2>1 DEF DisableSchedule
<1>6. CASE UpdateDiscussions
  <2>1. sub'.revision = sub.revision + 1 /\ sub.revision \in Nat
    BY <1>6, RowTypes, PausedFields DEF UpdateDiscussions, Subscription
  <2>2. \A j \in JobIds : job[j].revision \in Nat
                          /\ job[j].revision <= sub.revision
    BY DEF TypeOK, Job, RowInv, RevisionsArePast
  <2>3. \A j \in JobIds : ~Recoverable(j)'
    BY <1>6, <2>1, <2>2, CancelledFields DEF UpdateDiscussions, Recoverable
  <2> QED
    BY <1>6, <2>3, NoneRecoverableSpool DEF UpdateDiscussions
<1>7. CASE RetryFailed
  <2>1. \A j \in JobIds :
          job'[j] = IF j = count THEN Reopened(job[j]) ELSE job[j]
    BY <1>7 DEF RetryFailed, TypeOK
  <2>2. \A j \in JobIds : job[j] \in Job
    BY DEF TypeOK
  <2>3. \A j \in JobIds : Recoverable(j)' => Recoverable(j)
    BY <1>7, <2>1, <2>2, RowFields DEF RetryFailed, Recoverable
  <2> QED
    BY <1>7, <2>3, RowStepSpool DEF RetryFailed
<1>8. CASE DisableSource
  <2>1. \A j \in JobIds : Recoverable(j)' => Recoverable(j)
    BY <1>8, RowFields, PausedFields
       DEF DisableSource, TypeOK, Recoverable, Active, ACTIVE
  <2>2. sub'.progress = sub.progress
    BY <1>8 DEF DisableSource, Paused, TypeOK, Subscription
  <2> QED
    BY <1>8, <2>1, <2>2, RowStepSpool DEF DisableSource
<1>9. CASE EnableSource \/ StartManual \/ FinishManual
  BY <1>9, RowStepSpool
     DEF EnableSource, StartManual, FinishManual, Recoverable
<1> QED
  BY <1>1, <1>3, <1>4, <1>5, <1>6, <1>7, <1>8, <1>9 DEF Owner

LEMMA ScheduleSpool ==
  TypeOK /\ RowInv /\ SpoolInv /\ ScheduleDue => SpoolInv'
<1> SUFFICES ASSUME TypeOK, RowInv, SpoolInv, ScheduleDue PROVE SpoolInv'
  OBVIOUS
<1>1. policy
  BY DEF ScheduleDue, RowInv, DisabledSourceIsQuiet
<1>2. sub'.revision = sub.revision /\ sub'.progress = sub.progress
  BY <1>1 DEF ScheduleDue, TypeOK, Subscription
<1>3. CASE ActiveJobs = {} /\ CanEnqueue
  BY <1>1, <1>3, CreateJobSpool DEF ScheduleDue
<1>4. CASE ~(ActiveJobs = {} /\ CanEnqueue)
  BY <1>1, <1>2, <1>4, RowStepSpool DEF ScheduleDue, Recoverable
<1> QED
  BY <1>3, <1>4

LEMMA TickSpool == TypeOK /\ SpoolInv /\ Tick => SpoolInv'
<1> SUFFICES ASSUME TypeOK, SpoolInv, Tick PROVE SpoolInv'
  OBVIOUS
<1>1. sub'.revision = sub.revision /\ sub'.progress = sub.progress
  BY DEF Tick, TypeOK, Subscription
<1>2. \A j \in JobIds : /\ job'[j].status = job[j].status
                        /\ job'[j].revision = job[j].revision
  BY DEF Tick, TypeOK, Job
<1> QED
  BY <1>1, <1>2, RowStepSpool DEF Tick, Recoverable

\* While one worker is in the spool, no other is.
LEMMA Alone ==
  ASSUME SpoolInv, NEW w \in Worker, wk[w].pc \in InSpool
  PROVE  lock = w /\ \A v \in Worker : v # w => wk[v].pc \notin InSpool
BY DEF SpoolInv, SpoolIsPrivate

\* A worker leaves the spool, or was not in it: idle or failing.
LEMMA LeaveSpool ==
  ASSUME TypeOK, SpoolInv, NEW w \in Worker,
         \/ wk'[w].pc = "idle"
         \/ wk'[w].pc = "failing" /\ wk'[w].job \in 1..count,
         \A v \in Worker : v # w => wk'[v] = wk[v],
         \A j \in JobIds : run[j].status # "none" => run'[j].status # "none",
         lock' = Released(w), spool' = spool, count' = count
  PROVE  WorkerSeesSpool' /\ SpoolIsPrivate'
<1>1. ASSUME NEW v \in Worker, v # w, wk[v].pc # "idle"
      PROVE  wk[v].job \in JobIds
  BY <1>1, BoundsAssumption
     DEF SpoolInv, WorkerSeesSpool, JobIds, TypeOK
<1>2. WorkerSeesSpool'
  BY <1>1 DEF SpoolInv, WorkerSeesSpool
<1>3. SpoolIsPrivate'
  BY NoWorkerAssumption
     DEF SpoolInv, SpoolIsPrivate, Released, InSpool
<1> QED
  BY <1>2, <1>3

LEMMA FailSpool ==
  ASSUME TypeOK, SpoolInv, NEW w \in Worker, NEW code, Fail(w, code),
         wk[w].pc # "idle"
  PROVE  SpoolInv'
<1>1. /\ wk'[w].pc = "failing" /\ wk'[w].job = wk[w].job
      /\ \A v \in Worker : v # w => wk'[v] = wk[v]
  BY DEF Fail, TypeOK, WorkerState
<1>2. wk[w].job \in 1..count
  BY DEF SpoolInv, WorkerSeesSpool
<1>3. /\ lock' = Released(w)
      /\ UNCHANGED <<policy, sub, job, count, request, manual, run, spool>>
  BY DEF Fail
<1>4. WorkerSeesSpool' /\ SpoolIsPrivate'
  BY <1>1, <1>2, <1>3, LeaveSpool
<1>5. FutureSpoolEmpty' /\ PreparedFromCurrentProgress'
      /\ BatchHasItsManifest'
  BY <1>3 DEF SpoolInv, FutureSpoolEmpty, PreparedFromCurrentProgress,
              BatchHasItsManifest, Recoverable
<1> QED
  BY <1>4, <1>5 DEF SpoolInv

\* What a guarded write leaves of the lease holder's job.
LEMMA HeldJob ==
  ASSUME TypeOK, RowInv, SpoolInv, NEW w \in Worker, Holds(w)
  PROVE  /\ wk[w].job = count /\ count \in JobIds
         /\ Recoverable(count)
         /\ \A j \in JobIds : Recoverable(j) => j = count
BY RenewedFields DEF RowInv, ActiveIsLatest, Recoverable, Active, ACTIVE, Holds

LEMMA ClaimSpool ==
  ASSUME TypeOK, RowInv, SpoolInv, NEW w \in Worker, Claim(w)
  PROVE  SpoolInv'
<1>1. PICK j \in ActiveJobs :
        IF ~policy \/ job[j].revision # sub.revision
        THEN TRUE
        ELSE IF Exhausted(j)
             THEN /\ job' = [job EXCEPT ![j] = Settled(@, "failed")]
                  /\ sub' = Paused
                  /\ UNCHANGED wk
             ELSE /\ job' = [job EXCEPT ![j] = LeasedTo(w, @)]
                  /\ wk' = [wk EXCEPT ![w] =
                              [Idle EXCEPT !.pc = "claimed", !.job = j,
                                 !.generation = job[j].generation + 1]]
                  /\ UNCHANGED sub
  BY DEF Claim
<1>2. j \in JobIds /\ Active(j) /\ job[j] \in Job
  BY DEF ActiveJobs, TypeOK
<1>3. policy /\ job[j].revision = sub.revision /\ j = count
  BY <1>2 DEF RowInv, DisabledSourceIsQuiet, ActiveIsLatest, ActiveJobs
<1>4. wk[w].pc = "idle" /\ UNCHANGED <<count, run, spool, lock>>
  BY DEF Claim
<1>5. Recoverable(j)
  BY <1>2, <1>3 DEF Recoverable, Active
<1>6. CASE Exhausted(j)
  <2>1. sub'.revision = sub.revision /\ sub'.progress = sub.progress
    BY <1>1, <1>3, <1>6 DEF Paused, TypeOK, Subscription
  <2>2. \A k \in JobIds : k # j => job'[k] = job[k]
    BY <1>1, <1>3, <1>6 DEF TypeOK
  <2>3. \A k \in JobIds : Recoverable(k)' => Recoverable(k)
    BY <1>4, <1>5, <2>1, <2>2 DEF Recoverable
  <2> QED
    BY <1>1, <1>3, <1>4, <1>6, <2>1, <2>3, RowStepSpool
<1>7. CASE ~Exhausted(j)
  <2> DEFINE s == [Idle EXCEPT !.pc = "claimed", !.job = j,
                               !.generation = job[j].generation + 1]
  <2>1. s.pc = "claimed" /\ s.job = j
    BY DEF Idle
  <2>2. wk' = [wk EXCEPT ![w] = s] /\ sub' = sub
        /\ job' = [job EXCEPT ![j] = LeasedTo(w, @)]
    BY <1>1, <1>3, <1>7
  <2> HIDE DEF s
  <2>3. \A v \in Worker : wk'[v] = IF v = w THEN s ELSE wk[v]
    BY <2>2 DEF TypeOK
  <2>4. j \in 1..count
    BY <1>2, <1>3 DEF JobIds
  <2>5. WorkerSeesSpool'
    BY <1>4, <2>1, <2>3, <2>4 DEF SpoolInv, WorkerSeesSpool
  <2>6. SpoolIsPrivate'
    BY <1>4, <2>1, <2>3 DEF SpoolInv, SpoolIsPrivate, InSpool
  <2>7. \A k \in JobIds : k # j => job'[k] = job[k]
    BY <2>2 DEF TypeOK
  <2>8. \A k \in JobIds : Recoverable(k)' => Recoverable(k)
    BY <1>4, <1>5, <2>2, <2>7 DEF Recoverable
  <2>9. FutureSpoolEmpty' /\ PreparedFromCurrentProgress'
        /\ BatchHasItsManifest'
    BY <1>4, <2>2, <2>8 DEF SpoolInv, FutureSpoolEmpty,
       PreparedFromCurrentProgress, BatchHasItsManifest
  <2> QED
    BY <2>5, <2>6, <2>9 DEF SpoolInv
<1> QED
  BY <1>6, <1>7

LEMMA TakeSpoolSpool ==
  ASSUME TypeOK, SpoolInv, NEW w \in Worker, TakeSpool(w)
  PROVE  SpoolInv'
<1>1. PICK old \in SUBSET {j \in JobIds : Removable(j)} :
        LET kept == [j \in JobIds |-> IF j \in old THEN NoSpool ELSE spool[j]]
        IN  /\ spool' = kept
            /\ wk' = [wk EXCEPT ![w].pc =
                        IF kept[wk[w].job].state = "sealed"
                        THEN "batch" ELSE "open"]
  BY DEF TakeSpool
<1>2. \A j \in JobIds : spool'[j] = IF j \in old THEN NoSpool ELSE spool[j]
  BY <1>1
<1>3. /\ wk[w].pc = "claimed" /\ lock = NoWorker /\ lock' = w
      /\ UNCHANGED <<policy, sub, job, count, request, manual, run>>
  BY DEF TakeSpool
<1>4. /\ wk'[w].pc = IF spool'[wk[w].job].state = "sealed"
                     THEN "batch" ELSE "open"
      /\ wk'[w].job = wk[w].job
      /\ \A v \in Worker : v # w => wk'[v] = wk[v]
  BY <1>1 DEF TypeOK, WorkerState
<1>5. \A v \in Worker : wk[v].pc \notin InSpool
  BY <1>3, NoWorkerAssumption DEF SpoolInv, SpoolIsPrivate
<1>6. WorkerSeesSpool'
  BY <1>3, <1>4, <1>5 DEF SpoolInv, WorkerSeesSpool, InSpool
<1>7. SpoolIsPrivate'
  BY <1>3, <1>4, <1>5 DEF SpoolIsPrivate, InSpool
<1>8. FutureSpoolEmpty'
  BY <1>2, <1>3 DEF SpoolInv, FutureSpoolEmpty
<1>9. \A j \in JobIds : Recoverable(j)' => Recoverable(j) /\ j \notin old
  BY <1>3 DEF Recoverable, Removable, ACTIVE
<1>10. PreparedFromCurrentProgress' /\ BatchHasItsManifest'
  BY <1>2, <1>3, <1>9 DEF SpoolInv, PreparedFromCurrentProgress,
                          BatchHasItsManifest
<1> QED
  BY <1>6, <1>7, <1>8, <1>10 DEF SpoolInv

LEMMA WorkSpool ==
  ASSUME TypeOK, RowInv, SpoolInv, NEW w \in Worker, Work(w)
  PROVE  SpoolInv'
<1> DEFINE j == wk[w].job
\* Everything but the control state of w, its job's row, spool and run stays.
<1>1. CASE Claim(w)
  BY <1>1, ClaimSpool
<1>2. CASE TakeSpool(w)
  BY <1>2, TakeSpoolSpool
<1>3. CASE SpoolBusy(w)
  BY <1>3, FailSpool DEF SpoolBusy
<1>4. ASSUME Holds(w), NEW r, job' = [job EXCEPT ![j] = r],
             r.revision = job[j].revision,
             UNCHANGED <<count, sub>>
      PROVE  \A k \in JobIds : Recoverable(k)' => Recoverable(k)
  <2>1. \A k \in JobIds : k # j => job'[k] = job[k]
    BY <1>4 DEF TypeOK
  <2>2. j = count /\ Recoverable(j)
    BY <1>4, HeldJob
  <2> QED
    BY <1>4, <2>1, <2>2 DEF Recoverable
<1>5. CASE OpenPreparation(w)
  <2>1. /\ Holds(w) /\ wk[w].pc = "open" /\ j = count /\ j \in JobIds
        /\ UNCHANGED <<policy, sub, count, request, manual, run, lock>>
        /\ job' = [job EXCEPT ![j] = Renewed(w)]
        /\ spool' = IF spool[j].state = "none"
                    THEN [spool EXCEPT ![j] = [NoSpool EXCEPT !.state = "open",
                                                 !.base = sub.progress]]
                    ELSE spool
        /\ wk' = [wk EXCEPT ![w].pc = "prepare"]
    BY <1>5, HeldJob DEF OpenPreparation
  <2>2. lock = w /\ \A v \in Worker : v # w => wk[v].pc \notin InSpool
    BY <2>1, Alone DEF InSpool
  <2>3. /\ wk'[w].pc = "prepare" /\ wk'[w].job = j
        /\ \A v \in Worker : v # w => wk'[v] = wk[v]
    BY <2>1 DEF TypeOK, WorkerState
  <2>4. /\ spool'[j].state = "open"
        /\ spool[j].state = "none" => spool'[j].base = sub.progress
        /\ spool[j].state # "none" => spool' = spool
        /\ \A k \in JobIds : k # j => spool'[k] = spool[k]
    <3>1. spool[j].state \in {"none", "open"}
      BY <2>1 DEF SpoolInv, WorkerSeesSpool, TypeOK, Spool
    <3> QED
      BY <2>1, <3>1 DEF TypeOK, NoSpool
  <2>5. WorkerSeesSpool'
    BY <2>1, <2>2, <2>3, <2>4 DEF SpoolInv, WorkerSeesSpool, InSpool
  <2>6. SpoolIsPrivate'
    BY <2>1, <2>2, <2>3 DEF SpoolInv, SpoolIsPrivate, InSpool
  <2>7. FutureSpoolEmpty'
    BY <2>1, <2>4, HeldJob DEF SpoolInv, FutureSpoolEmpty, JobIds, TypeOK
  <2>8. \A k \in JobIds : Recoverable(k)' => Recoverable(k)
    BY <1>4, <2>1, RenewedFields
  <2>9. PreparedFromCurrentProgress'
    BY <2>1, <2>4, <2>8 DEF SpoolInv, PreparedFromCurrentProgress
  <2>10. BatchHasItsManifest'
    BY <2>1, <2>4, <2>8 DEF SpoolInv, BatchHasItsManifest
  <2> QED
    BY <2>5, <2>6, <2>7, <2>9, <2>10 DEF SpoolInv
<1>6. CASE Heartbeat(w)
  BY <1>4, <1>6, RenewedFields, RowStepSpool DEF Heartbeat
<1>7. CASE Prepared(w)
  <2>1. /\ Holds(w) /\ wk[w].pc = "prepare"
        /\ job' = [job EXCEPT ![j] = Renewed(w)]
        /\ UNCHANGED <<sub, count, run, lock, spool>>
    BY <1>7 DEF Prepared
  <2>2. /\ wk'[w].pc = "seal" /\ wk'[w].job = j
        /\ \A v \in Worker : v # w => wk'[v] = wk[v]
    BY <1>7 DEF Prepared, TypeOK, WorkerState
  <2>3. WorkerSeesSpool' /\ SpoolIsPrivate'
    BY <2>1, <2>2 DEF SpoolInv, WorkerSeesSpool, SpoolIsPrivate, InSpool
  <2>4. \A k \in JobIds : Recoverable(k)' => Recoverable(k)
    BY <1>4, <2>1, RenewedFields
  <2> QED
    BY <2>1, <2>3, <2>4 DEF SpoolInv, FutureSpoolEmpty,
       PreparedFromCurrentProgress, BatchHasItsManifest
<1>8. CASE Seal(w)
  <2>1. PICK m \in Manifests : spool' = [spool EXCEPT ![j] = SealedWith(m, @)]
    BY <1>8 DEF Seal
  <2>11. /\ wk[w].pc = "seal"
         /\ UNCHANGED <<policy, sub, job, count, request, manual, run, lock>>
    BY <1>8 DEF Seal
  <2>12. /\ wk[w].pc # "idle" => wk[w].job \in 1..count
         /\ wk[w].pc \in {"prepare", "seal"} => spool[wk[w].job].state = "open"
    BY DEF SpoolInv, WorkerSeesSpool
  <2>2. /\ wk[w].pc = "seal" /\ j \in 1..count
        /\ spool[j].state = "open"
        /\ UNCHANGED <<policy, sub, job, count, request, manual, run, lock>>
    BY <2>11, <2>12
  <2>3. j \in JobIds /\ spool[j] \in Spool
    BY <2>2, BoundsAssumption DEF TypeOK, JobIds
  <2>4. /\ spool'[j].state = "sealed" /\ spool'[j].base = spool[j].base
        /\ \A k \in JobIds : k # j => spool'[k] = spool[k]
    BY <2>1, <2>3 DEF TypeOK, SealedWith, Spool
  <2>5. lock = w /\ \A v \in Worker : v # w => wk[v].pc \notin InSpool
    BY <2>2, Alone DEF InSpool
  <2>6. /\ wk'[w].pc = "batch" /\ wk'[w].job = j
        /\ \A v \in Worker : v # w => wk'[v] = wk[v]
    BY <1>8 DEF Seal, TypeOK, WorkerState
  <2>7. WorkerSeesSpool' /\ SpoolIsPrivate'
    BY <2>2, <2>4, <2>5, <2>6
       DEF SpoolInv, WorkerSeesSpool, SpoolIsPrivate, InSpool
  <2>8. FutureSpoolEmpty'
    BY <2>2, <2>4 DEF SpoolInv, FutureSpoolEmpty, TypeOK
  <2>9. PreparedFromCurrentProgress' /\ BatchHasItsManifest'
    BY <2>2, <2>3, <2>4 DEF SpoolInv, PreparedFromCurrentProgress,
       BatchHasItsManifest, Recoverable
  <2> QED
    BY <2>7, <2>8, <2>9 DEF SpoolInv
<1>9. CASE CreateBatch(w)
  <2> DEFINE r == [Renewed(w) EXCEPT !.bound = TRUE]
  <2>1. /\ Holds(w) /\ wk[w].pc = "batch" /\ j = count /\ j \in JobIds
        /\ job' = [job EXCEPT ![j] = r]
        /\ UNCHANGED <<policy, sub, count, request, manual, spool, lock>>
        /\ spool[j].state = "sealed"
    BY <1>9, HeldJob DEF CreateBatch, SpoolInv, WorkerSeesSpool
  <2>2. /\ wk'[w].pc = "items" /\ wk'[w].job = j
        /\ \A v \in Worker : v # w => wk'[v] = wk[v]
    BY <1>9 DEF CreateBatch, TypeOK, WorkerState
  <2>3. /\ run'[j].status # "none"
        /\ run[j].status = "none" => run'[j].expected = spool[j].items
        /\ run[j].status # "none" => run' = run
        /\ \A k \in JobIds : k # j => run'[k] = run[k]
    BY <1>9, <2>1 DEF CreateBatch, TypeOK, NoRun
  <2>4. r.revision = job[j].revision
    BY <2>1, RenewedFields DEF Job
  <2> HIDE DEF r
  <2>5. \A k \in JobIds : Recoverable(k)' => Recoverable(k)
    BY <1>4, <2>1, <2>4
  <2>6. lock = w /\ \A v \in Worker : v # w => wk[v].pc \notin InSpool
    BY <2>1, Alone DEF InSpool
  <2>61. WorkerSeesSpool' /\ SpoolIsPrivate'
    BY <2>1, <2>2, <2>3, <2>6
       DEF SpoolInv, WorkerSeesSpool, SpoolIsPrivate, InSpool
  <2>7. FutureSpoolEmpty'
    BY <2>1, <2>3 DEF SpoolInv, FutureSpoolEmpty, TypeOK
  <2>8. PreparedFromCurrentProgress'
    BY <2>1, <2>5 DEF SpoolInv, PreparedFromCurrentProgress
  <2>9. BatchHasItsManifest'
    BY <2>1, <2>3, <2>5 DEF SpoolInv, BatchHasItsManifest
  <2> QED
    BY <2>61, <2>7, <2>8, <2>9 DEF SpoolInv
<1>10. ASSUME NEW i \in Item, IngestItem(w, i) PROVE SpoolInv'
  <2>1. /\ Holds(w) /\ wk[w].pc = "items" /\ j = count /\ j \in JobIds
        /\ job' = [job EXCEPT ![j] = Renewed(w)]
        /\ UNCHANGED <<policy, sub, count, request, manual, spool, lock>>
    BY <1>10, HeldJob DEF IngestItem
  <2>2. PICK o \in ReceiptOf(j, i) : run' = [run EXCEPT ![j].receipt[i] = o]
    BY <1>10 DEF IngestItem
  <2>3. /\ run'[j].status = run[j].status /\ run'[j].expected = run[j].expected
        /\ \A k \in JobIds : k # j => run'[k] = run[k]
    BY <2>1, <2>2 DEF TypeOK, Run
  <2>4. /\ wk'[w].pc = "items" /\ wk'[w].job = j
        /\ \A v \in Worker : v # w => wk'[v] = wk[v]
    BY <1>10 DEF IngestItem, TypeOK, WorkerState
  <2>41. lock = w /\ \A v \in Worker : v # w => wk[v].pc \notin InSpool
    BY <2>1, Alone DEF InSpool
  <2>5. WorkerSeesSpool' /\ SpoolIsPrivate'
    BY <2>1, <2>3, <2>4, <2>41
       DEF SpoolInv, WorkerSeesSpool, SpoolIsPrivate, InSpool
  <2>6. FutureSpoolEmpty'
    BY <2>1, <2>3 DEF SpoolInv, FutureSpoolEmpty, TypeOK
  <2>7. \A k \in JobIds : Recoverable(k)' => Recoverable(k)
    BY <1>4, <2>1, RenewedFields
  <2>8. PreparedFromCurrentProgress' /\ BatchHasItsManifest'
    BY <2>1, <2>3, <2>7 DEF SpoolInv, PreparedFromCurrentProgress,
       BatchHasItsManifest
  <2> QED
    BY <2>5, <2>6, <2>8 DEF SpoolInv
<1>11. CASE Finish(w)
  <2> DEFINE status == BatchStatus(j)
  <2>1. /\ Holds(w) /\ wk[w].pc = "items" /\ j = count /\ j \in JobIds
        /\ run' = [run EXCEPT ![j].status = status]
        /\ job' = [job EXCEPT ![j] = Settled(Renewed(w), status)]
        /\ sub' = IF status \in {"completed", "empty"}
                  THEN [sub EXCEPT !.progress = spool[j].base + 1]
                  ELSE Paused
        /\ UNCHANGED <<count, spool>>
        /\ wk' = [wk EXCEPT ![w] = Idle] /\ lock' = Released(w)
    BY <1>11, HeldJob DEF Concluded, Finish
  <2>11. status \in Finished
    BY DEF BatchStatus, Finished
  <2>12. /\ wk'[w].pc = "idle"
         /\ \A v \in Worker : v # w => wk'[v] = wk[v]
    BY <2>1 DEF TypeOK, Idle
  <2>3. /\ run'[j].expected = run[j].expected
        /\ run'[j].status = status
        /\ \A k \in JobIds : k # j => run'[k] = run[k]
    BY <2>1 DEF TypeOK, Run
  <2>31. \A k \in JobIds : run[k].status # "none" => run'[k].status # "none"
    BY <2>11, <2>3 DEF Finished
  <2>2. WorkerSeesSpool' /\ SpoolIsPrivate'
    BY <2>1, <2>12, <2>31, LeaveSpool
  <2>4. FutureSpoolEmpty'
    BY <2>1, <2>3, HeldJob DEF SpoolInv, FutureSpoolEmpty, TypeOK
  <2>5. Renewed(w) \in Job /\ status \in Finished
    BY <2>1, RenewedFields DEF BatchStatus, Finished
  <2>6. job'[j].status = status /\ status \in Status
    BY <2>1, <2>5, RowFields DEF Status, TypeOK
  <2>7. CASE status \in {"completed", "empty", "partial"}
    <3>1. \A k \in JobIds : ~Recoverable(k)'
      BY <2>1, <2>6, <2>7 DEF Recoverable, ACTIVE
    <3> QED
      BY <2>2, <2>4, <3>1 DEF SpoolInv, PreparedFromCurrentProgress,
         BatchHasItsManifest
  <2>8. CASE status = "failed"
    <3>1. sub'.progress = sub.progress /\ sub'.revision = sub.revision
      BY <2>1, <2>8 DEF Paused, TypeOK, Subscription
    <3>2. \A k \in JobIds : Recoverable(k)' => k = count
      BY <2>1 DEF Recoverable
    <3>3. Recoverable(count) /\ spool[j].state = "sealed"
      BY <2>1, HeldJob DEF SpoolInv, WorkerSeesSpool
    <3>4. run[j].status # "none"
      BY <2>1 DEF SpoolInv, WorkerSeesSpool
    <3> QED
      BY <2>1, <2>2, <2>3, <2>4, <3>1, <3>2, <3>3, <3>4
         DEF SpoolInv, PreparedFromCurrentProgress, BatchHasItsManifest
  <2> QED
    BY <2>5, <2>7, <2>8 DEF Finished
<1>12. CASE LoseLease(w)
  BY <1>12, FailSpool DEF LoseLease, InSpool
<1>13. CASE ReportFailure(w)
  <2>1. /\ wk[w].pc = "failing" /\ wk' = [wk EXCEPT ![w] = Idle]
        /\ UNCHANGED <<count, run, spool, lock>>
    BY <1>13 DEF ReportFailure
  <2>2. lock' = Released(w)
    BY <2>1, NoWorkerAssumption
       DEF SpoolInv, SpoolIsPrivate, Released, InSpool
  <2>21. /\ wk'[w].pc = "idle"
         /\ \A v \in Worker : v # w => wk'[v] = wk[v]
    BY <2>1 DEF TypeOK, Idle
  <2>3. WorkerSeesSpool' /\ SpoolIsPrivate'
    BY <2>1, <2>2, <2>21, LeaveSpool
  <2>4. FutureSpoolEmpty'
    BY <2>1 DEF SpoolInv, FutureSpoolEmpty
  <2>5. sub'.progress = sub.progress /\ sub'.revision = sub.revision
    BY <1>13 DEF ReportFailure, Paused, TypeOK, Subscription
  <2>6. \A k \in JobIds : Recoverable(k)' => Recoverable(k)
    <3>1. CASE ~Holds(w)
      BY <1>13, <2>1, <3>1 DEF ReportFailure, Recoverable
    <3>2. CASE Holds(w)
      <4>1. \A k \in JobIds : k # j => job'[k] = job[k]
        BY <1>13, <3>2 DEF ReportFailure, TypeOK
      <4>2. Recoverable(j) /\ j = count
        BY <3>2, HeldJob
      <4> QED
        BY <2>1, <2>5, <4>1, <4>2 DEF Recoverable
    <3> QED
      BY <3>1, <3>2
  <2> QED
    BY <2>1, <2>3, <2>4, <2>5, <2>6
       DEF SpoolInv, PreparedFromCurrentProgress, BatchHasItsManifest
<1>14. ASSUME NEW code, ProviderError(w, code) PROVE SpoolInv'
  BY <1>14, FailSpool DEF ProviderError
<1>15. CASE SpoolError(w)
  BY <1>15, FailSpool DEF SpoolError, InSpool
<1>16. CASE Crash(w)
  <2>2. /\ wk'[w].pc = "idle"
        /\ \A v \in Worker : v # w => wk'[v] = wk[v]
        /\ lock' = Released(w) /\ UNCHANGED <<spool, count, run>>
    BY <1>16 DEF Crash, TypeOK, Idle
  <2>1. WorkerSeesSpool' /\ SpoolIsPrivate'
    BY <2>2, LeaveSpool
  <2> QED
    BY <1>16, <2>1 DEF Crash, SpoolInv, FutureSpoolEmpty,
       PreparedFromCurrentProgress, BatchHasItsManifest, Recoverable
<1> QED
  BY <1>1, <1>2, <1>3, <1>5, <1>6, <1>7, <1>8, <1>9, <1>10, <1>11, <1>12,
     <1>13, <1>14, <1>15, <1>16 DEF Work, Step

THEOREM SpoolInvariant == Spec => [](TypeOK /\ RowInv /\ SpoolInv)
<1>1. Init => TypeOK /\ RowInv /\ SpoolInv
  BY InitTypeOK, InitRows, InitSpool
<1>2. (TypeOK /\ RowInv /\ SpoolInv) /\ [Next]_vars
        => (TypeOK /\ RowInv /\ SpoolInv)'
  <2> SUFFICES ASSUME TypeOK, RowInv, SpoolInv, [Next]_vars
               PROVE  SpoolInv'
    BY NextTypeOK, NextRows
  <2>1. CASE UNCHANGED vars
    BY <2>1, RowStepSpool DEF vars, Recoverable
  <2>2. CASE Next
    BY <2>2, OwnerSpool, ScheduleSpool, WorkSpool, TickSpool DEF Next
  <2> QED
    BY <2>1, <2>2
<1> QED
  BY <1>1, <1>2, PTL DEF Spec

(***************************************************************************)
(* The preparation a job can still finish started from the cursor the      *)
(* subscription still has (collection_jobs base progress in the spool).    *)
(***************************************************************************)
THEOREM PreparationIsCurrent == Spec => []PreparedFromCurrentProgress
BY SpoolInvariant, PTL DEF SpoolInv

(***************************************************************************)
(* A batch that can be continued has the manifest it was created from.     *)
(***************************************************************************)
THEOREM ManifestIsFrozen == Spec => []BatchHasItsManifest
BY SpoolInvariant, PTL DEF SpoolInv

(***************************************************************************)
(* One worker at a time is in the spool, and it is the holder of the lock. *)
(***************************************************************************)
THEOREM SpoolExclusion == Spec => []SpoolIsPrivate
BY SpoolInvariant, PTL DEF SpoolInv

-----------------------------------------------------------------------------
(***************************************************************************)
(* Action properties.                                                      *)
(***************************************************************************)
\* Only a worker whose claim still counts writes a run.
LEMMA RunWriters ==
  ASSUME TypeOK, Next, NEW j \in JobIds, run'[j] # run[j]
  PROVE  \E w \in Worker :
           /\ wk[w].job = j /\ Holds(w) /\ wk'[w] # wk[w]
           /\ CreateBatch(w) \/ (\E i \in Item : IngestItem(w, i)) \/ Finish(w)
<1>1. PICK w \in Worker :
        CreateBatch(w) \/ (\E i \in Item : IngestItem(w, i)) \/ Finish(w)
  BY DEF Next, Owner, Work, Step, Enqueue, Cancel, EnableSchedule,
     DisableSchedule, UpdateDiscussions, RetryFailed, DisableSource,
     EnableSource, StartManual, FinishManual, ScheduleDue, Tick, Claim,
     TakeSpool, SpoolBusy, OpenPreparation, Heartbeat, Prepared, Seal,
     LoseLease, ProviderError, SpoolError, ReportFailure, Crash, Fail
<1>2. CASE CreateBatch(w)
  <2>1. Holds(w) /\ wk[w].pc = "batch" /\ wk'[w].pc = "items"
    BY <1>2 DEF CreateBatch, TypeOK, WorkerState
  <2>2. \A k \in JobIds : k # wk[w].job => run'[k] = run[k]
    BY <1>2 DEF CreateBatch, TypeOK
  <2> QED
    BY <1>2, <2>1, <2>2
<1>3. ASSUME NEW i \in Item, IngestItem(w, i) PROVE Holds(w) /\ wk[w].job = j
                                                  /\ wk'[w] # wk[w]
  <2>1. Holds(w) /\ i \in wk[w].todo /\ i \notin wk'[w].todo
    BY <1>3 DEF IngestItem, TypeOK, WorkerState
  <2>2. PICK o \in ReceiptOf(wk[w].job, i) :
          run' = [run EXCEPT ![wk[w].job].receipt[i] = o]
    BY <1>3 DEF IngestItem
  <2>3. \A k \in JobIds : k # wk[w].job => run'[k] = run[k]
    BY <2>2 DEF TypeOK
  <2> QED
    BY <2>1, <2>3
<1>4. CASE Finish(w)
  <2>1. Holds(w) /\ wk[w].pc = "items" /\ wk'[w].pc = "idle"
    BY <1>4 DEF Concluded, Finish, TypeOK, Idle
  <2>2. \A k \in JobIds : k # wk[w].job => run'[k] = run[k]
    BY <1>4 DEF Concluded, Finish, TypeOK
  <2> QED
    BY <1>4, <2>1, <2>2
<1> QED
  BY <1>1, <1>2, <1>3, <1>4

(***************************************************************************)
(* A worker that was cancelled, taken over, reconfigured away or disabled  *)
(* writes no receipt and no status (collection_jobs.leased).               *)
(***************************************************************************)
THEOREM Fencing == Spec => StaleWorkersAreFenced
<1>1. TypeOK /\ [Next]_vars =>
        [\A j \in JobIds : run'[j] # run[j] =>
           /\ job[j].status = "running" /\ job[j].revision = sub.revision
           /\ policy
           /\ \E w \in Worker :
                /\ wk[w].job = j /\ wk[w].generation = job[j].generation
                /\ wk'[w] # wk[w]]_vars
  BY RunWriters DEF Holds, vars
<1> QED
  BY <1>1, TypeCorrect, PTL DEF Spec, StaleWorkersAreFenced

(***************************************************************************)
(* A request UUID stays bound to the job it was given                      *)
(* (collection_jobs.enqueue).                                              *)
(***************************************************************************)
THEOREM RequestBinding == Spec => RequestsStayBound
<1>1. ASSUME TypeOK, Next, NEW r \in Request, request[r] # NoJob
      PROVE  request'[r] = request[r]
  <2>1. CASE \E q \in Request : Enqueue(q)
    <3>1. PICK q \in Request : Enqueue(q)
      BY <2>1
    <3>2. q # r /\ \E j : request' = [request EXCEPT ![q] = j]
      BY <1>1, <3>1 DEF Enqueue
    <3> QED
      BY <1>1, <3>2 DEF TypeOK
  <2>2. CASE ~\E q \in Request : Enqueue(q)
    BY ZenonT(60), <1>1, <2>2 DEF Next, Owner, Work, Step, Cancel, EnableSchedule,
       DisableSchedule, UpdateDiscussions, RetryFailed, DisableSource,
       EnableSource, StartManual, FinishManual, ScheduleDue, Tick, Claim,
       TakeSpool, SpoolBusy, OpenPreparation, Heartbeat, Prepared, Seal,
       CreateBatch, IngestItem, Finish, LoseLease, ProviderError, SpoolError,
       ReportFailure, Crash, Fail
  <2> QED
    BY <2>1, <2>2
<1>2. TypeOK /\ [Next]_vars =>
        [\A r \in Request : request[r] # NoJob => request'[r] = request[r]]_vars
  BY <1>1 DEF vars
<1> QED
  BY <1>2, TypeCorrect, PTL DEF Spec, RequestsStayBound

(***************************************************************************)
(* The subscription's cursor advances by the batch that was prepared from  *)
(* it and is reset only with a new revision (finish_batch's caller and     *)
(* update_discussions).                                                    *)
(***************************************************************************)
THEOREM CursorAdvances == Spec => CursorNeverRegresses
<1>1. ASSUME TypeOK, RowInv, SpoolInv, Next, sub'.progress # sub.progress
      PROVE  \/ sub'.progress = sub.progress + 1
             \/ sub'.revision = sub.revision + 1
  <2>1. Paused.progress = sub.progress
    BY <1>1 DEF Paused, TypeOK, Subscription
  <2>2. CASE UpdateDiscussions
    BY <1>1, <2>2 DEF UpdateDiscussions, Paused, TypeOK, Subscription
  <2>3. CASE \E w \in Worker : Finish(w)
    <3>1. PICK w \in Worker : Finish(w)
      BY <2>3
    <3>2. sub'.progress = sub.progress
          \/ sub'.progress = spool[wk[w].job].base + 1
      BY <1>1, <2>1, <3>1 DEF Concluded, Finish, TypeOK, Subscription
    <3>3. Holds(w) /\ wk[w].pc = "items"
      BY <3>1 DEF Concluded, Finish
    <3>4. Recoverable(wk[w].job) /\ wk[w].job \in JobIds
      BY <1>1, <3>3, HeldJob DEF Holds
    <3>5. spool[wk[w].job].state = "sealed"
      BY <1>1, <3>3 DEF SpoolInv, WorkerSeesSpool
    <3>6. spool[wk[w].job].base = sub.progress
      BY <1>1, <3>4, <3>5 DEF SpoolInv, PreparedFromCurrentProgress
    <3> QED
      BY <1>1, <3>2, <3>6
  <2>4. CASE ~UpdateDiscussions /\ ~\E w \in Worker : Finish(w)
    <3>1. sub'.progress = sub.progress
      <4>1. ASSUME NEW n \in Intervals,
                   EnableSchedule(n) \/ DisableSchedule(n)
            PROVE  sub'.progress = sub.progress
        BY <1>1, <4>1 DEF EnableSchedule, DisableSchedule, Paused, TypeOK,
                    Subscription
      <4>2. CASE ScheduleDue \/ Tick \/ DisableSource
        BY <1>1, <4>2, <2>1 DEF ScheduleDue, Tick, DisableSource, TypeOK,
                          Subscription
      <4>3. ASSUME NEW w \in Worker, Claim(w) \/ ReportFailure(w)
            PROVE  sub'.progress = sub.progress
        BY <4>3, <2>1 DEF Claim, ReportFailure
      <4> QED
        BY <1>1, <2>4, <4>1, <4>2, <4>3 DEF Next, Owner, Work, Step, Enqueue,
           Cancel, RetryFailed, EnableSource, StartManual, FinishManual,
           TakeSpool, SpoolBusy, OpenPreparation, Heartbeat, Prepared, Seal,
           CreateBatch, IngestItem, LoseLease, ProviderError, SpoolError,
           Crash, Fail
    <3> QED
      BY <1>1, <3>1
  <2> QED
    BY <2>2, <2>3, <2>4
<1>2. TypeOK /\ RowInv /\ SpoolInv /\ [Next]_vars =>
        [sub'.progress # sub.progress =>
           \/ sub'.progress = sub.progress + 1
           \/ sub'.revision = sub.revision + 1]_vars
  BY <1>1 DEF vars
<1> QED
  BY <1>2, SpoolInvariant, PTL DEF Spec, CursorNeverRegresses

\* How the status of a job may change.
LEMMA StatusMoves ==
  ASSUME TypeOK, RowInv, Next, NEW j \in JobIds,
         job'[j].status # job[j].status
  PROVE  \/ job[j].status = "absent" /\ job'[j].status = "pending"
         \/ Active(j) /\ job'[j].status \in ACTIVE \cup {"cancelled", "failed"}
         \/ job[j].status = "failed" /\ job'[j].status = "pending" /\ j = count
         \/ Active(j) /\ \E w \in Worker : Finish(w) /\ j = wk[w].job
<1> DEFINE Goal ==
      \/ job[j].status = "absent" /\ job'[j].status = "pending"
      \/ Active(j) /\ job'[j].status \in ACTIVE \cup {"cancelled", "failed"}
      \/ job[j].status = "failed" /\ job'[j].status = "pending" /\ j = count
      \/ Active(j) /\ \E w \in Worker : Finish(w) /\ j = wk[w].job
<1>1. job[j] \in Job /\ \A k \in JobIds : job[k] \in Job
  BY DEF TypeOK
<1>2. CASE CreateJob
  <2>1. count + 1 \in JobIds /\ count + 1 > count
    BY <1>2, BoundsAssumption DEF CreateJob, TypeOK, JobIds
  <2>2. job[count + 1].status = "absent"
    BY <2>1 DEF RowInv, FutureJobsAbsent
  <2>3. \A k \in JobIds : job'[k] = IF k = count + 1 THEN NewJob ELSE job[k]
    BY <1>2 DEF CreateJob, TypeOK
  <2> QED
    BY <2>2, <2>3, NewJobFields
<1>3. CASE job' = CancelledJobs
  BY <1>1, <1>3, CancelledFields DEF Active
<1>4. CASE RetryFailed
  <2>1. \A k \in JobIds :
          job'[k] = IF k = count THEN Reopened(job[k]) ELSE job[k]
    BY <1>4 DEF RetryFailed, TypeOK
  <2> QED
    BY <1>1, <1>4, <2>1, RowFields DEF RetryFailed
<1>5. CASE DisableSource
  BY <1>1, <1>5, RowFields DEF DisableSource
<1>6. CASE Tick
  BY <1>1, <1>6 DEF Tick, Job
<1>7. ASSUME NEW w \in Worker, Claim(w) PROVE Goal
  <2>1. PICK k \in ActiveJobs :
          \/ job' = Refused(k)
          \/ job' = [job EXCEPT ![k] = Settled(@, "failed")]
          \/ job' = [job EXCEPT ![k] = LeasedTo(w, @)]
    BY <1>7 DEF Claim
  <2>2. k \in JobIds /\ Active(k)
    BY DEF ActiveJobs
  <2>3. CASE job' = Refused(k)
    <3>1. CASE policy
      BY <1>3, <2>3, <3>1 DEF Refused
    <3>2. CASE ~policy
      BY <1>1, <2>2, <2>3, <3>2, RowFields DEF Refused, TypeOK
    <3> QED
      BY <3>1, <3>2
  <2>4. CASE job' = [job EXCEPT ![k] = Settled(@, "failed")]
    BY <1>1, <2>2, <2>4, RowFields DEF TypeOK, Status, Finished
  <2>5. CASE job' = [job EXCEPT ![k] = LeasedTo(w, @)]
    BY <1>1, <2>2, <2>5, RowFields DEF TypeOK, ACTIVE
  <2> QED
    BY <2>1, <2>3, <2>4, <2>5
<1>8. ASSUME NEW w \in Worker, Holds(w),
             job' = [job EXCEPT ![wk[w].job] = Renewed(w)]
      PROVE  FALSE
  BY <1>8, RenewedFields DEF TypeOK, Holds
<1>9. ASSUME NEW w \in Worker, CreateBatch(w) PROVE FALSE
  <2>1. job' = [job EXCEPT ![wk[w].job] = [Renewed(w) EXCEPT !.bound = TRUE]]
        /\ Holds(w)
    BY <1>9 DEF CreateBatch
  <2>2. [Renewed(w) EXCEPT !.bound = TRUE].status = Renewed(w).status
    BY <2>1, RenewedFields DEF Job
  <2> QED
    BY <2>1, <2>2, RenewedFields DEF TypeOK, Holds
<1>10. ASSUME NEW w \in Worker, Finish(w) PROVE Goal
  <2>1. j = wk[w].job
    BY <1>10 DEF Concluded, Finish, TypeOK
  <2>2. Active(j)
    BY <1>10, <2>1 DEF Concluded, Finish, Holds, Active, ACTIVE
  <2> QED
    BY <1>10, <2>1, <2>2
<1>11. ASSUME NEW w \in Worker, ReportFailure(w) PROVE Goal
  <2>1. Holds(w)
    BY <1>11 DEF ReportFailure
  <2>2. Active(wk[w].job) /\ wk[w].job \in JobIds /\ job[wk[w].job] \in Job
    BY <1>1, <2>1 DEF Holds, Active, ACTIVE
  <2>3. \/ job' = [job EXCEPT ![wk[w].job] = Delayed(@)]
        \/ job' = [job EXCEPT ![wk[w].job] = Settled(Renewed(w), "failed")]
    BY <1>11, <2>1 DEF ReportFailure
  <2>4. Renewed(w) \in Job /\ "failed" \in Status
    BY <2>1, RenewedFields DEF Status, Finished
  <2>5. /\ Delayed(job[wk[w].job]).status = "pending"
        /\ Settled(Renewed(w), "failed").status = "failed"
    BY <2>2, <2>4, RowFields
  <2> QED
    BY <2>2, <2>3, <2>5 DEF TypeOK, ACTIVE
<1>12. CASE ScheduleDue
  BY <1>2, <1>3, <1>12 DEF ScheduleDue
<1>13. CASE Owner
  BY <1>2, <1>3, <1>4, <1>5, <1>13 DEF Owner, Enqueue, Cancel, EnableSchedule,
     DisableSchedule, UpdateDiscussions, EnableSource, StartManual,
     FinishManual
<1>14. ASSUME NEW w \in Worker, Work(w) PROVE Goal
  <2>1. CASE \/ OpenPreparation(w) \/ Heartbeat(w) \/ Prepared(w)
             \/ \E i \in Item : IngestItem(w, i)
    BY <1>8, <2>1 DEF OpenPreparation, Heartbeat, Prepared, IngestItem
  <2>2. CASE \/ TakeSpool(w) \/ SpoolBusy(w) \/ Seal(w) \/ LoseLease(w)
             \/ (\E code \in {"transient", "fatal"} : ProviderError(w, code))
             \/ SpoolError(w) \/ Crash(w)
    BY <2>2 DEF TakeSpool, SpoolBusy, Seal, LoseLease, ProviderError,
       SpoolError, Crash, Fail
  <2> QED
    BY <1>7, <1>9, <1>10, <1>11, <1>14, <2>1, <2>2 DEF Work, Step
<1> QED
  BY <1>6, <1>12, <1>13, <1>14 DEF Next

(***************************************************************************)
(* A settled job is never reopened, but for the owner's retry of the       *)
(* latest failed one (collection_jobs.retry_failed).                       *)
(***************************************************************************)
THEOREM SettledJobsStay == Spec => SettledStays
<1>1. TypeOK /\ RowInv /\ [Next]_vars =>
        [\A j \in JobIds :
           job[j].status \in (Status \ ACTIVE) /\ job'[j].status # job[j].status
             => /\ job[j].status = "failed" /\ job'[j].status = "pending"
                /\ j = count]_vars
  BY StatusMoves DEF vars, Active, Status, ACTIVE, Finished
<1> QED
  BY <1>1, RowsInvariant, PTL DEF Spec, SettledStays

-----------------------------------------------------------------------------
(***************************************************************************)
(* Receipts.                                                               *)
(***************************************************************************)
AbsentRunIsEmpty == \A j \in JobIds : run[j].status = "none" => run[j] = NoRun

ReceiptsExpected ==
  \A j \in JobIds, i \in Item :
    run[j].receipt[i] # "none" => i \in run[j].expected

TodoExpected ==
  \A w \in Worker :
    wk[w].pc = "items" => wk[w].todo \subseteq run[wk[w].job].expected

InvalidNotSaved ==
  \A j \in JobIds : run[j].status # "none" =>
    /\ spool[j].state # "open"
    /\ \A i \in spool[j].invalid : run[j].receipt[i] # "saved"

ReceiptInv ==
  /\ AbsentRunIsEmpty
  /\ ReceiptsExpected
  /\ TodoExpected
  /\ InvalidNotSaved
  /\ SuccessIsComplete

LEMMA InitReceipts == Init => ReceiptInv
<1> SUFFICES ASSUME Init PROVE ReceiptInv
  OBVIOUS
<1>1. /\ \A j \in JobIds : run[j] = NoRun /\ job[j] = AbsentJob
      /\ \A w \in Worker : wk[w] = Idle
  BY DEF Init
<1> QED
  BY SMTT(30), <1>1 DEF ReceiptInv, AbsentRunIsEmpty, ReceiptsExpected, TodoExpected,
     InvalidNotSaved, SuccessIsComplete, NoRun, AbsentJob, Idle

\* A step that writes no run and completes no job.
LEMMA QuietReceipts ==
  ASSUME ReceiptInv, run' = run,
         \A j \in JobIds : job'[j].status \in {"completed", "empty"} =>
                            job'[j].status = job[j].status,
         \A w \in Worker : wk'[w].pc = "items" => wk'[w] = wk[w],
         \A j \in JobIds : run[j].status # "none" =>
                            spool'[j] = spool[j] \/ spool'[j] = NoSpool
  PROVE  ReceiptInv'
<1>1. AbsentRunIsEmpty' /\ ReceiptsExpected' /\ TodoExpected'
  BY DEF ReceiptInv, AbsentRunIsEmpty, ReceiptsExpected, TodoExpected
<1>2. InvalidNotSaved'
  BY DEF ReceiptInv, InvalidNotSaved, NoSpool
<1>3. SuccessIsComplete'
  BY DEF ReceiptInv, SuccessIsComplete
<1> QED
  BY <1>1, <1>2, <1>3 DEF ReceiptInv

LEMMA CreateBatchReceipts ==
  ASSUME TypeOK, RowInv, SpoolInv, ReceiptInv, Next, NEW w \in Worker,
         CreateBatch(w)
  PROVE  ReceiptInv'
<1> DEFINE j == wk[w].job
<1>1. /\ Holds(w) /\ wk[w].pc = "batch" /\ j \in JobIds /\ Recoverable(j)
      /\ spool' = spool
  BY HeldJob DEF CreateBatch, Holds
<1>2. spool[j].state = "sealed"
  BY <1>1 DEF SpoolInv, WorkerSeesSpool
<1>3. job[j].status = "running"
      /\ \A k \in JobIds : job'[k].status = job[k].status
  <2>1. job' = [job EXCEPT ![j] = [Renewed(w) EXCEPT !.bound = TRUE]]
    BY DEF CreateBatch
  <2>2. [Renewed(w) EXCEPT !.bound = TRUE].status = Renewed(w).status
    BY <1>1, RenewedFields DEF Job
  <2> QED
    BY <1>1, <2>1, <2>2, RenewedFields DEF TypeOK, Holds
<1>4. /\ wk'[w].pc = "items" /\ wk'[w].job = j /\ wk'[w].todo = spool[j].items
      /\ \A v \in Worker : v # w => wk'[v] = wk[v]
  BY DEF CreateBatch, TypeOK, WorkerState
<1>5. \A v \in Worker : v # w => wk[v].pc # "items"
  BY <1>1, Alone DEF InSpool
<1>6. CASE run[j].status = "none"
  <2>1. run' = [run EXCEPT ![j] = [NoRun EXCEPT !.status = "active",
                                     !.expected = spool[j].items]]
    BY <1>6 DEF CreateBatch
  <2>2. /\ run'[j].status = "active" /\ run'[j].expected = spool[j].items
        /\ \A i \in Item : run'[j].receipt[i] = "none"
        /\ \A k \in JobIds : k # j => run'[k] = run[k]
    BY <1>1, <2>1 DEF TypeOK, NoRun
  <2>3. AbsentRunIsEmpty' /\ ReceiptsExpected'
    BY <2>2 DEF ReceiptInv, AbsentRunIsEmpty, ReceiptsExpected
  <2>4. TodoExpected'
    BY <1>4, <1>5, <2>2 DEF TodoExpected
  <2>5. spool \in [JobIds -> Spool]
    BY DEF TypeOK
  <2>6. InvalidNotSaved'
    BY <1>1, <1>2, <2>2, <2>5 DEF ReceiptInv, InvalidNotSaved, Spool
  <2>7. SuccessIsComplete'
    BY <1>3, <2>2 DEF ReceiptInv, SuccessIsComplete
  <2> QED
    BY <2>3, <2>4, <2>6, <2>7 DEF ReceiptInv
<1>7. CASE run[j].status # "none"
  <2>1. run' = run
    BY <1>7 DEF CreateBatch
  <2>2. run[j].expected = spool[j].items
    BY <1>1, <1>7 DEF SpoolInv, BatchHasItsManifest
  <2>3. AbsentRunIsEmpty' /\ ReceiptsExpected' /\ InvalidNotSaved'
    BY <1>1, <2>1 DEF ReceiptInv, AbsentRunIsEmpty, ReceiptsExpected,
                      InvalidNotSaved
  <2>4. TodoExpected'
    BY <1>4, <1>5, <2>1, <2>2 DEF TodoExpected
  <2>5. SuccessIsComplete'
    BY <1>3, <2>1 DEF ReceiptInv, SuccessIsComplete
  <2> QED
    BY <2>3, <2>4, <2>5 DEF ReceiptInv
<1> QED
  BY <1>6, <1>7

\* What an ingested item's receipt becomes.
LEMMA ReceiptWritten ==
  ASSUME TypeOK, NEW w \in Worker, NEW i \in Item, IngestItem(w, i)
  PROVE  \E o \in ReceiptOf(wk[w].job, i) :
           /\ o # "none"
           /\ run'[wk[w].job].receipt =
                 [run[wk[w].job].receipt EXCEPT ![i] = o]
           /\ run'[wk[w].job].status = run[wk[w].job].status
           /\ run'[wk[w].job].expected = run[wk[w].job].expected
           /\ \A k \in JobIds : k # wk[w].job => run'[k] = run[k]
<1>1. PICK o \in ReceiptOf(wk[w].job, i) :
        run' = [run EXCEPT ![wk[w].job].receipt[i] = o]
  BY DEF IngestItem
<1>2. o # "none"
  BY DEF ReceiptOf
<1>3. wk[w].job \in JobIds
  BY DEF IngestItem, Holds
<1> QED
  BY <1>1, <1>2, <1>3 DEF TypeOK, Run

LEMMA IngestReceipts ==
  ASSUME TypeOK, RowInv, SpoolInv, ReceiptInv, NEW w \in Worker,
         NEW i \in Item, IngestItem(w, i)
  PROVE  ReceiptInv'
<1> DEFINE j == wk[w].job
<1>1. /\ Holds(w) /\ wk[w].pc = "items" /\ j \in JobIds /\ i \in wk[w].todo
      /\ spool' = spool /\ job' = [job EXCEPT ![j] = Renewed(w)]
  BY DEF IngestItem, Holds
<1>2. PICK o \in ReceiptOf(j, i) :
           /\ o # "none"
           /\ run'[j].receipt = [run[j].receipt EXCEPT ![i] = o]
           /\ run'[j].status = run[j].status
           /\ run'[j].expected = run[j].expected
           /\ \A k \in JobIds : k # j => run'[k] = run[k]
  BY ReceiptWritten
<1>3. /\ run[j].status # "none" /\ i \in run[j].expected
      /\ wk[w].todo \subseteq run[j].expected
  BY <1>1 DEF SpoolInv, WorkerSeesSpool, ReceiptInv, TodoExpected
<1>4. \A k \in Item :
        run'[j].receipt[k] = IF k = i THEN o ELSE run[j].receipt[k]
  BY <1>1, <1>2 DEF TypeOK, Run
<1>5. /\ wk'[w].job = j /\ wk'[w].todo \subseteq wk[w].todo
      /\ \A v \in Worker : v # w => wk'[v] = wk[v]
  BY DEF IngestItem, TypeOK, WorkerState
<1>6. \A v \in Worker : v # w => wk[v].pc # "items"
  BY <1>1, Alone DEF InSpool
<1>7. AbsentRunIsEmpty'
  BY <1>2, <1>3 DEF ReceiptInv, AbsentRunIsEmpty
<1>8. ReceiptsExpected'
  BY <1>2, <1>3, <1>4 DEF ReceiptInv, ReceiptsExpected
<1>9. TodoExpected'
  BY <1>2, <1>3, <1>5, <1>6 DEF TodoExpected
<1>10. InvalidNotSaved'
  <2>1. i \in spool[j].invalid => o = "failed"
    BY DEF ReceiptOf
  <2>2. spool[j].invalid \subseteq Item
    BY <1>1 DEF TypeOK, Spool
  <2>3. spool[j].state # "open"
        /\ \A k \in spool[j].invalid : run[j].receipt[k] # "saved"
    BY <1>1, <1>3 DEF ReceiptInv, InvalidNotSaved
  <2>4. \A k \in spool[j].invalid : run'[j].receipt[k] # "saved"
    BY <1>4, <2>1, <2>2, <2>3
  <2> HIDE DEF j
  <2> QED
    BY ZenonT(60), <1>1, <1>2, <2>3, <2>4 DEF ReceiptInv, InvalidNotSaved
<1>11. SuccessIsComplete'
  <2>1. job[j].status = "running"
        /\ \A k \in JobIds : job'[k].status = job[k].status
    BY <1>1, RenewedFields DEF TypeOK, Holds
  <2> QED
    BY <1>2, <2>1 DEF ReceiptInv, SuccessIsComplete
<1> QED
  BY <1>7, <1>8, <1>9, <1>10, <1>11 DEF ReceiptInv

LEMMA FinishReceipts ==
  ASSUME TypeOK, RowInv, SpoolInv, ReceiptInv, NEW w \in Worker, Finish(w)
  PROVE  ReceiptInv'
<1> DEFINE j == wk[w].job
           status == BatchStatus(j)
<1>1. /\ Holds(w) /\ wk[w].pc = "items" /\ j \in JobIds /\ spool' = spool
      /\ run' = [run EXCEPT ![j].status = status]
      /\ job' = [job EXCEPT ![j] = Settled(Renewed(w), status)]
      /\ Received(j, "none") \cap run[j].expected = {}
      /\ wk' = [wk EXCEPT ![w] = Idle]
  BY DEF Concluded, Finish, Holds
<1>2. status \in Finished
  BY DEF BatchStatus, Finished
<1>3. /\ run'[j].status = status /\ run'[j].expected = run[j].expected
      /\ run'[j].receipt = run[j].receipt
      /\ \A k \in JobIds : k # j => run'[k] = run[k]
  BY <1>1 DEF TypeOK, Run
<1>4. run[j].status # "none"
  BY <1>1 DEF SpoolInv, WorkerSeesSpool
<1>5. /\ wk'[w].pc = "idle"
      /\ \A v \in Worker : v # w => wk'[v] = wk[v]
  BY <1>1 DEF TypeOK, Idle
<1>6. \A v \in Worker : v # w => wk[v].pc # "items"
  BY <1>1, Alone DEF InSpool
<1>7. AbsentRunIsEmpty'
  BY <1>2, <1>3 DEF ReceiptInv, AbsentRunIsEmpty, Finished
<1>8. ReceiptsExpected'
  BY <1>3 DEF ReceiptInv, ReceiptsExpected
<1>9. TodoExpected'
  BY <1>5, <1>6 DEF TodoExpected
<1>10. InvalidNotSaved'
  BY <1>1, <1>3, <1>4 DEF ReceiptInv, InvalidNotSaved
<1>11. SuccessIsComplete'
  <2>1. Renewed(w) \in Job /\ status \in Status
    BY <1>1, <1>2, RenewedFields DEF Status
  <2>2. Settled(Renewed(w), status).status = status
    BY <2>1, RowFields
  <2>3. job'[j].status = status /\ \A k \in JobIds : k # j => job'[k] = job[k]
    BY <1>1, <2>2 DEF TypeOK
  <2>4. ASSUME status \in {"completed", "empty"}, NEW i \in Item
        PROVE  run[j].receipt[i] =
                 IF i \in run[j].expected THEN "saved" ELSE "none"
    <3>1. Received(j, "failed") = {} /\ Received(j, "blocked") = {}
      BY <2>4 DEF BatchStatus
    <3>2. run[j].receipt[i] \in {"none", "saved", "blocked", "failed"}
      BY <1>1 DEF TypeOK, Run, Outcome
    <3>3. run[j].receipt[i] \in {"none", "saved"}
      BY <3>1, <3>2 DEF Received
    <3>4. i \in run[j].expected => run[j].receipt[i] # "none"
      BY <1>1 DEF Received
    <3>5. run[j].receipt[i] # "none" => i \in run[j].expected
      BY <1>1 DEF ReceiptInv, ReceiptsExpected
    <3> QED
      BY <3>3, <3>4, <3>5
  <2> QED
    BY <1>3, <2>3, <2>4 DEF ReceiptInv, SuccessIsComplete
<1> QED
  BY <1>7, <1>8, <1>9, <1>10, <1>11 DEF ReceiptInv

LEMMA NextReceipts ==
  ASSUME TypeOK, RowInv, SpoolInv, ReceiptInv, Next
  PROVE  ReceiptInv'
<1>1. CASE \E w \in Worker : CreateBatch(w)
  BY <1>1, CreateBatchReceipts
<1>2. CASE \E w \in Worker, i \in Item : IngestItem(w, i)
  BY <1>2, IngestReceipts
<1>3. CASE \E w \in Worker : Finish(w)
  BY <1>3, FinishReceipts
<1>4. CASE /\ ~\E w \in Worker : CreateBatch(w)
           /\ ~\E w \in Worker, i \in Item : IngestItem(w, i)
           /\ ~\E w \in Worker : Finish(w)
  <2>1. \A j \in JobIds : job'[j].status \in {"completed", "empty"} =>
                          job'[j].status = job[j].status
    BY <1>4, StatusMoves DEF ACTIVE
  <2>2. run' = run
    BY <1>4 DEF Next, Owner, Work, Step, Enqueue, Cancel, EnableSchedule,
       DisableSchedule, UpdateDiscussions, RetryFailed, DisableSource,
       EnableSource, StartManual, FinishManual, ScheduleDue, Tick, Claim,
       TakeSpool, SpoolBusy, OpenPreparation, Heartbeat, Prepared, Seal,
       LoseLease, ProviderError, SpoolError, ReportFailure, Crash, Fail
  <2>3. CASE \A w \in Worker : ~Work(w)
    <3>1. UNCHANGED <<spool, wk>>
      BY <2>3 DEF Next, Owner, Enqueue, Cancel, EnableSchedule,
         DisableSchedule, UpdateDiscussions, RetryFailed, DisableSource,
         EnableSource, StartManual, FinishManual, ScheduleDue, Tick
    <3> QED
      BY <2>1, <2>2, <3>1, QuietReceipts
  <2>4. ASSUME NEW w \in Worker, Work(w) PROVE ReceiptInv'
    <3>1. \A v \in Worker : v # w => wk'[v] = wk[v]
      BY <1>4, <2>4 DEF Work, Step, Claim, TakeSpool, SpoolBusy,
         OpenPreparation, Heartbeat, Prepared, Seal, LoseLease, ProviderError,
         SpoolError, ReportFailure, Crash, Fail, TypeOK
    <3>2. wk'[w].pc = "items" => wk'[w] = wk[w]
      <4>1. CASE TakeSpool(w)
        <5>1. wk'[w].pc \in {"batch", "open"}
          BY <4>1 DEF TakeSpool, TypeOK, WorkerState
        <5> QED
          BY <5>1
      <4>2. CASE Claim(w)
        <5>1. UNCHANGED wk \/ wk'[w].pc = "claimed"
          BY <4>2 DEF Claim, TypeOK, Idle
        <5> QED
          BY <5>1
      <4>3. CASE ReportFailure(w) \/ Crash(w)
        <5>1. wk'[w].pc = "idle"
          BY <4>3 DEF ReportFailure, Crash, TypeOK, Idle
        <5> QED
          BY <5>1
      <4>4. CASE OpenPreparation(w) \/ Prepared(w) \/ Seal(w)
        <5>1. wk'[w].pc \in {"prepare", "seal", "batch"}
          BY <4>4 DEF OpenPreparation, Prepared, Seal, TypeOK, WorkerState
        <5> QED
          BY <5>1
      <4>5. CASE Heartbeat(w)
        BY <4>5 DEF Heartbeat
      <4>6. CASE \E code : Fail(w, code)
        <5>1. wk'[w].pc = "failing"
          BY <4>6 DEF Fail, TypeOK, WorkerState
        <5> QED
          BY <5>1
      <4> QED
        BY <1>4, <2>4, <4>1, <4>2, <4>3, <4>4, <4>5, <4>6 DEF Work, Step,
           SpoolBusy, LoseLease, ProviderError, SpoolError
    <3>3. \A j \in JobIds : run[j].status # "none" =>
                            spool'[j] = spool[j] \/ spool'[j] = NoSpool
      <4>1. CASE TakeSpool(w)
        BY <4>1 DEF TakeSpool
      <4>2. CASE OpenPreparation(w)
        <5>1. Holds(w) /\ wk[w].pc = "open"
          BY <4>2 DEF OpenPreparation
        <5>2. Recoverable(wk[w].job) /\ wk[w].job \in JobIds
          BY <5>1, HeldJob DEF Holds
        <5>3. spool[wk[w].job].state # "sealed"
          BY <5>1 DEF SpoolInv, WorkerSeesSpool
        <5>4. run[wk[w].job].status = "none"
          BY <5>2, <5>3 DEF SpoolInv, BatchHasItsManifest
        <5>5. \A k \in JobIds : k # wk[w].job => spool'[k] = spool[k]
          BY <4>2 DEF OpenPreparation, TypeOK
        <5> QED
          BY <5>4, <5>5
      <4>3. CASE Seal(w)
        <5>1. PICK m \in Manifests :
                spool' = [spool EXCEPT ![wk[w].job] = SealedWith(m, @)]
          BY <4>3 DEF Seal
        <5>2. wk[w].pc = "seal"
          BY <4>3 DEF Seal
        <5>3. spool[wk[w].job].state = "open" /\ wk[w].job \in 1..count
          BY <5>2 DEF SpoolInv, WorkerSeesSpool
        <5>4. wk[w].job \in JobIds
          BY <5>3, BoundsAssumption DEF TypeOK, JobIds
        <5>5. run[wk[w].job].status = "none"
          BY <5>3, <5>4 DEF ReceiptInv, InvalidNotSaved
        <5>6. \A k \in JobIds : k # wk[w].job => spool'[k] = spool[k]
          BY <5>1 DEF TypeOK
        <5> QED
          BY <5>5, <5>6
      <4>4. CASE ~TakeSpool(w) /\ ~OpenPreparation(w) /\ ~Seal(w)
        BY <1>4, <2>4, <4>4 DEF Work, Step, Claim, SpoolBusy, Heartbeat,
           Prepared, LoseLease, ProviderError, SpoolError, ReportFailure,
           Crash, Fail
      <4> QED
        BY <4>1, <4>2, <4>3, <4>4
    <3> QED
      BY <2>1, <2>2, <3>1, <3>2, <3>3, QuietReceipts
  <2> QED
    BY <2>3, <2>4
<1> QED
  BY <1>1, <1>2, <1>3, <1>4

THEOREM ReceiptInvariant == Spec => [](TypeOK /\ RowInv /\ SpoolInv /\ ReceiptInv)
<1>1. TypeOK /\ RowInv /\ SpoolInv /\ ReceiptInv /\ [Next]_vars => ReceiptInv'
  <2> SUFFICES ASSUME TypeOK, RowInv, SpoolInv, ReceiptInv, [Next]_vars
               PROVE  ReceiptInv'
    OBVIOUS
  <2>1. CASE UNCHANGED vars
    BY <2>1, QuietReceipts DEF vars
  <2>2. CASE Next
    BY <2>2, NextReceipts
  <2> QED
    BY <2>1, <2>2
<1> QED
  BY <1>1, InitReceipts, SpoolInvariant, PTL DEF Spec

(***************************************************************************)
(* A job that ended completed or empty has a saved receipt for every item  *)
(* its run declared (collection_runs.finish_batch).                        *)
(***************************************************************************)
THEOREM CompleteMeansArchived == Spec => []SuccessIsComplete
BY ReceiptInvariant, PTL DEF ReceiptInv

(***************************************************************************)
(* A saved receipt is never lost or rewritten, whatever is retried         *)
(* (collection_runs.save_receipt).                                         *)
(***************************************************************************)
THEOREM ReceiptsStay == Spec => ReceiptsAreDurable
<1>1. ASSUME TypeOK, RowInv, SpoolInv, ReceiptInv, Next, NEW j \in JobIds,
             NEW i \in Item, run[j].receipt[i] = "saved",
             run'[j].receipt[i] # "saved"
      PROVE  FALSE
  <2>1. PICK w \in Worker :
          /\ wk[w].job = j
          /\ CreateBatch(w) \/ (\E k \in Item : IngestItem(w, k)) \/ Finish(w)
    BY <1>1, RunWriters
  <2>2. run[j].status # "none"
    BY <1>1 DEF ReceiptInv, AbsentRunIsEmpty, NoRun
  <2>3. CASE CreateBatch(w)
    BY <1>1, <2>1, <2>2, <2>3 DEF CreateBatch
  <2>4. ASSUME NEW k \in Item, IngestItem(w, k) PROVE FALSE
    <3>1. PICK o \in ReceiptOf(j, k) :
            run'[j].receipt = [run[j].receipt EXCEPT ![k] = o]
      BY SMTT(30), <1>1, <2>1, <2>4, ReceiptWritten
    <3>2. k = i /\ o # "saved"
      BY <1>1, <3>1 DEF TypeOK, Run
    <3>3. i \notin spool[j].invalid
      BY <1>1, <2>2 DEF ReceiptInv, InvalidNotSaved
    <3> QED
      BY <1>1, <3>2, <3>3 DEF ReceiptOf
  <2>5. CASE Finish(w)
    BY <1>1, <2>5 DEF Concluded, Finish, TypeOK, Run
  <2> QED
    BY <2>1, <2>3, <2>4, <2>5
<1>2. TypeOK /\ RowInv /\ SpoolInv /\ ReceiptInv /\ [Next]_vars =>
        [\A j \in JobIds, i \in Item :
           run[j].receipt[i] = "saved" => run'[j].receipt[i] = "saved"]_vars
  BY <1>1 DEF vars
<1> QED
  BY <1>2, ReceiptInvariant, PTL DEF Spec, ReceiptsAreDurable
-----------------------------------------------------------------------------
(***************************************************************************)
(* Every behaviour of CollectionJobs is one of SourceSync: the initial     *)
(* states map to its initial state, and each step maps to a step of it or  *)
(* leaves what it speaks of as it is.                                      *)
(***************************************************************************)
Syncs == [j \in JobIds |-> SyncOf(j)]

\* The three invariants proved of CollectionJobs, together.
JobsInv == TypeOK /\ RowInv /\ SpoolInv /\ ReceiptInv

Stutter == UNCHANGED <<sub.progress, sub.revision, count, Syncs>>

LEMMA SyncFields ==
  ASSUME NEW j
  PROVE  /\ SyncOf(j).state = IF Active(j) THEN "active" ELSE job[j].status
         /\ SyncOf(j).revision = job[j].revision
         /\ SyncOf(j).manifest =
              IF run[j].status = "none" THEN "none" ELSE "fixed"
         /\ SyncOf(j).items = run[j].expected
         /\ SyncOf(j).receipt = run[j].receipt
BY DEF SyncOf

LEMMA InitRefines == Init => Source!Init
<1> SUFFICES ASSUME Init PROVE Source!Init
  OBVIOUS
<1>1. sub.progress = 0 /\ sub.revision = 1 /\ count = 0
  BY DEF Init
<1>2. \A j \in JobIds : SyncOf(j) = Source!Absent
  BY DEF Init, SyncOf, Active, ACTIVE, AbsentJob, NoRun, Source!Absent,
         Source!Fresh
<1>3. Syncs = [s \in Source!SyncIds |-> Source!Absent]
  BY <1>2 DEF Syncs, JobIds, Source!SyncIds
<1> QED
  BY <1>1, <1>3 DEF Source!Init, Syncs

\* A step that changes no job's state, revision or run.
LEMMA StutterStep ==
  ASSUME run' = run, count' = count, sub'.progress = sub.progress,
         sub'.revision = sub.revision,
         \A j \in JobIds :
           /\ Active(j)' <=> Active(j)
           /\ ~Active(j) => job'[j].status = job[j].status
           /\ job'[j].revision = job[j].revision
  PROVE  Stutter
<1>1. \A j \in JobIds : SyncOf(j)' = SyncOf(j)
  BY DEF SyncOf
<1> QED
  BY <1>1 DEF Stutter, Syncs

\* A step after which the latest job is in another state.
LEMMA StateStep ==
  ASSUME count \in JobIds, count' = count,
         \A j \in JobIds :
           /\ run'[j].status = "none" <=> run[j].status = "none"
           /\ run'[j].expected = run[j].expected
           /\ run'[j].receipt = run[j].receipt,
         NEW state, state = IF Active(count)' THEN "active" ELSE job'[count].status,
         \A j \in JobIds :
           /\ job'[j].revision = job[j].revision
           /\ j # count => /\ Active(j)' <=> Active(j)
                           /\ ~Active(j) => job'[j].status = job[j].status
  PROVE  Syncs' = [Syncs EXCEPT ![count].state = state]
<1>1. \A j \in JobIds : j # count => SyncOf(j)' = SyncOf(j)
  BY DEF SyncOf
<1>2. SyncOf(count)' = [SyncOf(count) EXCEPT !.state = state]
  BY DEF SyncOf
<1> QED
  BY <1>1, <1>2 DEF Syncs

LEMMA ActiveIsOngoing ==
  ASSUME JobsInv, NEW j \in JobIds, Active(j)
  PROVE  /\ j = count /\ count \in JobIds /\ count > 0 /\ Source!Ongoing
         /\ Source!Current = SyncOf(count)
         /\ job[count].revision = sub.revision
         /\ \A k \in JobIds : k # count => ~Active(k)
<1>1. j = count /\ job[count].revision = sub.revision
      /\ \A k \in JobIds : Active(k) => k = count
  BY DEF JobsInv, RowInv, ActiveIsLatest
<1>2. count > 0
  BY <1>1, BoundsAssumption DEF JobIds
<1>3. Source!Current = SyncOf(count)
  BY <1>1 DEF Source!Current
<1> QED
  BY <1>1, <1>2, <1>3, SyncFields DEF Source!Ongoing

\* Cancellation, by whichever call.
LEMMA CancelRefines ==
  ASSUME JobsInv, run' = run, count' = count, sub'.progress = sub.progress,
         sub'.revision = sub.revision,
         \A j \in JobIds :
           /\ job'[j].revision = job[j].revision
           /\ job'[j].status = IF Active(j) THEN "cancelled" ELSE job[j].status
  PROVE  Source!Next \/ Stutter
<1>1. CASE ActiveJobs = {}
  BY <1>1, StutterStep DEF ActiveJobs, Active
<1>2. CASE ActiveJobs # {}
  <2>1. PICK j \in JobIds : Active(j)
    BY <1>2 DEF ActiveJobs
  <2>2. /\ count \in JobIds /\ Active(count) /\ Source!Ongoing
        /\ \A k \in JobIds : k # count => ~Active(k)
    BY <2>1, ActiveIsOngoing
  <2>3. ~Active(count)' /\ job'[count].status = "cancelled"
    BY <2>2 DEF Active, ACTIVE
  <2>4. Syncs' = [Syncs EXCEPT ![count].state = "cancelled"]
    BY <2>2, <2>3, StateStep DEF Active
  <2> QED
    BY <2>2, <2>4 DEF Source!Next, Source!Abandon, Syncs
<1> QED
  BY <1>1, <1>2

\* The job fails, or runs again, with what it has.
LEMMA FailRefines ==
  ASSUME JobsInv, count \in JobIds, Active(count), run' = run, count' = count,
         sub'.progress = sub.progress, sub'.revision = sub.revision,
         job'[count].status \in ACTIVE \cup {"failed"},
         job'[count].revision = job[count].revision,
         \A j \in JobIds : j # count => job'[j] = job[j]
  PROVE  Source!Next \/ Stutter
<1>1. CASE job'[count].status \in ACTIVE
  BY <1>1, StutterStep DEF Active
<1>2. CASE job'[count].status = "failed"
  <2>1. Source!Ongoing
    BY ActiveIsOngoing
  <2>2. ~Active(count)'
    BY <1>2 DEF Active, ACTIVE
  <2>3. Syncs' = [Syncs EXCEPT ![count].state = "failed"]
    BY <1>2, <2>2, StateStep DEF Active
  <2> QED
    BY <2>1, <2>3 DEF Source!Next, Source!FallShort, Syncs
<1> QED
  BY <1>1, <1>2

LEMMA NoneOngoing ==
  ASSUME JobsInv, ActiveJobs = {}
  PROVE  ~Source!Ongoing
<1>1. CASE count > 0
  <2>1. count \in JobIds
    BY <1>1, BoundsAssumption DEF JobIds, JobsInv, TypeOK
  <2>2. ~Active(count)
    BY <2>1 DEF ActiveJobs
  <2>3. job[count].status # "active"
    BY <2>1 DEF JobsInv, TypeOK, Job, Status, ACTIVE, Finished
  <2> QED
    BY <2>1, <2>2, <2>3, SyncFields DEF Source!Ongoing, Source!Current
<1> QED
  BY <1>1 DEF Source!Ongoing

LEMMA CreateRefines ==
  ASSUME JobsInv, CreateJob, ActiveJobs = {}, run' = run,
         sub'.progress = sub.progress, sub'.revision = sub.revision
  PROVE  Source!Next
<1>1. /\ count' = count + 1 /\ count \in Nat /\ count < MaxJobs
      /\ count + 1 \in JobIds
  BY BoundsAssumption DEF CreateJob, JobsInv, TypeOK, JobIds
<1>2. \A j \in JobIds : job'[j] = IF j = count + 1 THEN NewJob ELSE job[j]
  BY DEF CreateJob, JobsInv, TypeOK
<1>3. run[count + 1] = NoRun
  BY <1>1 DEF JobsInv, SpoolInv, FutureSpoolEmpty
<1>4. NewJob.status = "pending" /\ NewJob.revision = sub.revision
  BY NewJobFields
<1>5. \A j \in JobIds : j = count + 1 => SyncOf(j)' =
        Source!Fresh("active", sub.revision)
  <2> SUFFICES ASSUME NEW j \in JobIds, j = count + 1
               PROVE  SyncOf(j)' = Source!Fresh("active", sub.revision)
    OBVIOUS
  <2>1. job'[j] = NewJob /\ run'[j] = NoRun
    BY <1>2, <1>3
  <2>2. Active(j)' /\ job'[j].revision = sub.revision
    BY <1>4, <2>1 DEF Active, ACTIVE
  <2>3. SyncOf(j)' = Source!Fresh("active", sub.revision)
    BY <2>1, <2>2 DEF SyncOf, NoRun, Source!Fresh
  <2> QED
    BY <2>3
<1>6. \A j \in JobIds : j # count + 1 => SyncOf(j)' = SyncOf(j)
  BY <1>2 DEF SyncOf, Active
<1>7. Syncs' = [Syncs EXCEPT ![count + 1] =
        Source!Fresh("active", sub.revision)]
  BY <1>1, <1>5, <1>6 DEF Syncs
<1>8. ~Source!Ongoing
  BY NoneOngoing
<1> QED
  BY <1>1, <1>7, <1>8 DEF Source!Next, Source!Begin, Syncs

LEMMA OwnerRefines ==
  ASSUME JobsInv, Owner
  PROVE  Source!Next \/ Stutter
<1>0. \A j \in JobIds : job[j] \in Job
  BY DEF JobsInv, TypeOK
<1>1. ASSUME NEW r \in Request, Enqueue(r) PROVE Source!Next \/ Stutter
  <2>1. CASE ActiveJobs # {}
    BY <1>1, <2>1, StutterStep DEF Enqueue, Active
  <2>2. CASE ActiveJobs = {}
    BY <1>1, <2>2, CreateRefines DEF Enqueue
  <2> QED
    BY <2>1, <2>2
<1>2. ASSUME job' = CancelledJobs, run' = run, count' = count,
             sub'.progress = sub.progress, sub'.revision = sub.revision
      PROVE  Source!Next \/ Stutter
  BY <1>2, CancelledFields, CancelRefines DEF JobsInv
<1>3. CASE Cancel
  BY <1>2, <1>3 DEF Cancel
<1>4. ASSUME NEW n \in Intervals, EnableSchedule(n)
      PROVE  Source!Next \/ Stutter
  <2>1. sub'.progress = sub.progress /\ sub'.revision = sub.revision
    BY <1>4 DEF EnableSchedule, JobsInv, TypeOK, Subscription
  <2> QED
    BY <1>4, <2>1, StutterStep DEF EnableSchedule, Active
<1>5. ASSUME NEW n \in Intervals, DisableSchedule(n)
      PROVE  Source!Next \/ Stutter
  <2>1. sub'.progress = sub.progress /\ sub'.revision = sub.revision
    BY <1>5 DEF DisableSchedule, Paused, JobsInv, TypeOK, Subscription
  <2> QED
    BY <1>2, <1>5, <2>1 DEF DisableSchedule
<1>6. CASE UpdateDiscussions
  <2>1. /\ sub'.progress = 0 /\ sub'.revision = sub.revision + 1
        /\ sub.revision < MaxRevision
        /\ run' = run /\ count' = count /\ job' = CancelledJobs
    BY <1>6 DEF UpdateDiscussions, Paused, JobsInv, TypeOK, Subscription
  <2>2. \A j \in JobIds :
          /\ job'[j].revision = job[j].revision
          /\ job'[j].status = IF Active(j) THEN "cancelled" ELSE job[j].status
    BY <2>1, CancelledFields DEF JobsInv
  <2>3. CASE ActiveJobs = {}
    <3>1. Syncs' = Syncs
      <4>1. \A j \in JobIds : SyncOf(j)' = SyncOf(j)
        BY <2>1, <2>2, <2>3 DEF SyncOf, Active, ActiveJobs
      <4> QED
        BY <4>1 DEF Syncs
    <3>2. ~Source!Ongoing
      BY <2>3, NoneOngoing
    <3> QED
      BY <2>1, <3>1, <3>2 DEF Source!Next, Source!Reconfigure, Syncs
  <2>4. CASE ActiveJobs # {}
    <3>1. PICK j \in JobIds : Active(j)
      BY <2>4 DEF ActiveJobs
    <3>2. /\ count \in JobIds /\ Active(count) /\ Source!Ongoing
          /\ \A k \in JobIds : k # count => ~Active(k)
      BY <3>1, ActiveIsOngoing
    <3>3. ~Active(count)' /\ job'[count].status = "cancelled"
      BY <2>1, <2>2, <3>2 DEF Active, ACTIVE
    <3>4. Syncs' = [Syncs EXCEPT ![count].state = "cancelled"]
      BY <2>1, <2>2, <3>2, <3>3, StateStep DEF Active
    <3> QED
      BY <2>1, <3>2, <3>4 DEF Source!Next, Source!Reconfigure, Syncs
  <2> QED
    BY <2>3, <2>4
<1>7. CASE RetryFailed
  <2>1. /\ count \in JobIds /\ count > 0 /\ job[count].status = "failed"
        /\ job[count].revision = sub.revision
        /\ UNCHANGED <<policy, sub, count, run>>
    BY <1>7, BoundsAssumption DEF RetryFailed, JobsInv, TypeOK, JobIds
  <2>2. \A j \in JobIds :
          job'[j] = IF j = count THEN Reopened(job[j]) ELSE job[j]
    BY <1>7 DEF RetryFailed, JobsInv, TypeOK
  <2>3. job'[count].status = "pending"
        /\ job'[count].revision = job[count].revision
    BY <1>0, <2>1, <2>2, RowFields
  <2>4. Active(count)' /\ ~Active(count)
    BY <2>1, <2>3 DEF Active, ACTIVE
  <2>5. Syncs' = [Syncs EXCEPT ![count].state = "active"]
    BY <2>1, <2>2, <2>3, <2>4, StateStep DEF Active
  <2>6. Source!Current = SyncOf(count)
    BY <2>1 DEF Source!Current
  <2> QED
    BY <2>1, <2>4, <2>5, <2>6, SyncFields
       DEF Source!Next, Source!Retry, Syncs
<1>8. CASE DisableSource
  <2>1. sub'.progress = sub.progress /\ sub'.revision = sub.revision
    BY <1>8 DEF DisableSource, Paused, JobsInv, TypeOK, Subscription
  <2>2. \A j \in JobIds :
          /\ job'[j].revision = job[j].revision
          /\ job'[j].status = IF Active(j) THEN "cancelled" ELSE job[j].status
    BY <1>0, <1>8, RowFields DEF DisableSource
  <2> QED
    BY <1>8, <2>1, <2>2, CancelRefines DEF DisableSource
<1>9. CASE EnableSource \/ StartManual \/ FinishManual
  BY <1>9, StutterStep DEF EnableSource, StartManual, FinishManual, Active
<1> QED
  BY <1>1, <1>3, <1>4, <1>5, <1>6, <1>7, <1>8, <1>9 DEF Owner

LEMMA ScheduleRefines ==
  ASSUME JobsInv, ScheduleDue
  PROVE  Source!Next \/ Stutter
<1>1. policy
  BY DEF ScheduleDue, JobsInv, RowInv, DisabledSourceIsQuiet
<1>2. sub'.progress = sub.progress /\ sub'.revision = sub.revision
      /\ run' = run
  BY <1>1 DEF ScheduleDue, JobsInv, TypeOK, Subscription
<1>3. CASE ActiveJobs = {} /\ CanEnqueue
  BY <1>1, <1>2, <1>3, CreateRefines DEF ScheduleDue
<1>4. CASE ~(ActiveJobs = {} /\ CanEnqueue)
  BY <1>1, <1>2, <1>4, StutterStep DEF ScheduleDue, Active
<1> QED
  BY <1>3, <1>4

\* A guarded write finds the lease holder's job ongoing.
LEMMA HolderIsOngoing ==
  ASSUME JobsInv, NEW w \in Worker, Holds(w)
  PROVE  /\ wk[w].job = count /\ count \in JobIds /\ Active(count)
         /\ Source!Ongoing /\ Source!Current = SyncOf(count)
<1>1. wk[w].job = count /\ count \in JobIds
  BY HeldJob DEF JobsInv
<1>2. Active(count)
  BY <1>1 DEF Holds, Active, ACTIVE
<1> QED
  BY <1>1, <1>2, ActiveIsOngoing

LEMMA RenewStep ==
  ASSUME JobsInv, NEW w \in Worker, Holds(w), run' = run,
         job' = [job EXCEPT ![wk[w].job] = Renewed(w)],
         UNCHANGED <<sub, count>>
  PROVE  Stutter
<1>1. \A j \in JobIds : /\ job'[j].status = job[j].status
                        /\ job'[j].revision = job[j].revision
  BY RenewedFields DEF JobsInv, TypeOK, Holds
<1> QED
  BY <1>1, StutterStep DEF Active

LEMMA ClaimRefines ==
  ASSUME JobsInv, NEW w \in Worker, Claim(w)
  PROVE  Source!Next \/ Stutter
<1>1. PICK j \in ActiveJobs :
        IF ~policy \/ job[j].revision # sub.revision
        THEN TRUE
        ELSE \/ /\ job' = [job EXCEPT ![j] = Settled(@, "failed")]
                /\ sub' = Paused
             \/ /\ job' = [job EXCEPT ![j] = LeasedTo(w, @)]
                /\ UNCHANGED sub
  BY DEF Claim
<1>2. Active(j) /\ j \in JobIds /\ job[j] \in Job
  BY DEF ActiveJobs, JobsInv, TypeOK
<1>3. policy /\ job[j].revision = sub.revision /\ j = count
  BY <1>2, ActiveIsOngoing DEF JobsInv, RowInv, DisabledSourceIsQuiet, ActiveJobs
<1>4. sub'.progress = sub.progress /\ sub'.revision = sub.revision
  BY <1>1, <1>3 DEF Paused, JobsInv, TypeOK, Subscription
<1>5. /\ Settled(job[j], "failed").status = "failed"
      /\ Settled(job[j], "failed").revision = job[j].revision
      /\ LeasedTo(w, job[j]).status = "running"
      /\ LeasedTo(w, job[j]).revision = job[j].revision
  BY <1>2, RowFields DEF Status, Finished
<1>6. /\ job'[j].status \in ACTIVE \cup {"failed"}
      /\ job'[j].revision = job[j].revision
      /\ \A k \in JobIds : k # j => job'[k] = job[k]
  BY <1>1, <1>2, <1>3, <1>5 DEF JobsInv, TypeOK, ACTIVE
<1>7. run' = run /\ count' = count
  BY DEF Claim
<1> QED
  BY <1>2, <1>3, <1>4, <1>6, <1>7, FailRefines

LEMMA ReportRefines ==
  ASSUME JobsInv, NEW w \in Worker, ReportFailure(w)
  PROVE  Source!Next \/ Stutter
<1>1. run' = run /\ count' = count
  BY DEF ReportFailure
<1>2. CASE ~Holds(w)
  BY <1>1, <1>2, StutterStep DEF ReportFailure, Active
<1>3. CASE Holds(w)
  <2>1. /\ wk[w].job = count /\ count \in JobIds /\ Active(count)
        /\ job[count] \in Job /\ Renewed(w) \in Job
        /\ Renewed(w).revision = job[count].revision
    BY <1>3, HolderIsOngoing, RenewedFields DEF JobsInv, TypeOK
  <2>2. \/ /\ job' = [job EXCEPT ![count] = Delayed(@)]
           /\ UNCHANGED sub
        \/ /\ job' = [job EXCEPT ![count] = Settled(Renewed(w), "failed")]
           /\ sub' = Paused
    BY <1>3, <2>1 DEF ReportFailure
  <2>3. /\ Delayed(job[count]).status = "pending"
        /\ Delayed(job[count]).revision = job[count].revision
        /\ Settled(Renewed(w), "failed").status = "failed"
        /\ Settled(Renewed(w), "failed").revision = job[count].revision
    BY <2>1, RowFields DEF Status, Finished
  <2>4. sub'.progress = sub.progress /\ sub'.revision = sub.revision
    BY <2>2 DEF Paused, JobsInv, TypeOK, Subscription
  <2>5. /\ job'[count].status \in ACTIVE \cup {"failed"}
        /\ job'[count].revision = job[count].revision
        /\ \A k \in JobIds : k # count => job'[k] = job[k]
    BY <2>1, <2>2, <2>3 DEF JobsInv, TypeOK, ACTIVE
  <2> QED
    BY <1>1, <2>1, <2>4, <2>5, FailRefines
<1> QED
  BY <1>2, <1>3

LEMMA CreateBatchRefines ==
  ASSUME JobsInv, NEW w \in Worker, CreateBatch(w)
  PROVE  Source!Next \/ Stutter
<1>1. /\ Holds(w) /\ wk[w].job = count /\ count \in JobIds
      /\ Source!Ongoing /\ Source!Current = SyncOf(count)
      /\ UNCHANGED <<sub, count>>
      /\ job' = [job EXCEPT ![count] = [Renewed(w) EXCEPT !.bound = TRUE]]
  BY HolderIsOngoing DEF CreateBatch
<1>2. \A j \in JobIds : /\ job'[j].status = job[j].status
                        /\ job'[j].revision = job[j].revision
  <2>1. /\ Renewed(w) \in Job /\ Renewed(w).status = job[count].status
        /\ Renewed(w).revision = job[count].revision
    BY <1>1, RenewedFields DEF JobsInv, Holds
  <2>2. /\ [Renewed(w) EXCEPT !.bound = TRUE].status = Renewed(w).status
        /\ [Renewed(w) EXCEPT !.bound = TRUE].revision = Renewed(w).revision
    BY <2>1 DEF Job
  <2> QED
    BY <1>1, <2>1, <2>2 DEF JobsInv, TypeOK
<1>3. CASE run[count].status # "none"
  BY <1>1, <1>2, <1>3, StutterStep DEF CreateBatch, Active
<1>4. CASE run[count].status = "none"
  <2>1. run' = [run EXCEPT ![count] = [NoRun EXCEPT !.status = "active",
                                         !.expected = spool[count].items]]
    BY <1>1, <1>4 DEF CreateBatch
  <2>2. run[count] = NoRun
    BY <1>1, <1>4 DEF JobsInv, ReceiptInv, AbsentRunIsEmpty
  <2>3. /\ run'[count].status = "active"
        /\ run'[count].expected = spool[count].items
        /\ run'[count].receipt = run[count].receipt
        /\ \A j \in JobIds : j # count => run'[j] = run[j]
    BY <1>1, <2>1, <2>2 DEF JobsInv, TypeOK, NoRun
  <2>4. \A j \in JobIds : j # count => SyncOf(j)' = SyncOf(j)
    BY <1>2, <2>3 DEF SyncOf, Active
  <2>5. SyncOf(count)' = [SyncOf(count) EXCEPT !.manifest = "fixed",
                                               !.items = spool[count].items]
    <3>1. /\ Active(count)' <=> Active(count)
          /\ job'[count].status = job[count].status
          /\ job'[count].revision = job[count].revision /\ count' = count
      BY <1>1, <1>2 DEF Active
    <3> DEFINE r == SyncOf(count)
               s == [r EXCEPT !.manifest = "fixed"]
    <3>2. s = [state    |-> IF Active(count) THEN "active" ELSE job[count].status,
               revision |-> job[count].revision,
               manifest |-> "fixed",
               items    |-> run[count].expected,
               receipt  |-> run[count].receipt]
      BY <1>4 DEF SyncOf
    <3>3. [r EXCEPT !.manifest = "fixed", !.items = spool[count].items] =
            [s EXCEPT !.items = spool[count].items]
      <4> HIDE DEF r
      <4> QED
        OBVIOUS
    <3>4. SyncOf(count)' = [s EXCEPT !.items = spool[count].items]
      <4>1. SyncOf(count)' =
              [state    |-> IF Active(count) THEN "active"
                            ELSE job[count].status,
               revision |-> job[count].revision,
               manifest |-> "fixed",
               items    |-> spool[count].items,
               receipt  |-> run[count].receipt]
        BY <2>3, <3>1 DEF SyncOf
      <4> HIDE DEF s
      <4> QED
        BY <3>2, <4>1
    <3> QED
      BY <3>3, <3>4
  <2>6. Syncs' = [Syncs EXCEPT ![count].manifest = "fixed",
                               ![count].items = spool[count].items]
    BY <1>1, <2>4, <2>5 DEF Syncs
  <2>7. Source!Current.manifest = "none"
    BY <1>1, <1>4, SyncFields
  <2>8. spool[count].items \in SUBSET Item
    BY <1>1 DEF JobsInv, TypeOK, Spool
  <2> QED
    BY <1>1, <2>6, <2>7, <2>8 DEF Source!Next, Source!Declare, Syncs
<1> QED
  BY <1>3, <1>4

LEMMA IngestRefines ==
  ASSUME JobsInv, NEW w \in Worker, NEW i \in Item, IngestItem(w, i)
  PROVE  Source!Next \/ Stutter
<1>1. /\ Holds(w) /\ wk[w].job = count /\ count \in JobIds
      /\ Source!Ongoing /\ Source!Current = SyncOf(count)
      /\ UNCHANGED <<sub, count>> /\ i \in wk[w].todo /\ wk[w].pc = "items"
      /\ job' = [job EXCEPT ![count] = Renewed(w)]
  BY HolderIsOngoing DEF IngestItem
<1>2. \A j \in JobIds : /\ job'[j].status = job[j].status
                        /\ job'[j].revision = job[j].revision
  BY <1>1, RenewedFields DEF JobsInv, TypeOK, Holds
<1>3. PICK o \in ReceiptOf(count, i) :
           /\ o # "none"
           /\ run'[count].receipt = [run[count].receipt EXCEPT ![i] = o]
           /\ run'[count].status = run[count].status
           /\ run'[count].expected = run[count].expected
           /\ \A k \in JobIds : k # count => run'[k] = run[k]
  BY <1>1, ReceiptWritten DEF JobsInv
<1>4. run[count].status # "none" /\ i \in run[count].expected
  BY <1>1 DEF JobsInv, SpoolInv, WorkerSeesSpool, ReceiptInv, TodoExpected
<1>5. run[count].receipt \in [Item -> Outcome]
  BY <1>1 DEF JobsInv, TypeOK, Run
<1>6. \A j \in JobIds : j # count => SyncOf(j)' = SyncOf(j)
  BY <1>2, <1>3 DEF SyncOf, Active
<1>7. SyncOf(count)' = [SyncOf(count) EXCEPT !.receipt = run'[count].receipt]
  <2>1. /\ Active(count)' <=> Active(count)
        /\ job'[count].status = job[count].status
        /\ job'[count].revision = job[count].revision /\ count' = count
    BY <1>1, <1>2 DEF Active
  <2> QED
    BY <1>3, <2>1 DEF SyncOf
<1>8. CASE run[count].receipt[i] = "saved"
  <2>1. i \notin spool[count].invalid
    BY <1>1, <1>4, <1>8 DEF JobsInv, ReceiptInv, InvalidNotSaved
  <2>2. o = "saved"
    BY <1>3, <1>8, <2>1 DEF ReceiptOf
  <2>3. run'[count].receipt = run[count].receipt
    BY <1>3, <1>5, <1>8, <2>2
  <2>4. SyncOf(count)' = SyncOf(count)
    <3>1. /\ Active(count)' <=> Active(count)
          /\ job'[count].status = job[count].status
          /\ job'[count].revision = job[count].revision /\ count' = count
      BY <1>1, <1>2 DEF Active
    <3> QED
      BY <1>3, <2>3, <3>1 DEF SyncOf
  <2>5. Syncs' = Syncs
    BY <1>1, <1>6, <2>4 DEF Syncs
  <2> QED
    BY <1>1, <2>5 DEF Stutter
<1>9. CASE run[count].receipt[i] # "saved"
  <2>1. o \in {"saved", "blocked", "failed"}
    BY <1>3, <1>5 DEF ReceiptOf, Outcome
  <2>2. SyncOf(count).receipt = run[count].receipt
        /\ SyncOf(count).items = run[count].expected
    BY SyncFields
  <2>3. SyncOf(count)' = [SyncOf(count) EXCEPT !.receipt[i] = o]
    BY <1>3, <1>7, <2>2
  <2>4. Syncs' = [Syncs EXCEPT ![count].receipt[i] = o]
    BY <1>1, <1>6, <2>3 DEF Syncs
  <2>5. Source!Record(i)
    BY <1>1, <1>4, <1>9, <2>1, <2>2, <2>4 DEF Source!Record, Syncs
  <2> QED
    BY <2>5 DEF Source!Next
<1> QED
  BY <1>8, <1>9

\* What a batch status says of the receipts, once every declared item has one.
LEMMA StatusMeaning ==
  ASSUME JobsInv, NEW j \in JobIds,
         Received(j, "none") \cap run[j].expected = {}
  PROVE  /\ BatchStatus(j) \in {"completed", "empty"} =>
              /\ \A i \in run[j].expected : run[j].receipt[i] = "saved"
              /\ BatchStatus(j) = IF run[j].expected = {}
                                  THEN "empty" ELSE "completed"
         /\ BatchStatus(j) = "partial" =>
              \E i \in run[j].expected : run[j].receipt[i] = "saved"
         /\ BatchStatus(j) \in Finished
<1>1. /\ run[j].expected \subseteq Item
      /\ \A i \in Item : run[j].receipt[i] \in Outcome
  BY DEF JobsInv, TypeOK, Run
<1>2. \A i \in Item : run[j].receipt[i] # "none" => i \in run[j].expected
  BY DEF JobsInv, ReceiptInv, ReceiptsExpected
<1>3. \A i \in run[j].expected : run[j].receipt[i] # "none"
  BY <1>1 DEF Received
<1>4. BatchStatus(j) \in {"completed", "empty"} =>
        /\ Received(j, "failed") = {} /\ Received(j, "blocked") = {}
        /\ BatchStatus(j) = "empty" <=> Received(j, "saved") = {}
  BY DEF BatchStatus
<1>5. BatchStatus(j) = "partial" => Received(j, "saved") # {}
  BY DEF BatchStatus
<1>6. BatchStatus(j) \in Finished
  BY DEF BatchStatus, Finished
<1>7. BatchStatus(j) \in {"completed", "empty"} =>
        \A i \in run[j].expected : run[j].receipt[i] = "saved"
  BY <1>1, <1>3, <1>4 DEF Received, Outcome
<1>8. BatchStatus(j) \in {"completed", "empty"} =>
        (run[j].expected = {} <=> Received(j, "saved") = {})
  BY <1>1, <1>2, <1>7 DEF Received
<1>9. Received(j, "saved") # {} =>
        \E i \in run[j].expected : run[j].receipt[i] = "saved"
  BY <1>2 DEF Received
<1> QED
  BY <1>4, <1>5, <1>6, <1>7, <1>8, <1>9

LEMMA FinishRefines ==
  ASSUME JobsInv, NEW w \in Worker, Finish(w)
  PROVE  Source!Next
<1> DEFINE status == BatchStatus(count)
<1>1. /\ Holds(w) /\ wk[w].job = count /\ count \in JobIds
      /\ Source!Ongoing /\ Source!Current = SyncOf(count)
      /\ wk[w].pc = "items" /\ Recoverable(count)
  BY HolderIsOngoing, HeldJob DEF Finish, JobsInv
<1>2. /\ Received(count, "none") \cap run[count].expected = {}
      /\ run' = [run EXCEPT ![count].status = status]
      /\ job' = [job EXCEPT ![count] = Settled(Renewed(w), status)]
      /\ sub' = Concluded(count, status) /\ count' = count
  BY <1>1 DEF Finish
<1>3. /\ run[count].status # "none" /\ spool[count].state = "sealed"
  BY <1>1 DEF JobsInv, SpoolInv, WorkerSeesSpool
<1>4. spool[count].base = sub.progress
  BY <1>1, <1>3 DEF JobsInv, SpoolInv, PreparedFromCurrentProgress
<1>5. /\ status \in {"completed", "empty"} =>
              /\ \A i \in run[count].expected : run[count].receipt[i] = "saved"
              /\ status = IF run[count].expected = {}
                          THEN "empty" ELSE "completed"
      /\ status = "partial" =>
            \E i \in run[count].expected : run[count].receipt[i] = "saved"
      /\ status \in Finished
  BY <1>1, <1>2, StatusMeaning
<1> HIDE DEF status
<1>6. /\ Renewed(w) \in Job /\ Renewed(w).revision = job[count].revision
      /\ status \in Status
  BY <1>1, <1>5, RenewedFields DEF JobsInv, Status
<1>7. /\ job'[count].status = status
      /\ job'[count].revision = job[count].revision
      /\ \A k \in JobIds : k # count => job'[k] = job[k]
  <2>1. /\ Settled(Renewed(w), status).status = status
        /\ Settled(Renewed(w), status).revision = Renewed(w).revision
    BY <1>6, RowFields
  <2> QED
    BY <1>1, <1>2, <1>6, <2>1 DEF JobsInv, TypeOK
<1>8. \A k \in JobIds :
        /\ run'[k].status = "none" <=> run[k].status = "none"
        /\ run'[k].expected = run[k].expected
        /\ run'[k].receipt = run[k].receipt
  BY <1>1, <1>2, <1>3, <1>5 DEF JobsInv, TypeOK, Run, Finished
<1>9. ~Active(count)'
  BY <1>2, <1>5, <1>7 DEF Active, ACTIVE, Finished
<1>10. Syncs' = [Syncs EXCEPT ![count].state = status]
  BY <1>1, <1>2, <1>7, <1>8, <1>9, StateStep DEF Active
<1>11. /\ Source!Current.items = run[count].expected
       /\ Source!Current.receipt = run[count].receipt
       /\ Source!Current.manifest = "fixed"
  BY <1>1, <1>3, SyncFields
<1>12. CASE status \in {"completed", "empty"}
  <2>1. sub'.progress = sub.progress + 1 /\ sub'.revision = sub.revision
    BY <1>2, <1>4, <1>12 DEF Concluded, JobsInv, TypeOK, Subscription
  <2>2. Syncs' = [Syncs EXCEPT ![count].state =
                    IF Source!Current.items = {} THEN "empty" ELSE "completed"]
    BY <1>5, <1>10, <1>11, <1>12
  <2>3. \A i \in Source!Current.items : Source!Current.receipt[i] = "saved"
    BY <1>5, <1>11, <1>12
  <2>4. Source!Succeed
    BY <1>1, <1>2, <1>11, <2>1, <2>2, <2>3 DEF Source!Succeed, Syncs
  <2> QED
    BY <2>4 DEF Source!Next
<1>13. CASE status \in {"partial", "failed"}
  <2>1. sub'.progress = sub.progress /\ sub'.revision = sub.revision
    BY <1>2, <1>13 DEF Concluded, Paused, JobsInv, TypeOK, Subscription
  <2>2. \/ Syncs' = [Syncs EXCEPT ![count].state = "failed"]
        \/ /\ \E i \in Source!Current.items :
                Source!Current.receipt[i] = "saved"
           /\ Syncs' = [Syncs EXCEPT ![count].state = "partial"]
    BY <1>5, <1>10, <1>11, <1>13
  <2>3. Source!FallShort
    BY <1>1, <1>2, <2>1, <2>2 DEF Source!FallShort, Syncs
  <2> QED
    BY <2>3 DEF Source!Next
<1> QED
  BY <1>5, <1>12, <1>13 DEF Finished

\* Every other step of a worker only renews its lease, or nothing at all.
LEMMA WorkRefines ==
  ASSUME JobsInv, NEW w \in Worker, Work(w)
  PROVE  Source!Next \/ Stutter
<1>1. CASE OpenPreparation(w) \/ Heartbeat(w) \/ Prepared(w)
  BY <1>1, RenewStep DEF OpenPreparation, Heartbeat, Prepared
<1>2. CASE TakeSpool(w) \/ Seal(w) \/ Crash(w)
  BY <1>2, StutterStep DEF TakeSpool, Seal, Crash, Active
<1>3. CASE \E code : Fail(w, code)
  BY <1>3, StutterStep DEF Fail, Active
<1> QED
  BY <1>1, <1>2, <1>3, ClaimRefines, CreateBatchRefines, IngestRefines,
     FinishRefines, ReportRefines
     DEF Work, Step, SpoolBusy, LoseLease, ProviderError, SpoolError

LEMMA TickRefines == ASSUME JobsInv, Tick PROVE Stutter
<1>1. \A j \in JobIds : job[j] \in Job
  BY DEF JobsInv, TypeOK
<1>2. \A j \in JobIds : /\ job'[j].status = job[j].status
                        /\ job'[j].revision = job[j].revision
  BY <1>1 DEF Tick, Job
<1>3. sub'.progress = sub.progress /\ sub'.revision = sub.revision
  BY DEF Tick, JobsInv, TypeOK, Subscription
<1> QED
  BY <1>2, <1>3, StutterStep DEF Tick, Active

LEMMA NextRefines == JobsInv /\ [Next]_vars => Source!Next \/ Stutter
<1> SUFFICES ASSUME JobsInv, [Next]_vars PROVE Source!Next \/ Stutter
  OBVIOUS
<1>1. CASE UNCHANGED vars
  BY <1>1, StutterStep DEF vars, Active
<1>2. CASE Next
  BY <1>2, OwnerRefines, ScheduleRefines, WorkRefines, TickRefines DEF Next
<1> QED
  BY <1>1, <1>2

(***************************************************************************)
(* The jobs of a source, with their leases, retries, crashes and schedule, *)
(* implement a sequence of synchronisations: one manifest each, receipts   *)
(* that are kept, and a cursor that only a complete one moves.             *)
(***************************************************************************)
THEOREM Refinement == Spec => ImplementsSourceSync
<1>1. JobsInv /\ [Next]_vars =>
        [Source!Next]_<<sub.progress, sub.revision, count, Syncs>>
  BY NextRefines DEF Stutter
<1>2. Spec => []JobsInv
  BY ReceiptInvariant, PTL DEF JobsInv
<1> QED
  BY <1>1, <1>2, InitRefines, PTL
     DEF Spec, ImplementsSourceSync, Source!Spec, Source!vars, Syncs

-----------------------------------------------------------------------------
(***************************************************************************)
(* What SourceSync promises, of the synchronisations the jobs are.         *)
(***************************************************************************)
SuccessOf(sync, revision) ==
  {j \in JobIds : sync[j].state \in {"completed", "empty"} /\ sync[j].revision = revision}

LEMMA SuccessesAre ==
  /\ Successful = SuccessOf(Syncs, sub.revision)
  /\ Successful' = SuccessOf(Syncs', sub'.revision)
  /\ Source!Successes = Successful
<1>1. \A j \in JobIds : /\ Syncs[j] = SyncOf(j)
                        /\ Syncs'[j] = SyncOf(j)'
  BY DEF Syncs
<1>2. \A j \in JobIds : /\ SyncOf(j).state = IF Active(j) THEN "active" ELSE job[j].status
                        /\ SyncOf(j).revision = job[j].revision
  BY SyncFields
<1>3. \A j \in JobIds :
        /\ SyncOf(j)'.state = IF Active(j)' THEN "active" ELSE job'[j].status
        /\ SyncOf(j)'.revision = job'[j].revision
  BY DEF SyncOf
<1>4. \A j \in JobIds : /\ Active(j) => job[j].status \notin {"completed", "empty"}
                        /\ Active(j)' => job'[j].status \notin {"completed", "empty"}
  BY DEF Active, ACTIVE
<1>5. Successful = SuccessOf(Syncs, sub.revision)
  BY <1>1, <1>2, <1>4 DEF Successful, SuccessOf
<1>6. Successful' = SuccessOf(Syncs', sub'.revision)
  BY <1>1, <1>3, <1>4 DEF Successful, SuccessOf
<1>7. Source!Successes = Successful
  BY <1>5 DEF Source!Successes, Source!SyncIds, SuccessOf, Syncs, JobIds
<1> QED
  BY <1>5, <1>6, <1>7

LEMMA SuccessesFinite == IsFiniteSet(Successful)
<1>1. Successful \subseteq 1..MaxJobs
  BY DEF Successful, JobIds
<1>2. IsFiniteSet(1..MaxJobs)
  BY FS_Interval, BoundsAssumption
<1> QED
  BY <1>1, <1>2, FS_Subset

\* A step that only changes the latest synchronisation, which has not succeeded.
LEMMA LatestState ==
  ASSUME JobsInv, count > 0, Syncs[count].state \in {"active", "failed"},
         \A j \in JobIds \ {count} : Syncs'[j] = Syncs[j],
         Syncs'[count].revision = Syncs[count].revision,
         sub'.revision = sub.revision
  PROVE  /\ count \in JobIds /\ count \notin Successful
         /\ Syncs'[count].state \notin {"completed", "empty"}
              => Successful' = Successful
         /\ Syncs'[count].state \in {"completed", "empty"}
            => (Syncs[count].revision = sub.revision
                  => Successful' = Successful \cup {count})
<1>1. count \in JobIds
  BY BoundsAssumption DEF JobsInv, TypeOK, JobIds
<1>2. count \notin Successful
  BY SuccessesAre DEF SuccessOf
<1>3. Syncs'[count].state \notin {"completed", "empty"} => Successful' = Successful
  BY <1>1, <1>2, SuccessesAre DEF SuccessOf
<1>4. Syncs'[count].state \in {"completed", "empty"}
      => (Syncs[count].revision = sub.revision
            => Successful' = Successful \cup {count})
  <2> SUFFICES ASSUME Syncs'[count].state \in {"completed", "empty"},
                      Syncs[count].revision = sub.revision
               PROVE  Successful' = Successful \cup {count}
    OBVIOUS
  <2>1. \A j \in JobIds : j \in Successful' <=> j \in Successful \/ j = count
    BY SuccessesAre DEF SuccessOf
  <2>2. Successful' \subseteq JobIds /\ Successful \subseteq JobIds
    BY SuccessesAre DEF SuccessOf
  <2> QED
    BY <1>1, <2>1, <2>2
<1> QED
  BY <1>1, <1>2, <1>3, <1>4

\* The row of the latest synchronisation, given other values in one or two fields.
LEMMA RowChanges ==
  ASSUME JobsInv, count > 0
  PROVE  /\ count \in JobIds /\ Source!Current = Syncs[count]
         /\ Source!Ongoing <=> Syncs[count].state = "active"
         /\ \A i, x :
              LET row == [Syncs EXCEPT ![count].receipt[i] = x]
              IN /\ row[count].state = Syncs[count].state
                 /\ row[count].revision = Syncs[count].revision
                 /\ \A j \in JobIds \ {count} : row[j] = Syncs[j]
         /\ \A x :
              LET row == [Syncs EXCEPT ![count].state = x]
              IN /\ row[count].state = x
                 /\ row[count].revision = Syncs[count].revision
                 /\ \A j \in JobIds \ {count} : row[j] = Syncs[j]
<1>1. count \in JobIds
  BY BoundsAssumption DEF JobsInv, TypeOK, JobIds
<1>2. Source!Current = Syncs[count] /\ Syncs[count] = SyncOf(count)
  BY <1>1 DEF Source!Current, Syncs
<1> QED
  BY <1>1, <1>2 DEF Source!Ongoing, Syncs, SyncOf

LEMMA CursorStep ==
  ASSUME JobsInv, CursorCountsJobs, Source!Next \/ Stutter
  PROVE  CursorCountsJobs'
<1>1. /\ count \in 0..MaxJobs /\ MaxJobs \in Nat
      /\ sub.revision \in Nat /\ sub.progress \in Nat
      /\ \A j \in JobIds : Syncs[j].revision \in Nat
                           /\ Syncs[j].revision <= sub.revision
  <2>1. \A j \in JobIds : Syncs[j].revision = job[j].revision
    BY SyncFields DEF Syncs
  <2> QED
    BY <2>1, BoundsAssumption
       DEF JobsInv, TypeOK, Subscription, Job, RowInv, RevisionsArePast
<1>2. ASSUME sub'.progress = sub.progress, Successful' = Successful
      PROVE  CursorCountsJobs'
  BY <1>2 DEF CursorCountsJobs
<1>3. ASSUME count > 0, Syncs[count].state \in {"active", "failed"},
             \A j \in JobIds \ {count} : Syncs'[j] = Syncs[j],
             Syncs'[count].revision = Syncs[count].revision,
             Syncs'[count].state \notin {"completed", "empty"},
             sub'.progress = sub.progress, sub'.revision = sub.revision
      PROVE  CursorCountsJobs'
  BY <1>2, <1>3, LatestState
<1>4. CASE Stutter
  BY <1>2, <1>4, SuccessesAre DEF Stutter
<1>5. CASE Source!Begin
  <2>1. /\ Syncs' = [Syncs EXCEPT ![count + 1] = Source!Fresh("active", sub.revision)]
        /\ sub'.progress = sub.progress /\ sub'.revision = sub.revision
        /\ count < MaxJobs
    BY <1>5 DEF Source!Begin, Syncs
  <2>2. Source!Fresh("active", sub.revision).state = "active"
    BY DEF Source!Fresh
  <2>3. count + 1 \in JobIds /\ count + 1 > count
    BY <1>1, <2>1 DEF JobIds
  <2>4. count + 1 \notin Successful
    BY <2>3 DEF JobsInv, RowInv, FutureJobsAbsent, Successful
  <2>5. \A j \in JobIds : Syncs'[j] = IF j = count + 1
                                     THEN Source!Fresh("active", sub.revision)
                                     ELSE Syncs[j]
    BY <2>1 DEF Syncs
  <2>6. Successful' = Successful
    BY <2>1, <2>2, <2>4, <2>5, SuccessesAre DEF SuccessOf
  <2> QED
    BY <1>2, <2>1, <2>6
<1>6. CASE Source!Declare
  <2>1. PICK items \in SUBSET Item :
          Syncs' = [Syncs EXCEPT ![count].manifest = "fixed",
                                 ![count].items = items]
    BY <1>6 DEF Source!Declare, Syncs
  <2>2. /\ count > 0 /\ Source!Ongoing
        /\ sub'.progress = sub.progress /\ sub'.revision = sub.revision
    BY <1>6 DEF Source!Declare, Source!Ongoing
  <2>3. /\ Syncs[count].state = "active"
        /\ Syncs'[count].state = Syncs[count].state
        /\ Syncs'[count].revision = Syncs[count].revision
        /\ \A j \in JobIds \ {count} : Syncs'[j] = Syncs[j]
    <3>1. /\ count \in JobIds /\ Syncs[count] = SyncOf(count)
          /\ Syncs[count].state = "active"
      BY <2>2, RowChanges DEF Syncs
    <3>2. Syncs'[count] = [SyncOf(count) EXCEPT !.manifest = "fixed",
                                                !.items = items]
      BY <2>1, <3>1 DEF Syncs
    <3>3. \A j \in JobIds \ {count} : Syncs'[j] = Syncs[j]
      BY <2>1, <3>1 DEF Syncs
    <3>4. /\ Syncs'[count].state = SyncOf(count).state
          /\ Syncs'[count].revision = SyncOf(count).revision
      BY <3>2 DEF SyncOf
    <3> QED
      BY <3>1, <3>3, <3>4
  <2> QED
    BY <1>3, <2>2, <2>3
<1>7. CASE \E i \in Item : Source!Record(i)
  <2>1. PICK i \in Item : Source!Record(i)
    BY <1>7
  <2>2. PICK o : Syncs' = [Syncs EXCEPT ![count].receipt[i] = o]
    BY <2>1 DEF Source!Record, Syncs
  <2>3. /\ count > 0 /\ Source!Ongoing
        /\ sub'.progress = sub.progress /\ sub'.revision = sub.revision
    BY <2>1 DEF Source!Record, Source!Ongoing
  <2> QED
    BY <1>3, <2>2, <2>3, RowChanges
<1>8. CASE Source!FallShort \/ Source!Abandon \/ Source!Retry
  <2>1. PICK state \in {"active", "failed", "partial", "cancelled"} :
          Syncs' = [Syncs EXCEPT ![count].state = state]
    BY <1>8 DEF Source!FallShort, Source!Abandon, Source!Retry, Syncs
  <2>2. /\ count > 0
        /\ Source!Ongoing \/ Source!Current.state = "failed"
        /\ sub'.progress = sub.progress /\ sub'.revision = sub.revision
    BY <1>8 DEF Source!FallShort, Source!Abandon, Source!Retry, Source!Ongoing
  <2> QED
    BY <1>3, <2>1, <2>2, RowChanges
<1>9. CASE Source!Succeed
  <2>1. PICK state \in {"completed", "empty"} :
          Syncs' = [Syncs EXCEPT ![count].state = state]
    BY <1>9 DEF Source!Succeed, Syncs
  <2>2. /\ count > 0 /\ Source!Ongoing
        /\ sub'.progress = sub.progress + 1 /\ sub'.revision = sub.revision
    BY <1>9 DEF Source!Succeed, Source!Ongoing
  <2>3. Syncs[count].revision = sub.revision
    <3>1. count \in JobIds /\ Syncs[count].state = "active"
      BY <2>2, RowChanges
    <3>2. /\ SyncOf(count).state = "active"
          /\ Syncs[count].revision = job[count].revision
      BY <3>1, SyncFields DEF Syncs
    <3>3. job[count].status # "active"
      BY <3>1 DEF JobsInv, TypeOK, Job, Status, ACTIVE, Finished
    <3>4. Active(count)
      BY <3>2, <3>3, SyncFields
    <3> QED
      BY <3>1, <3>2, <3>4 DEF JobsInv, RowInv, ActiveIsLatest
  <2>4. count \notin Successful /\ Successful' = Successful \cup {count}
    BY <2>1, <2>2, <2>3, LatestState, RowChanges
  <2>5. Cardinality(Successful') = Cardinality(Successful) + 1
    BY <2>4, SuccessesFinite, FS_AddElement
  <2> QED
    BY <2>2, <2>5 DEF CursorCountsJobs
<1>10. CASE Source!Reconfigure
  <2>1. /\ sub'.revision = sub.revision + 1 /\ sub'.progress = 0
        /\ Syncs' = IF Source!Ongoing
                    THEN [Syncs EXCEPT ![count].state = "cancelled"] ELSE Syncs
    BY <1>10 DEF Source!Reconfigure, Syncs
  <2>2. \A j \in JobIds : Syncs'[j].revision = Syncs[j].revision
    BY <2>1, RowChanges DEF Source!Ongoing
  <2>3. Successful' = {}
    BY <1>1, <2>1, <2>2, SuccessesAre DEF SuccessOf
  <2> QED
    BY <2>1, <2>3, FS_EmptySet DEF CursorCountsJobs
<1> QED
  BY <1>4, <1>5, <1>6, <1>7, <1>8, <1>9, <1>10 DEF Source!Next

(***************************************************************************)
(* The cursor counts the completed and empty jobs of the configuration in  *)
(* force, whatever was retried, taken over or cancelled in between.        *)
(***************************************************************************)
THEOREM CursorCountsJobsAlways == Spec => []CursorCountsJobs
<1>1. Spec => []JobsInv
  BY ReceiptInvariant, PTL DEF JobsInv
<1>2. Init => CursorCountsJobs
  <2> SUFFICES ASSUME Init PROVE CursorCountsJobs
    OBVIOUS
  <2>1. Successful = {} /\ sub.progress = 0
    BY DEF Init, Successful, AbsentJob
  <2> QED
    BY <2>1, FS_EmptySet DEF CursorCountsJobs
<1>3. JobsInv /\ CursorCountsJobs /\ [Next]_vars => CursorCountsJobs'
  BY NextRefines, CursorStep
<1> QED
  BY <1>1, <1>2, <1>3, PTL DEF Spec

(***************************************************************************)
(* What SourceSync promises holds of the synchronisations the jobs are:    *)
(* the cursor counts the successes of the configuration in force, receipts *)
(* are kept for what was declared, and a success archived all of it.       *)
(***************************************************************************)
THEOREM PromiseKept ==
  Spec => [](Source!CursorCountsSuccesses /\ Source!SuccessArchivedEverything)
<1>1. CursorCountsJobs => Source!CursorCountsSuccesses
  <2>1. Source!Cardinality(Successful) = Cardinality(Successful)
    BY Zenon DEF Source!Cardinality, Cardinality
  <2> QED
    BY <2>1, SuccessesAre DEF Source!CursorCountsSuccesses, CursorCountsJobs
<1>2. JobsInv => Source!SuccessArchivedEverything
  <2> SUFFICES ASSUME JobsInv, NEW j \in JobIds, NEW i \in Item
               PROVE  /\ Syncs[j].receipt[i] # "none" => i \in Syncs[j].items
                      /\ Syncs[j].state \in {"completed", "empty"}
                         /\ i \in Syncs[j].items => Syncs[j].receipt[i] = "saved"
    BY DEF Source!SuccessArchivedEverything, Source!SyncIds, JobIds, Syncs
  <2>1. Syncs[j] = SyncOf(j)
    BY DEF Syncs
  <2> QED
    BY <2>1, SyncFields
       DEF JobsInv, ReceiptInv, ReceiptsExpected, SuccessIsComplete
<1>3. Spec => []JobsInv
  BY ReceiptInvariant, PTL DEF JobsInv
<1> QED
  BY <1>1, <1>2, <1>3, CursorCountsJobsAlways, PTL
=============================================================================
