--------------------------- MODULE CollectionJobs ---------------------------
(***************************************************************************)
(* Collection jobs of one source (one CollectionSubscription): the owner's *)
(* API calls, the schedule, and the worker processes that claim a job,     *)
(* freeze a manifest in the private spool, ingest its items and finish it. *)
(*                                                                         *)
(* Every database transaction takes the per-owner advisory lock and holds  *)
(* it through commit (source_history.owner_lock), so a transaction is one  *)
(* action.  What happens between two transactions of a worker (provider    *)
(* reads, spool writes, a stall, a crash) is where the actions interleave. *)
(*                                                                         *)
(* Deadlines (lease_until, retry_at, next_due_at) are only ever compared   *)
(* with the current time, so each is kept as the time that is left of it   *)
(* and Tick counts all of them down: "deadline > now" is "left > 0".       *)
(***************************************************************************)
EXTENDS Naturals, FiniteSets

CONSTANTS
  Worker,        \* executions of collection_worker.run_once
  NoWorker,      \* the lease_owner of a job nobody leases
  Item,          \* external ids a manifest may list
  Manifests,     \* what a preparation may find: the items it lists, those it
                 \* could not read, and whether its coverage has gaps
  Request,       \* request UUIDs the owner's client sends
  Intervals,     \* values of interval_seconds, in ticks
  LeaseTTL,      \* 90 s, in ticks
  RetryDelay,    \* back-off of a transient failure, in ticks
  MaxAttempts,   \* MAX_ATTEMPTS
  MaxJobs,       \* bound: jobs ever created
  MaxRevision,   \* bound: subscription revisions
  MaxGeneration  \* bound: generation up to which the owner may retry

ASSUME NoWorkerAssumption == NoWorker \notin Worker
ASSUME ManifestsAssumption ==
  \A m \in Manifests :
    /\ m \in [items : SUBSET Item, invalid : SUBSET Item, gaps : BOOLEAN]
    /\ m.invalid \subseteq m.items
ASSUME BoundsAssumption ==
  /\ LeaseTTL \in Nat \ {0} /\ RetryDelay \in Nat
  /\ Intervals \subseteq Nat \ {0} /\ Intervals # {}
  /\ MaxAttempts \in Nat \ {0}
  /\ MaxJobs \in Nat /\ MaxRevision \in Nat /\ MaxGeneration \in Nat

VARIABLES
  policy,   \* SourcePolicy.collection_enabled of the source
  sub,      \* the CollectionSubscription row
  job,      \* CollectionJob rows, by id
  count,    \* the id of the latest job, 0 before the first
  request,  \* CollectionRequest rows: the job a request UUID is bound to
  manual,   \* a manual backfill CollectionRun of the source is active
  run,      \* the CollectionRun (and its receipts) bound to each job
  spool,    \* the directory job-<id> of the source's one spool root
  lock,     \* the process that holds the flock on the spool root
  wk        \* the control state of each worker process

vars == <<policy, sub, job, count, request, manual, run, spool, lock, wk>>

JobIds == 1..MaxJobs
NoJob == 0
ACTIVE == {"pending", "running"}
Finished == {"completed", "empty", "partial", "failed"}
Status == ACTIVE \cup Finished \cup {"cancelled"}

(***************************************************************************)
(* A receipt is "saved" for the outcomes new, unchanged, updated, retained *)
(***************************************************************************)
Outcome == {"none", "saved", "blocked", "failed"}

AbsentJob == [status |-> "absent", revision |-> 0, generation |-> 0,
              attempts |-> 0, retry |-> 0, owner |-> NoWorker, lease |-> 0,
              bound |-> FALSE]
NoRun == [status |-> "none", expected |-> {},
          receipt |-> [i \in Item |-> "none"]]
NoSpool == [state |-> "none", base |-> 0, items |-> {}, invalid |-> {},
            gaps |-> FALSE]
Idle == [pc |-> "idle", job |-> NoJob, generation |-> 0, todo |-> {},
         code |-> "none"]

Job == [status : Status \cup {"absent"}, revision : Nat, generation : Nat,
        attempts : Nat, retry : Nat, owner : Worker \cup {NoWorker},
        lease : Nat, bound : BOOLEAN]
Run == [status : {"none", "active"} \cup Finished, expected : SUBSET Item,
        receipt : [Item -> Outcome]]
Spool == [state : {"none", "open", "sealed"}, base : Nat,
          items : SUBSET Item, invalid : SUBSET Item, gaps : BOOLEAN]
Subscription == [revision : Nat, enabled : BOOLEAN, due : Nat,
                 interval : Intervals, progress : Nat]

(***************************************************************************)
(* Where a worker is: it has claimed a job, has taken the spool and must   *)
(* open or resume the preparation, prepares (reads the provider), is about *)
(* to write the manifest, to create the batch, to ingest, or reports an    *)
(* error.  From "open" to "items" it holds the spool lock.                 *)
(***************************************************************************)
InSpool == {"open", "prepare", "seal", "batch", "items"}
PC == {"idle", "claimed", "failing"} \cup InSpool
WorkerState == [pc : PC, job : Nat, generation : Nat, todo : SUBSET Item,
                code : {"none", "transient", "fatal"}]

TypeOK ==
  /\ policy \in BOOLEAN
  /\ sub \in Subscription
  /\ job \in [JobIds -> Job]
  /\ count \in 0..MaxJobs
  /\ request \in [Request -> 0..MaxJobs]
  /\ manual \in BOOLEAN
  /\ run \in [JobIds -> Run]
  /\ spool \in [JobIds -> Spool]
  /\ lock \in Worker \cup {NoWorker}
  /\ wk \in [Worker -> WorkerState]

Init ==
  /\ policy = TRUE
  /\ \E n \in Intervals :
       sub = [revision |-> 1, enabled |-> FALSE, due |-> 0, interval |-> n,
              progress |-> 0]
  /\ job = [j \in JobIds |-> AbsentJob]
  /\ count = 0
  /\ request = [r \in Request |-> NoJob]
  /\ manual = FALSE
  /\ run = [j \in JobIds |-> NoRun]
  /\ spool = [j \in JobIds |-> NoSpool]
  /\ lock = NoWorker
  /\ wk = [w \in Worker |-> Idle]

-----------------------------------------------------------------------------
(***************************************************************************)
(* Operations of the service, as the values they give to the rows.         *)
(***************************************************************************)
Active(j) == job[j].status \in ACTIVE
ActiveJobs == {j \in JobIds : Active(j)}

CanEnqueue == policy /\ ~manual

NewJob == [AbsentJob EXCEPT !.status = "pending", !.revision = sub.revision]

Paused == [sub EXCEPT !.enabled = FALSE, !.due = 0]

\* Row updates: the generation moves on whenever a claim must stop counting.
Stopped(r) == [r EXCEPT !.status = "cancelled", !.generation = @ + 1]
Cancelled(r) == [Stopped(r) EXCEPT !.retry = 0]
Reopened(r) == [r EXCEPT !.status = "pending", !.attempts = 0, !.retry = 0,
                         !.generation = @ + 1]
LeasedTo(w, r) == [r EXCEPT !.status = "running", !.owner = w, !.retry = 0,
                            !.attempts = @ + 1, !.generation = @ + 1,
                            !.lease = LeaseTTL]
Delayed(r) == [r EXCEPT !.status = "pending", !.retry = RetryDelay,
                        !.owner = NoWorker, !.lease = 0]
Settled(r, status) == [r EXCEPT !.status = status, !.retry = 0]

CancelledJobs ==
  [j \in JobIds |-> IF Active(j) THEN Cancelled(job[j]) ELSE job[j]]

\* Mutant: the claim is not compared with the one the worker made.
HoldsAnyClaim(w) ==
  LET j == wk[w].job IN
  /\ j \in JobIds
  /\ job[j].status = "running"
  /\ job[j].lease > 0
  /\ job[j].revision = sub.revision
  /\ policy

\* The lease, generation, revision and policy check every write makes first.
Holds(w) ==
  LET j == wk[w].job IN
  /\ j \in JobIds
  /\ job[j].status = "running"
  /\ job[j].owner = w
  /\ job[j].generation = wk[w].generation
  /\ job[j].lease > 0
  /\ job[j].revision = sub.revision
  /\ policy

Renewed(w) == [job[wk[w].job] EXCEPT !.lease = LeaseTTL]

CreateJob ==
  /\ count < MaxJobs
  /\ count' = count + 1
  /\ job' = [job EXCEPT ![count + 1] = NewJob]

-----------------------------------------------------------------------------
(***************************************************************************)
(* The owner's API.                                                        *)
(***************************************************************************)
\* POST /collect-now.  A request that is already bound returns its job.
Enqueue(r) ==
  /\ request[r] = NoJob
  /\ IF ActiveJobs # {}
     THEN /\ \E j \in ActiveJobs : request' = [request EXCEPT ![r] = j]
          /\ UNCHANGED <<job, count>>
     ELSE /\ CanEnqueue
          /\ CreateJob
          /\ request' = [request EXCEPT ![r] = count + 1]
  /\ UNCHANGED <<policy, sub, manual, run, spool, lock, wk>>

\* POST /cancel
Cancel ==
  /\ ActiveJobs # {}
  /\ job' = CancelledJobs
  /\ UNCHANGED <<policy, sub, count, request, manual, run, spool, lock, wk>>

\* PATCH /schedule with enabled = TRUE
EnableSchedule(n) ==
  /\ policy
  /\ ~sub.enabled \/ sub.interval # n
  /\ sub' = [sub EXCEPT !.enabled = TRUE, !.interval = n, !.due = n]
  /\ UNCHANGED <<policy, job, count, request, manual, run, spool, lock, wk>>

\* PATCH /schedule with enabled = FALSE
DisableSchedule(n) ==
  /\ sub' = [Paused EXCEPT !.interval = n]
  /\ job' = CancelledJobs
  /\ UNCHANGED <<policy, count, request, manual, run, spool, lock, wk>>

\* Mutant: the cursor is reset under the same revision.
UpdateDiscussionsInPlace ==
  /\ job' = CancelledJobs
  /\ sub' = [Paused EXCEPT !.progress = 0]
  /\ UNCHANGED <<policy, count, request, manual, run, spool, lock, wk>>

\* PATCH /discussions with another selection: a new configuration revision.
UpdateDiscussions ==
  /\ sub.revision < MaxRevision
  /\ job' = CancelledJobs
  /\ sub' = [Paused EXCEPT !.revision = @ + 1, !.progress = 0]
  /\ UNCHANGED <<policy, count, request, manual, run, spool, lock, wk>>

\* POST /retry
RetryFailed ==
  /\ count > 0
  /\ job[count].status = "failed"
  /\ CanEnqueue
  /\ job[count].revision = sub.revision
  /\ job[count].generation < MaxGeneration
  /\ job' = [job EXCEPT ![count] = Reopened(@)]
  /\ UNCHANGED <<policy, sub, count, request, manual, run, spool, lock, wk>>

\* PATCH /sources/{id}: collection disabled (cancel_source keeps retry_at).
DisableSource ==
  /\ policy
  /\ policy' = FALSE
  /\ sub' = Paused
  /\ job' = [j \in JobIds |-> IF Active(j) THEN Stopped(job[j]) ELSE job[j]]
  /\ UNCHANGED <<count, request, manual, run, spool, lock, wk>>

EnableSource ==
  /\ ~policy
  /\ policy' = TRUE
  /\ UNCHANGED <<sub, job, count, request, manual, run, spool, lock, wk>>

\* The manual collector creates, and later finishes, a run of its own.
StartManual ==
  /\ ~manual
  /\ ActiveJobs = {}
  /\ manual' = TRUE
  /\ UNCHANGED <<policy, sub, job, count, request, run, spool, lock, wk>>

FinishManual ==
  /\ manual
  /\ ActiveJobs = {}
  /\ manual' = FALSE
  /\ UNCHANGED <<policy, sub, job, count, request, run, spool, lock, wk>>

-----------------------------------------------------------------------------
(***************************************************************************)
(* The schedule, which a polling worker drives before it claims.  A slot   *)
(* is a time not used before, so its request UUID is always a fresh one.   *)
(***************************************************************************)
ScheduleDue ==
  /\ sub.enabled
  /\ sub.due = 0
  /\ IF ~policy
     THEN /\ sub' = Paused
          /\ job' = CancelledJobs
          /\ UNCHANGED count
     ELSE /\ sub' = [sub EXCEPT !.due = sub.interval]
          /\ IF ActiveJobs = {} /\ CanEnqueue
             THEN CreateJob
             ELSE UNCHANGED <<job, count>>
  /\ UNCHANGED <<policy, request, manual, run, spool, lock, wk>>

-----------------------------------------------------------------------------
(***************************************************************************)
(* The worker.                                                             *)
(***************************************************************************)
\* Mutant: a running job is never taken over.
ClaimablePending(j) == job[j].retry = 0 /\ job[j].status = "pending"

\* A running job is left alone until its lease expires, a pending one until
\* its retry time.
Claimable(j) ==
  /\ job[j].retry = 0
  /\ ~(job[j].status = "running" /\ job[j].lease > 0)

Exhausted(j) == job[j].attempts >= MaxAttempts

\* CONFIG_CHANGED cancels, COLLECTION_DISABLED keeps retry_at and the schedule.
Refused(j) ==
  IF policy THEN CancelledJobs
  ELSE [job EXCEPT ![j] = Stopped(@)]

Claim(w) ==
  /\ wk[w].pc = "idle"
  /\ \E j \in ActiveJobs :
       IF ~policy \/ job[j].revision # sub.revision
       THEN /\ job' = Refused(j)
            /\ sub' = IF policy THEN Paused ELSE sub
            /\ UNCHANGED wk
       ELSE /\ Claimable(j)
            /\ IF Exhausted(j)
               THEN /\ job' = [job EXCEPT ![j] = Settled(@, "failed")]
                    /\ sub' = Paused
                    /\ UNCHANGED wk
               ELSE /\ job' = [job EXCEPT ![j] = LeasedTo(w, @)]
                    /\ wk' = [wk EXCEPT ![w] =
                                [Idle EXCEPT !.pc = "claimed", !.job = j,
                                   !.generation = job[j].generation + 1]]
                    /\ UNCHANGED sub
  /\ UNCHANGED <<policy, count, request, manual, run, spool, lock>>

Released(w) == IF lock = w THEN NoWorker ELSE lock

Fail(w, code) ==
  /\ wk' = [wk EXCEPT ![w] = [@ EXCEPT !.pc = "failing", !.code = code,
                                       !.todo = {}]]
  /\ lock' = Released(w)
  /\ UNCHANGED <<policy, sub, job, count, request, manual, run, spool>>

\* Mutant: the directory of a failed job, which may be retried, is removed.
RemovableOnceInactive(j) == job[j].status \in Status \ ACTIVE

\* Directories of settled jobs may be old enough to be removed.
Removable(j) ==
  job[j].status \in {"completed", "empty", "partial", "cancelled"}

TakeSpool(w) ==
  /\ wk[w].pc = "claimed"
  /\ lock = NoWorker
  /\ lock' = w
  /\ \E old \in SUBSET {j \in JobIds : Removable(j)} :
       LET kept == [j \in JobIds |-> IF j \in old THEN NoSpool ELSE spool[j]]
       IN  /\ spool' = kept
           /\ wk' = [wk EXCEPT ![w].pc =
                       IF kept[wk[w].job].state = "sealed"
                       THEN "batch" ELSE "open"]
  /\ UNCHANGED <<policy, sub, job, count, request, manual, run>>

\* Another process holds the spool: a ProbeError without a retryable code.
SpoolBusy(w) ==
  /\ wk[w].pc = "claimed"
  /\ lock # NoWorker
  /\ Fail(w, "fatal")

\* The first preparation of a job copies the subscription's progress; a later
\* one resumes the copy in the spool.
OpenPreparation(w) ==
  /\ wk[w].pc = "open"
  /\ Holds(w)
  /\ LET j == wk[w].job IN
       /\ job' = [job EXCEPT ![j] = Renewed(w)]
       /\ spool' = IF spool[j].state = "none"
                   THEN [spool EXCEPT ![j] =
                           [NoSpool EXCEPT !.state = "open",
                                           !.base = sub.progress]]
                   ELSE spool
  /\ wk' = [wk EXCEPT ![w].pc = "prepare"]
  /\ UNCHANGED <<policy, sub, count, request, manual, run, lock>>

\* Before and after each provider read.
Heartbeat(w) ==
  /\ wk[w].pc = "prepare"
  /\ Holds(w)
  /\ job' = [job EXCEPT ![wk[w].job] = Renewed(w)]
  /\ UNCHANGED <<policy, sub, count, request, manual, run, spool, lock, wk>>

\* The preparation is complete; the heartbeat that precedes the seal.
Prepared(w) ==
  /\ wk[w].pc = "prepare"
  /\ Holds(w)
  /\ job' = [job EXCEPT ![wk[w].job] = Renewed(w)]
  /\ wk' = [wk EXCEPT ![w].pc = "seal"]
  /\ UNCHANGED <<policy, sub, count, request, manual, run, spool, lock>>

\* Mutant: the manifest is sealed without the progress it started from.
SealedWithoutBase(m, d) ==
  [NoSpool EXCEPT !.state = "sealed", !.items = m.items,
                  !.invalid = m.invalid, !.gaps = m.gaps]

SealedWith(m, d) == [d EXCEPT !.state = "sealed", !.items = m.items,
                              !.invalid = m.invalid, !.gaps = m.gaps]

\* The manifest is written to the spool and never changes again.
Seal(w) ==
  /\ wk[w].pc = "seal"
  /\ \E m \in Manifests :
       spool' = [spool EXCEPT ![wk[w].job] = SealedWith(m, @)]
  /\ wk' = [wk EXCEPT ![w].pc = "batch"]
  /\ UNCHANGED <<policy, sub, job, count, request, manual, run, lock>>

\* create_batch is idempotent for the manifest's run UUID.
CreateBatch(w) ==
  /\ wk[w].pc = "batch"
  /\ Holds(w)
  /\ LET j == wk[w].job IN
       /\ job' = [job EXCEPT ![j] = [Renewed(w) EXCEPT !.bound = TRUE]]
       /\ run' = IF run[j].status = "none"
                 THEN [run EXCEPT ![j] = [NoRun EXCEPT !.status = "active",
                                            !.expected = spool[j].items]]
                 ELSE run
       /\ wk' = [wk EXCEPT ![w] = [@ EXCEPT !.pc = "items",
                                            !.todo = spool[j].items]]
  /\ UNCHANGED <<policy, sub, count, request, manual, spool, lock>>

\* An item without a body is recorded as failed; a receipt other than failed
\* is kept; a deleted record is blocked.
ReceiptOf(j, i) ==
  IF i \in spool[j].invalid THEN {"failed"}
  ELSE IF run[j].receipt[i] \in {"none", "failed"}
       THEN {"saved", "blocked"} ELSE {run[j].receipt[i]}

IngestItem(w, i) ==
  /\ wk[w].pc = "items"
  /\ i \in wk[w].todo
  /\ Holds(w)
  /\ LET j == wk[w].job IN
       /\ job' = [job EXCEPT ![j] = Renewed(w)]
       /\ \E o \in ReceiptOf(j, i) :
            run' = [run EXCEPT ![j].receipt[i] = o]
  /\ wk' = [wk EXCEPT ![w].todo = @ \ {i}]
  /\ UNCHANGED <<policy, sub, count, request, manual, spool, lock>>

Received(j, o) == {i \in Item : run[j].receipt[i] = o}

\* Mutant: a blocked item is not a gap.
BatchStatusIgnoringBlocked(j) ==
  LET success == Received(j, "saved") # {}
      gaps == spool[j].gaps \/ Received(j, "failed") # {}
  IN  IF gaps THEN IF success THEN "partial" ELSE "failed"
              ELSE IF success THEN "completed" ELSE "empty"

BatchStatus(j) ==
  LET success == Received(j, "saved") # {}
      gaps == spool[j].gaps \/ Received(j, "failed") # {}
                            \/ Received(j, "blocked") # {}
  IN  IF gaps THEN IF success THEN "partial" ELSE "failed"
              ELSE IF success THEN "completed" ELSE "empty"

\* Mutant: a partial batch moves the cursor past what it did not archive.
ConcludedByPartial(j, status) ==
  IF status \in {"completed", "empty", "partial"}
  THEN [sub EXCEPT !.progress = spool[j].base + 1] ELSE Paused

\* The progress the preparation reached replaces the cursor; anything short
\* of success pauses the schedule instead.
Concluded(j, status) ==
  IF status \in {"completed", "empty"}
  THEN [sub EXCEPT !.progress = spool[j].base + 1] ELSE Paused

\* Every declared item has a receipt: the batch, the job and the cursor move
\* in one transaction.
Finish(w) ==
  /\ wk[w].pc = "items"
  /\ wk[w].todo = {}
  /\ Holds(w)
  /\ LET j == wk[w].job
         status == BatchStatus(j)
     IN  /\ Received(j, "none") \cap run[j].expected = {}
         /\ run' = [run EXCEPT ![j].status = status]
         /\ job' = [job EXCEPT ![j] = Settled(Renewed(w), status)]
         /\ sub' = Concluded(j, status)
  /\ wk' = [wk EXCEPT ![w] = Idle]
  /\ lock' = Released(w)
  /\ UNCHANGED <<policy, count, request, manual, spool>>

\* A guard refuses: the lease is lost, or revision or policy changed.
LoseLease(w) ==
  /\ wk[w].pc \in InSpool \ {"seal"}
  /\ ~Holds(w)
  /\ Fail(w, "fatal")

\* A provider read, or the spool, raises.
ProviderError(w, code) ==
  /\ wk[w].pc = "prepare"
  /\ Fail(w, code)

SpoolError(w) ==
  /\ wk[w].pc \in InSpool \cup {"claimed"}
  /\ Fail(w, "fatal")

\* fail_attempt, unless cancellation or a takeover already won.
ReportFailure(w) ==
  /\ wk[w].pc = "failing"
  /\ wk' = [wk EXCEPT ![w] = Idle]
  /\ LET j == wk[w].job IN
       IF ~Holds(w)
       THEN UNCHANGED <<job, sub>>
       ELSE IF wk[w].code = "transient" /\ ~Exhausted(j)
       THEN /\ job' = [job EXCEPT ![j] = Delayed(@)]
            /\ UNCHANGED sub
       ELSE /\ job' = [job EXCEPT ![j] = Settled(Renewed(w), "failed")]
            /\ sub' = Paused
  /\ UNCHANGED <<policy, count, request, manual, run, spool, lock>>

\* The process dies, or loses the database: nothing is recorded.
Crash(w) ==
  /\ wk[w].pc # "idle"
  /\ wk' = [wk EXCEPT ![w] = Idle]
  /\ lock' = Released(w)
  /\ UNCHANGED <<policy, sub, job, count, request, manual, run, spool>>

-----------------------------------------------------------------------------
Less(n) == IF n = 0 THEN 0 ELSE n - 1

Tick ==
  /\ job' = [j \in JobIds |-> [job[j] EXCEPT !.retry = Less(@),
                                             !.lease = Less(@)]]
  /\ sub' = [sub EXCEPT !.due = Less(@)]
  /\ UNCHANGED <<policy, count, request, manual, run, spool, lock, wk>>

Owner ==
  \/ \E r \in Request : Enqueue(r)
  \/ Cancel
  \/ \E n \in Intervals : EnableSchedule(n) \/ DisableSchedule(n)
  \/ UpdateDiscussions
  \/ RetryFailed
  \/ DisableSource
  \/ EnableSource
  \/ StartManual
  \/ FinishManual

\* What a worker that neither errs nor dies does next.
Step(w) ==
  \/ Claim(w)
  \/ TakeSpool(w)
  \/ SpoolBusy(w)
  \/ OpenPreparation(w)
  \/ Prepared(w)
  \/ Seal(w)
  \/ CreateBatch(w)
  \/ \E i \in Item : IngestItem(w, i)
  \/ Finish(w)
  \/ LoseLease(w)
  \/ ReportFailure(w)

Work(w) ==
  \/ Step(w)
  \/ Heartbeat(w)
  \/ \E code \in {"transient", "fatal"} : ProviderError(w, code)
  \/ SpoolError(w)
  \/ Crash(w)

Next ==
  \/ Owner
  \/ ScheduleDue
  \/ \E w \in Worker : Work(w)
  \/ Tick

Spec == Init /\ [][Next]_vars

\* Time passes, and a polling worker that is alive takes its next step (the
\* preparation is bounded by run_seconds, a call by its timeout).
Fairness ==
  /\ WF_vars(Tick)
  /\ \A w \in Worker : WF_vars(Step(w))

FairSpec == Spec /\ Fairness

-----------------------------------------------------------------------------
(***************************************************************************)
(* Safety.                                                                 *)
(***************************************************************************)
\* At most one job of the source is pending or running (the partial unique
\* index uq_collection_job_active never has to refuse one), it is the latest
\* and it was made under the current configuration revision.
ActiveIsLatest ==
  \A j \in JobIds : Active(j) => j = count /\ job[j].revision = sub.revision

\* While collection is disabled no job is pending or running and no schedule
\* is enabled, whatever was in flight when the owner disabled it.
DisabledSourceIsQuiet == ~policy => ActiveJobs = {} /\ ~sub.enabled

\* A manual backfill and an incremental job never write the source together.
ManualExcludesJobs == manual => ActiveJobs = {}

\* A job that can still run, or be retried: the latest, not yet settled.
Recoverable(j) ==
  /\ j = count
  /\ job[j].status \in ACTIVE \cup {"failed"}
  /\ job[j].revision = sub.revision

\* The progress a recoverable preparation started from is still the
\* subscription's: finishing it can overwrite no newer cursor, however many
\* takeovers, failures and retries lie between its first read and its finish.
PreparedFromCurrentProgress ==
  \A j \in JobIds :
    Recoverable(j) /\ spool[j].state # "none" => spool[j].base = sub.progress

\* A batch that can still be continued has its frozen manifest in the spool,
\* and the run in the database was created from that manifest.
BatchHasItsManifest ==
  \A j \in JobIds :
    Recoverable(j) /\ run[j].status # "none"
      => spool[j].state = "sealed" /\ run[j].expected = spool[j].items

\* A job reported completed or empty archived every item its run declared.
SuccessIsComplete ==
  \A j \in JobIds : job[j].status \in {"completed", "empty"} =>
    /\ run[j].status = job[j].status
    /\ \A i \in Item : run[j].receipt[i] =
         IF i \in run[j].expected THEN "saved" ELSE "none"

\* No automatic execution or takeover goes beyond the attempt budget.
AttemptsBounded == \A j \in JobIds : job[j].attempts <= MaxAttempts

\* One process at a time works in the spool of the source.
SpoolIsPrivate ==
  \A w \in Worker : wk[w].pc \in InSpool <=> lock = w

-----------------------------------------------------------------------------
(***************************************************************************)
(* What no step may do.                                                    *)
(***************************************************************************)
\* Only the worker of the job's latest claim writes its run, and only while
\* the job is running, current and allowed: a worker that was cancelled,
\* taken over or reconfigured away writes nothing.
StaleWorkersAreFenced ==
  [][\A j \in JobIds : run'[j] # run[j] =>
       /\ job[j].status = "running" /\ job[j].revision = sub.revision
       /\ policy
       /\ \E w \in Worker :
            /\ wk[w].job = j /\ wk[w].generation = job[j].generation
            /\ wk'[w] # wk[w]]_vars

\* A settled job stays as it is, but for a retry of the latest failed one.
SettledStays ==
  [][\A j \in JobIds :
       job[j].status \in (Status \ ACTIVE) /\ job'[j].status # job[j].status
         => /\ job[j].status = "failed" /\ job'[j].status = "pending"
            /\ j = count]_vars

\* The cursor moves one batch at a time, or is reset with a new revision.
CursorNeverRegresses ==
  [][sub'.progress # sub.progress =>
       \/ sub'.progress = sub.progress + 1
       \/ sub'.revision = sub.revision + 1]_vars

\* A durable receipt of an archived item is never lost or rewritten.
ReceiptsAreDurable ==
  [][\A j \in JobIds, i \in Item :
       run[j].receipt[i] = "saved" => run'[j].receipt[i] = "saved"]_vars

\* A request UUID stays bound to one job after that job has finished.
RequestsStayBound ==
  [][\A r \in Request : request[r] # NoJob => request'[r] = request[r]]_vars

-----------------------------------------------------------------------------
(***************************************************************************)
(* Liveness.                                                               *)
(***************************************************************************)
\* A job settles even if every execution of it crashes: leases run out, and
\* the attempts that take them over are bounded.
JobsSettle == \A j \in JobIds : Active(j) ~> ~Active(j)
=============================================================================
