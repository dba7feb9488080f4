----------------------------- MODULE ImportJobs -----------------------------
(***************************************************************************)
(* ChatGPT archive imports of one owner: the API that uploads, submits and *)
(* retries them, the queue that may lose, delay or repeat a notification,  *)
(* the reconciliation with the database, and the worker processes that     *)
(* walk an archive in batches and resume it after a failure.               *)
(*                                                                         *)
(* A worker holds a session lock of the owner (pg_advisory_lock 12012) for *)
(* the whole import, and each of its transactions also holds the owner's   *)
(* policy lock, the one every operation of the owner takes: a transaction  *)
(* is one action.  Between two of them the owner may delete, disable,      *)
(* allow or upload.                                                        *)
(***************************************************************************)
EXTENDS Naturals, Sequences, FiniteSets

CONSTANTS
  Worker,       \* worker processes
  NoWorker,     \* nobody holds the session lock
  Item,         \* external ids of conversations
  Malformed,    \* those whose conversation no archive holds in a valid form
  Archives,     \* what an upload may hold: conversations in archive order
  BatchSize,    \* import_batch_size
  MaxAttempts,  \* import_max_attempts
  StaleAfter,   \* import_max_seconds + 60 s, in ticks
  MaxJobs       \* bound: uploads ever made

ASSUME WorkerAssumption == NoWorker \notin Worker
ASSUME ArchivesAssumption == Malformed \subseteq Item /\ Archives \subseteq Seq(Item)
ASSUME LimitsAssumption ==
  /\ BatchSize \in Nat \ {0} /\ MaxAttempts \in Nat \ {0}
  /\ StaleAfter \in Nat \ {0} /\ MaxJobs \in Nat

VARIABLES
  policy,      \* SourcePolicy.collection_enabled of the provider
  suppression, \* EntrySuppression of each external id
  material,    \* EntryMaterial: the archives behind each entry there is
  blocked,     \* archives (ImportArtifact) with blocked_at
  job,         \* ImportJob rows, one for each archive
  count,       \* the latest job
  submitting,  \* requests between their commit and the answer of the queue,
               \* with the submitted_attempts they remember
  queue,       \* jobs with a message that is not acknowledged
  lock,        \* who holds the owner's session lock
  wk           \* the control state of each worker

vars == <<policy, suppression, material, blocked, job, count, submitting,
          queue, lock, wk>>

JobIds == 1..MaxJobs
Terminal == {"COMPLETED", "PARTIAL", "FAILED"}
Status == {"PENDING", "RUNNING"} \cup Terminal

AbsentJob == [status |-> "absent", archive |-> <<>>, total |-> 0,
              processed |-> 0, failed |-> 0, errors |-> {}, entries |-> {},
              attempts |-> 0, fresh |-> 0, error |-> "none"]
Idle == [pc |-> "idle", job |-> 0, message |-> FALSE, index |-> 0,
         code |-> "none"]

\* fresh is what is left until started_at is stale; errors are the positions in
\* item_errors, entries the records in entry_ids.
Job == [status : Status \cup {"absent"}, archive : Archives \cup {<<>>},
        total : Nat, processed : Nat, failed : Nat, errors : SUBSET Nat,
        entries : SUBSET Item, attempts : Nat, fresh : Nat,
        error : {"none", "queue", "infra", "final"}]

\* A worker has a message, holds the session lock, has begun an attempt and must
\* open the archive, walks it (index is where its loop stands, 0 before the
\* first position), or records an error.
Inside == {"locked", "open", "walk", "failing"}
WorkerState == [pc : {"idle", "received"} \cup Inside, job : Nat,
                message : BOOLEAN, index : Nat,
                code : {"none", "infra", "policy", "final"}]

TypeOK ==
  /\ policy \in BOOLEAN
  /\ suppression \in [Item -> {"none", "denied", "allowed"}]
  /\ material \in [Item -> SUBSET JobIds]
  /\ blocked \subseteq JobIds
  /\ job \in [JobIds -> Job]
  /\ count \in 0..MaxJobs
  /\ submitting \subseteq JobIds \X Nat
  /\ queue \subseteq JobIds
  /\ lock \in Worker \cup {NoWorker}
  /\ wk \in [Worker -> WorkerState]

Init ==
  /\ policy = TRUE
  /\ suppression = [i \in Item |-> "none"]
  /\ material = [i \in Item |-> {}]
  /\ blocked = {}
  /\ job = [j \in JobIds |-> AbsentJob]
  /\ count = 0
  /\ submitting = {}
  /\ queue = {}
  /\ lock = NoWorker
  /\ wk = [w \in Worker |-> Idle]

-----------------------------------------------------------------------------
(***************************************************************************)
(* The owner's requests.                                                   *)
(***************************************************************************)
\* POST /imports/chatgpt: the archive is stored, its job commits as PENDING, and
\* only then is the queue told.
Upload(a) ==
  /\ policy
  /\ count < MaxJobs
  /\ count' = count + 1
  /\ job' = [job EXCEPT ![count + 1] =
               [AbsentJob EXCEPT !.status = "PENDING", !.archive = a]]
  /\ submitting' = submitting \cup {<<count + 1, 0>>}
  /\ UNCHANGED <<policy, suppression, material, blocked, queue, lock, wk>>

Cursor(r) == r.processed + r.failed

\* A walk that went through the whole archive is replayed from its start, an
\* interrupted one keeps its cursor.
Rewound(r) ==
  IF r.total # 0 /\ Cursor(r) = r.total
  THEN [r EXCEPT !.total = 0, !.processed = 0, !.failed = 0, !.errors = {},
                 !.entries = {}]
  ELSE r

Resubmitted(r) == [Rewound(r) EXCEPT !.status = "PENDING", !.error = "none"]

\* POST /import-jobs/{id}/retry
Retry(j) ==
  /\ policy
  /\ j \notin blocked
  /\ job[j].status \in {"FAILED", "PARTIAL"}
  /\ job[j].attempts < MaxAttempts
  /\ job' = [job EXCEPT ![j] = Resubmitted(@)]
  /\ submitting' = submitting \cup {<<j, job[j].attempts>>}
  /\ UNCHANGED <<policy, suppression, material, blocked, count, queue, lock, wk>>

\* The queue takes the message, whatever it then answers the request.
Deliver(s) ==
  /\ queue' = queue \cup {s[1]}
  /\ UNCHANGED <<policy, suppression, material, blocked, job, count,
                 submitting, lock, wk>>

\* The request ends: the queue answered, or its process died.
Answered(s) ==
  /\ submitting' = submitting \ {s}
  /\ UNCHANGED <<policy, suppression, material, blocked, job, count, queue,
                 lock, wk>>

\* Mutant: any pending job is given up, also one that has been worked on.
StillSubmittedWheneverPending(s) == job[s[1]].status = "PENDING"

StillSubmitted(s) ==
  job[s[1]].status = "PENDING" /\ job[s[1]].attempts = s[2]

\* record_queue_failure: the send raised, though the message may have arrived.
SendFails(s) ==
  /\ submitting' = submitting \ {s}
  /\ job' = IF StillSubmitted(s)
            THEN [job EXCEPT ![s[1]].status = "FAILED", ![s[1]].error = "queue"]
            ELSE job
  /\ UNCHANGED <<policy, suppression, material, blocked, count, queue, lock, wk>>

\* delete_record: the record goes, its identity is suppressed, and every archive
\* it came from is blocked.
DeleteRecord(i) ==
  /\ material[i] # {}
  /\ suppression' = [suppression EXCEPT ![i] = "denied"]
  /\ blocked' = blocked \cup material[i]
  /\ material' = [material EXCEPT ![i] = {}]
  /\ UNCHANGED <<policy, job, count, submitting, queue, lock, wk>>

AllowReimport(i) ==
  /\ suppression[i] = "denied"
  /\ suppression' = [suppression EXCEPT ![i] = "allowed"]
  /\ UNCHANGED <<policy, material, blocked, job, count, submitting, queue,
                 lock, wk>>

SetPolicy ==
  /\ policy' = ~policy
  /\ UNCHANGED <<suppression, material, blocked, job, count, submitting,
                 queue, lock, wk>>

-----------------------------------------------------------------------------
(***************************************************************************)
(* Finding work.                                                           *)
(***************************************************************************)
\* Mutant: interrupted jobs are not reconciled.
CandidatesPendingOnly == {j \in JobIds : job[j].status = "PENDING"}

\* Pending jobs, and running ones whose attempt is stale.
Candidates ==
  {j \in JobIds : \/ job[j].status = "PENDING"
                  \/ job[j].status = "RUNNING" /\ job[j].fresh = 0}

\* database_import_message: the owner's oldest candidate, unless the owner has
\* an import under way.  No message was delivered for it.
PollDatabase(w) ==
  /\ wk[w].pc = "idle"
  /\ lock = NoWorker
  /\ \E j \in Candidates :
       /\ \A k \in Candidates : j <= k
       /\ wk' = [wk EXCEPT ![w] = [Idle EXCEPT !.pc = "received", !.job = j]]
  /\ UNCHANGED <<policy, suppression, material, blocked, job, count,
                 submitting, queue, lock>>

\* receive_message: the message stays until it is acknowledged.
PollQueue(w) ==
  /\ wk[w].pc = "idle"
  /\ \E j \in queue :
       wk' = [wk EXCEPT ![w] = [Idle EXCEPT !.pc = "received", !.job = j,
                                            !.message = TRUE]]
  /\ UNCHANGED <<policy, suppression, material, blocked, job, count,
                 submitting, queue, lock>>

TakeLock(w) ==
  /\ wk[w].pc = "received"
  /\ lock = NoWorker
  /\ lock' = w
  /\ wk' = [wk EXCEPT ![w].pc = "locked"]
  /\ UNCHANGED <<policy, suppression, material, blocked, job, count,
                 submitting, queue>>

\* ImportJobBusy: another import of the owner is running.
Busy(w) ==
  /\ wk[w].pc = "received"
  /\ lock # NoWorker
  /\ wk' = [wk EXCEPT ![w] = Idle]
  /\ UNCHANGED <<policy, suppression, material, blocked, job, count,
                 submitting, queue, lock>>

-----------------------------------------------------------------------------
(***************************************************************************)
(* The import.                                                             *)
(***************************************************************************)
Leave(w) ==
  /\ wk' = [wk EXCEPT ![w] = Idle]
  /\ lock' = NoWorker

\* The message of a job that reached a durable end is deleted, if that works.
Acknowledge(w) ==
  \/ UNCHANGED queue
  \/ wk[w].message /\ queue' = queue \ {wk[w].job}

\* Mutant: a redelivered message replays a partial import.
AlreadyFinishedUnlessPartial(j) == job[j].status \in {"COMPLETED", "FAILED"}

AlreadyFinished(j) == job[j].status \in Terminal

Exhausted(r) == r.attempts >= MaxAttempts

Redelivered(w) ==
  /\ wk[w].pc = "locked"
  /\ AlreadyFinished(wk[w].job)
  /\ Acknowledge(w)
  /\ Leave(w)
  /\ UNCHANGED <<policy, suppression, material, blocked, job, count, submitting>>

\* Its attempt is recent: whoever made it may only have lost the connection.
StillFresh(w) ==
  /\ wk[w].pc = "locked"
  /\ job[wk[w].job].status = "RUNNING"
  /\ job[wk[w].job].fresh > 0
  /\ Leave(w)
  /\ UNCHANGED <<policy, suppression, material, blocked, job, count,
                 submitting, queue>>

Begun(r) == [r EXCEPT !.status = "RUNNING", !.error = "none",
                      !.attempts = @ + 1, !.fresh = StaleAfter]

Begin(w) ==
  /\ wk[w].pc = "locked"
  /\ LET j == wk[w].job IN
       /\ ~AlreadyFinished(j)
       /\ ~(job[j].status = "RUNNING" /\ job[j].fresh > 0)
       /\ IF Exhausted(job[j])
          THEN /\ job' = [job EXCEPT ![j].status = "FAILED", ![j].error = "final"]
               /\ Acknowledge(w)
               /\ Leave(w)
          ELSE /\ job' = [job EXCEPT ![j] = Begun(@)]
               /\ wk' = [wk EXCEPT ![w].pc = "open"]
               /\ UNCHANGED <<queue, lock>>
  /\ UNCHANGED <<policy, suppression, material, blocked, count, submitting>>

\* Mutant: a batch does not look at the archive again.
MayImportBlocked(j) == policy

\* lock_batch: what every transaction of the import checks first.
MayImport(j) == policy /\ j \notin blocked

Open(w) ==
  /\ wk[w].pc = "open"
  /\ LET j == wk[w].job IN
       /\ MayImport(j)
       /\ job[j].archive # <<>>
       /\ job' = [job EXCEPT ![j].total = Len(job[j].archive)]
  /\ wk' = [wk EXCEPT ![w].pc = "walk"]
  /\ UNCHANGED <<policy, suppression, material, blocked, count, submitting,
                 queue, lock>>

\* Mutant: positions that failed are judged again.
ResumeAfterProcessed(r) == r.processed

\* The committed counters are a cursor into the immutable archive.
ResumeAfter(r) == Cursor(r)

From(w) ==
  IF wk[w].index = 0 THEN ResumeAfter(job[wk[w].job]) ELSE wk[w].index

\* The walk commits at each multiple of the batch size, and at the end.
SinceBoundary(n) == n % BatchSize
NextBoundary(n) == n + (BatchSize - SinceBoundary(n))
To(w) ==
  LET total == job[wk[w].job].total IN
  IF NextBoundary(From(w)) <= total THEN NextBoundary(From(w)) ELSE total
AtBoundary(w) == NextBoundary(From(w)) <= job[wk[w].job].total

Chunk(w) == (From(w) + 1)..To(w)

Denied(i) == i \notin Malformed /\ suppression[i] = "denied"

\* The positions that are imported; the others are recorded as failed.
Good(j, chunk) ==
  {k \in chunk : /\ job[j].archive[k] \notin Malformed
                 /\ suppression[job[j].archive[k]] # "denied"}

Judged(j, chunk) ==
  LET good == Good(j, chunk) IN
  [job[j] EXCEPT !.processed = @ + Cardinality(good),
                 !.failed = @ + Cardinality(chunk \ good),
                 !.errors = @ \cup (chunk \ good),
                 !.entries = @ \cup {job[j].archive[k] : k \in good}]

Linked(j, chunk) ==
  [i \in Item |-> IF \E k \in Good(j, chunk) : job[j].archive[k] = i
                  THEN material[i] \cup {j} ELSE material[i]]

\* Mutant: a suppressed conversation only counts as failed.
BlockedByNothing(j, chunk) == blocked

\* An archive that holds a deleted conversation is blocked.
BlockedBy(j, chunk) ==
  IF \E k \in chunk : Denied(job[j].archive[k]) THEN blocked \cup {j} ELSE blocked

\* Entries, links, counters and the cursor commit together.
ImportBatch(w) ==
  /\ wk[w].pc = "walk"
  /\ MayImport(wk[w].job)
  /\ AtBoundary(w)
  /\ LET j == wk[w].job IN
       /\ job' = [job EXCEPT ![j] = Judged(j, Chunk(w))]
       /\ material' = Linked(j, Chunk(w))
       /\ blocked' = BlockedBy(j, Chunk(w))
  /\ wk' = [wk EXCEPT ![w].index = To(w)]
  /\ UNCHANGED <<policy, suppression, count, submitting, queue, lock>>

\* Mutant: failed positions do not make an import partial.
ClosedIgnoringFailures(r) ==
  IF r.processed = 0 THEN [r EXCEPT !.status = "FAILED", !.error = "final"]
  ELSE [r EXCEPT !.status = "COMPLETED"]

Closed(r) ==
  IF r.processed = 0 THEN [r EXCEPT !.status = "FAILED", !.error = "final"]
  ELSE IF r.failed # 0 THEN [r EXCEPT !.status = "PARTIAL"]
  ELSE [r EXCEPT !.status = "COMPLETED"]

\* What is left after the last boundary, and the result of the whole walk.
Finish(w) ==
  /\ wk[w].pc = "walk"
  /\ MayImport(wk[w].job)
  /\ ~AtBoundary(w)
  /\ LET j == wk[w].job IN
       /\ job' = [job EXCEPT ![j] = Closed(Judged(j, Chunk(w)))]
       /\ material' = Linked(j, Chunk(w))
       /\ blocked' = BlockedBy(j, Chunk(w))
  /\ Acknowledge(w)
  /\ Leave(w)
  /\ UNCHANGED <<policy, suppression, count, submitting>>

\* The transaction rolls back; what is recorded comes in the next one.
Raise(w, code) ==
  /\ wk' = [wk EXCEPT ![w].pc = "failing", ![w].code = code]
  /\ UNCHANGED <<policy, suppression, material, blocked, job, count,
                 submitting, queue, lock>>

\* The policy or the archive forbids it, or the archive is empty.
Refuse(w) ==
  /\ wk[w].pc \in {"open", "walk"}
  /\ \/ ~policy /\ Raise(w, "policy")
     \/ /\ policy
        /\ \/ wk[w].job \in blocked
           \/ wk[w].pc = "open" /\ job[wk[w].job].archive = <<>>
        /\ Raise(w, "final")

\* The archive is invalid, or the attempt took too long.
Reject(w) == wk[w].pc \in {"open", "walk"} /\ Raise(w, "final")

\* Storage or the database fails.
BreakDown(w) == wk[w].pc \in {"open", "walk"} /\ Raise(w, "infra")

AfterBreakdown(r) ==
  [r EXCEPT !.status = IF Exhausted(r) THEN "FAILED" ELSE "PENDING",
            !.error = "infra"]

\* Only a permanent failure of the archive is acknowledged at once.
RecordFailure(w) ==
  /\ wk[w].pc = "failing"
  /\ LET j == wk[w].job IN
       job' = IF wk[w].code = "infra"
              THEN [job EXCEPT ![j] = AfterBreakdown(@)]
              ELSE [job EXCEPT ![j].status = "FAILED", ![j].error = "final"]
  /\ IF wk[w].code = "final" THEN Acknowledge(w) ELSE UNCHANGED queue
  /\ Leave(w)
  /\ UNCHANGED <<policy, suppression, material, blocked, count, submitting>>

\* The process or its connection dies, and the session lock with it.
Crash(w) ==
  /\ wk[w].pc # "idle"
  /\ wk' = [wk EXCEPT ![w] = Idle]
  /\ lock' = IF lock = w THEN NoWorker ELSE lock
  /\ UNCHANGED <<policy, suppression, material, blocked, job, count,
                 submitting, queue>>

-----------------------------------------------------------------------------
Less(n) == IF n = 0 THEN 0 ELSE n - 1

Tick ==
  /\ job' = [j \in JobIds |-> [job[j] EXCEPT !.fresh = Less(@)]]
  /\ UNCHANGED <<policy, suppression, material, blocked, count, submitting,
                 queue, lock, wk>>

Owner ==
  \/ \E a \in Archives : Upload(a)
  \/ \E j \in JobIds : Retry(j)
  \/ \E s \in submitting : Deliver(s) \/ Answered(s) \/ SendFails(s)
  \/ \E i \in Item : DeleteRecord(i) \/ AllowReimport(i)
  \/ SetPolicy

Step(w) ==
  \/ PollDatabase(w)
  \/ PollQueue(w)
  \/ TakeLock(w)
  \/ Busy(w)
  \/ Redelivered(w)
  \/ StillFresh(w)
  \/ Begin(w)
  \/ Open(w)
  \/ ImportBatch(w)
  \/ Finish(w)
  \/ Refuse(w)
  \/ RecordFailure(w)

Next ==
  \/ Owner
  \/ \E w \in Worker : Step(w) \/ Reject(w) \/ BreakDown(w) \/ Crash(w)
  \/ Tick

Spec == Init /\ [][Next]_vars

\* Time passes, a live worker takes its next step, and every cycle of a worker
\* asks the database before the queue: what it finds there again and again is
\* begun again and again, however often it dies on the way.
FromDatabase(w) == ~wk[w].message
Fairness ==
  /\ WF_vars(Tick)
  /\ \A w \in Worker :
       /\ WF_vars(Step(w))
       /\ SF_vars(PollDatabase(w))
       /\ SF_vars(TakeLock(w) /\ FromDatabase(w))
       /\ SF_vars(Begin(w) /\ FromDatabase(w))

FairSpec == Spec /\ Fairness

-----------------------------------------------------------------------------
(***************************************************************************)
(* Safety.                                                                 *)
(***************************************************************************)
\* The counters, the error list, the result list and the cursor tell one story:
\* each position up to the cursor was judged exactly once, through every batch,
\* crash, takeover and resumption.
CountersMatchCursor ==
  \A j \in JobIds :
    LET r == job[j] IN
    /\ Cursor(r) <= Len(r.archive)
    /\ r.errors \subseteq 1..Cursor(r)
    /\ r.failed = Cardinality(r.errors)
    /\ r.entries = {r.archive[k] : k \in (1..Cursor(r)) \ r.errors}

\* A completed import holds every conversation of its archive, but for those the
\* owner deleted since.
CompletedIsWhole ==
  \A j \in JobIds : job[j].status = "COMPLETED" =>
    \A k \in 1..Len(job[j].archive) :
      LET i == job[j].archive[k] IN
      i \in job[j].entries /\ (j \in material[i] \/ suppression[i] # "none")

\* The original of a deleted conversation does not stay readable: each archive
\* whose walk has passed it is blocked, whether it was imported before the
\* deletion or met only afterwards.
OriginalsAreBlocked ==
  \A j \in JobIds : \A k \in 1..Cursor(job[j]) :
    suppression[job[j].archive[k]] = "denied" => j \in blocked

\* A pending job has an attempt left, so a worker never finds one it must give up.
PendingIsRunnable ==
  \A j \in JobIds :
    /\ job[j].attempts <= MaxAttempts
    /\ job[j].status = "PENDING" => job[j].attempts < MaxAttempts

(***************************************************************************)
(* What no step may do.                                                    *)
(***************************************************************************)
\* What the owner decided holds at once for imports under way: nothing is added
\* from a disabled source, from a blocked archive, or for a deleted record.
OwnerDecisionsHold ==
  [][\A i \in Item : \A j \in material'[i] \ material[i] :
       /\ policy /\ j \notin blocked /\ suppression[i] # "denied"
       /\ job[j].status = "RUNNING"]_vars

\* A job that waits for its automatic retry is ended by no late report of the
\* request that submitted it.
AutomaticRetryIsKept ==
  [][\A j \in JobIds :
       job[j].status = "PENDING" /\ job[j].error = "infra"
         => job'[j].status \in {"PENDING", "RUNNING"}]_vars

\* Redelivered messages and late workers leave a finished job alone; only the
\* owner's retry reopens one, and never one whose archive is blocked.
FinishedStays ==
  [][\A j \in JobIds :
       job[j].status \in Terminal /\ job'[j].status # job[j].status
         => /\ job[j].status # "COMPLETED" /\ job'[j].status = "PENDING"
            /\ j \notin blocked]_vars

(***************************************************************************)
(* Liveness.                                                               *)
(***************************************************************************)
\* Every submitted import ends, though its message is lost and its workers die.
ImportsSettle ==
  \A j \in JobIds :
    job[j].status \in {"PENDING", "RUNNING"} ~> job[j].status \in Terminal
=============================================================================
