-------------------------- MODULE ImportJobsProofs --------------------------
(***************************************************************************)
(* Proofs about ImportJobs, for every number of workers, archives, items   *)
(* and attempts and for every batch size.                                  *)
(***************************************************************************)
EXTENDS ImportRefinement, FiniteSetTheorems, TLAPS

(***************************************************************************)
(* Type correctness.                                                       *)
(***************************************************************************)
LEMMA ConstantTypes ==
  /\ AbsentJob \in Job
  /\ Idle \in WorkerState
  /\ \A a \in Archives :
       [AbsentJob EXCEPT !.status = "PENDING", !.archive = a] \in Job
BY DEF AbsentJob, Idle, Job, WorkerState, Status, Terminal, Inside

LEMMA ArchiveTypes ==
  ASSUME NEW r \in Job
  PROVE  /\ Len(r.archive) \in Nat
         /\ \A k \in 1..Len(r.archive) : r.archive[k] \in Item
         /\ Cursor(r) \in Nat
<1>1. r.archive \in Seq(Item)
  <2>1. r.archive \in Archives \/ r.archive = <<>>
    BY DEF Job
  <2>2. <<>> \in Seq(Item)
    OBVIOUS
  <2> QED
    BY <2>1, <2>2, ArchivesAssumption
<1>2. /\ Len(r.archive) \in Nat
      /\ \A k \in 1..Len(r.archive) : r.archive[k] \in Item
  <2> DEFINE s == r.archive
  <2>1. s \in Seq(Item)
    BY <1>1
  <2> HIDE DEF s
  <2>2. Len(s) \in Nat
    BY <2>1
  <2>3. ASSUME NEW k \in 1..Len(s) PROVE s[k] \in Item
    BY <2>1, <2>3
  <2> QED
    BY <2>2, <2>3 DEF s
<1>3. Cursor(r) \in Nat
  BY DEF Cursor, Job
<1> QED
  BY <1>2, <1>3

LEMMA RowUpdates ==
  ASSUME NEW r \in Job
  PROVE  /\ Rewound(r) \in Job
         /\ Resubmitted(r) \in Job
         /\ AfterBreakdown(r) \in Job
         /\ Closed(r) \in Job
         /\ [r EXCEPT !.status = "FAILED", !.error = "queue"] \in Job
         /\ [r EXCEPT !.status = "FAILED", !.error = "final"] \in Job
         /\ Begun(r) \in Job
         /\ [r EXCEPT !.total = Len(r.archive)] \in Job
         /\ [r EXCEPT !.fresh = Less(@)] \in Job
<1>1. {"PENDING", "RUNNING", "COMPLETED", "PARTIAL", "FAILED"} \subseteq Status
  BY DEF Status, Terminal
<1>2. Rewound(r) \in Job
  BY DEF Rewound, Job
<1>3. Resubmitted(r) \in Job
  BY <1>1, <1>2 DEF Resubmitted, Job
<1>4. AfterBreakdown(r) \in Job
  BY <1>1 DEF AfterBreakdown, Job
<1>5. Closed(r) \in Job
  BY <1>1 DEF Closed, Job
<1>6. /\ [r EXCEPT !.status = "FAILED", !.error = "queue"] \in Job
      /\ [r EXCEPT !.status = "FAILED", !.error = "final"] \in Job
  BY <1>1 DEF Job
<1>7. Begun(r) \in Job
  <2> DEFINE n == r.attempts + 1
  <2>1. n \in Nat /\ StaleAfter \in Nat
    BY LimitsAssumption DEF Job
  <2>2. [r EXCEPT !.status = "RUNNING", !.error = "none",
                  !.attempts = n, !.fresh = StaleAfter] \in Job
    <3> HIDE DEF n
    <3> QED
      BY <1>1, <2>1 DEF Job
  <2> QED
    BY <2>2 DEF Begun
<1>8. [r EXCEPT !.total = Len(r.archive)] \in Job
  BY ArchiveTypes DEF Job
<1>9. [r EXCEPT !.fresh = Less(@)] \in Job
  BY DEF Job, Less
<1> QED
  BY <1>2, <1>3, <1>4, <1>5, <1>6, <1>7, <1>8, <1>9

LEMMA InitTypeOK == Init => TypeOK
<1> SUFFICES ASSUME Init PROVE TypeOK
  OBVIOUS
<1>1. count \in 0..MaxJobs
  BY LimitsAssumption DEF Init
<1> QED
  BY <1>1, ConstantTypes DEF Init, TypeOK

LEMMA OwnerType == TypeOK /\ Owner => TypeOK'
<1> SUFFICES ASSUME TypeOK, Owner PROVE TypeOK'
  OBVIOUS
<1>1. ASSUME NEW a \in Archives, Upload(a) PROVE TypeOK'
  <2>1. count + 1 \in JobIds /\ count' \in 0..MaxJobs
    BY <1>1, LimitsAssumption DEF Upload, TypeOK, JobIds
  <2>2. job' \in [JobIds -> Job]
    BY <1>1, <2>1, ConstantTypes DEF Upload, TypeOK
  <2>3. submitting' \subseteq JobIds \X Nat
    BY <1>1, <2>1 DEF Upload, TypeOK
  <2> QED
    BY <1>1, <2>1, <2>2, <2>3 DEF Upload, TypeOK
<1>2. ASSUME NEW j \in JobIds, Retry(j) PROVE TypeOK'
  <2>1. job[j] \in Job /\ job[j].attempts \in Nat
    BY DEF TypeOK, Job
  <2>2. job' \in [JobIds -> Job]
    BY <1>2, <2>1, RowUpdates DEF Retry, TypeOK
  <2>3. submitting' \subseteq JobIds \X Nat
    BY <1>2, <2>1 DEF Retry, TypeOK
  <2> QED
    BY <1>2, <2>2, <2>3 DEF Retry, TypeOK
<1>3. ASSUME NEW s \in submitting, Deliver(s) PROVE TypeOK'
  BY <1>3 DEF Deliver, TypeOK
<1>4. ASSUME NEW s \in submitting, Answered(s) PROVE TypeOK'
  BY <1>4 DEF Answered, TypeOK
<1>5. ASSUME NEW s \in submitting, SendFails(s) PROVE TypeOK'
  <2>1. s[1] \in JobIds /\ job[s[1]] \in Job
    BY DEF TypeOK
  <2>2. job' \in [JobIds -> Job]
    BY <1>5, <2>1, RowUpdates DEF SendFails, TypeOK
  <2> QED
    BY <1>5, <2>2 DEF SendFails, TypeOK
<1>6. ASSUME NEW i \in Item, DeleteRecord(i) PROVE TypeOK'
  BY <1>6 DEF DeleteRecord, TypeOK
<1>7. ASSUME NEW i \in Item, AllowReimport(i) PROVE TypeOK'
  BY <1>7 DEF AllowReimport, TypeOK
<1>8. CASE SetPolicy
  BY <1>8 DEF SetPolicy, TypeOK
<1> QED
  BY <1>1, <1>2, <1>3, <1>4, <1>5, <1>6, <1>7, <1>8 DEF Owner

(***************************************************************************)
(* The invariant.                                                          *)
(***************************************************************************)
\* A row's counters, errors, results and cursor agree.
Counted(r) ==
  /\ Cursor(r) <= Len(r.archive)
  /\ r.errors \subseteq 1..Cursor(r)
  /\ r.failed = Cardinality(r.errors)
  /\ r.entries = {r.archive[k] : k \in (1..Cursor(r)) \ r.errors}

\* A completed row went through its whole archive without an error.
Whole(r) == r.status = "COMPLETED" => Cursor(r) = Len(r.archive) /\ r.failed = 0

Rows ==
  /\ PendingIsRunnable
  /\ \A j \in JobIds : Counted(job[j]) /\ Whole(job[j])
  /\ \A j \in JobIds : job[j].status = "absent" <=> j > count

\* Messages, requests and workers only name jobs there are.
Refs ==
  /\ queue \subseteq 1..count
  /\ \A s \in submitting : s[1] \in 1..count
  /\ \A w \in Worker : wk[w].pc # "idle" => wk[w].job \in 1..count

\* What a request remembers is out of date once its job has been begun.
Requests ==
  \A s \in submitting :
    LET r == job[s[1]] IN
    /\ s[2] <= r.attempts
    /\ r.status = "RUNNING" \/ (r.status = "PENDING" /\ r.error = "infra")
         => s[2] < r.attempts

\* A worker inside an import holds the session lock, its job is running, and its
\* loop stands where the cursor does.
Control ==
  \A w \in Worker :
    /\ wk[w].pc \in Inside <=> lock = w
    /\ wk[w].pc \in {"open", "walk", "failing"} => job[wk[w].job].status = "RUNNING"
    /\ wk[w].pc \in {"received", "locked", "open"} => wk[w].index = 0
    /\ wk[w].pc = "walk" =>
         LET r == job[wk[w].job] IN
         r.total = Len(r.archive) /\ wk[w].index \in {0, Cursor(r)}

\* Each position up to the cursor is malformed, linked, or its archive is blocked;
\* each that did not fail is linked or was deleted since.
Links ==
  /\ \A i \in Item :
       /\ suppression[i] = "denied" => material[i] = {}
       /\ material[i] # {} \/ suppression[i] # "none" => i \notin Malformed
  /\ \A j \in JobIds : \A k \in 1..Cursor(job[j]) :
       LET i == job[j].archive[k] IN
       /\ i \in Malformed \/ j \in material[i] \/ j \in blocked
       /\ k \notin job[j].errors => j \in material[i] \/ suppression[i] # "none"

IInv == TypeOK /\ Rows /\ Refs /\ Requests /\ Control /\ Links

LEMMA KnownJobs ==
  ASSUME TypeOK
  PROVE  count \in Nat /\ 1..count \subseteq JobIds
BY LimitsAssumption DEF TypeOK, JobIds

LEMMA BoundaryAhead ==
  ASSUME NEW c \in Nat
  PROVE  NextBoundary(c) \in Nat /\ NextBoundary(c) > c
<1>1. SinceBoundary(c) \in 0..(BatchSize - 1)
  BY LimitsAssumption DEF SinceBoundary
<1> QED
  BY <1>1, LimitsAssumption DEF NextBoundary

\* Where a batch starts and ends.
LEMMA BatchFacts ==
  ASSUME IInv, NEW w \in Worker, wk[w].pc = "walk",
         NEW r, r = job[wk[w].job]
  PROVE  /\ wk[w].job \in JobIds /\ r \in Job
         /\ Counted(r) /\ r.status = "RUNNING"
         /\ Cursor(r) \in Nat /\ To(w) \in Nat /\ Len(r.archive) \in Nat
         /\ Cursor(r) <= To(w) /\ To(w) <= Len(r.archive)
         /\ Chunk(w) = (Cursor(r) + 1)..To(w)
         /\ ~AtBoundary(w) => To(w) = Len(r.archive)
<1>1. wk[w].job \in JobIds
  BY KnownJobs DEF IInv, Refs
<1>2. r \in Job /\ Counted(r)
  BY <1>1 DEF IInv, TypeOK, Rows
<1>3. r.status = "RUNNING" /\ r.total = Len(r.archive) /\ wk[w].index \in {0, Cursor(r)}
  BY DEF IInv, Control
<1>4. Cursor(r) \in Nat /\ Len(r.archive) \in Nat
  BY <1>2, ArchiveTypes
<1>5. From(w) = Cursor(r)
  BY <1>3 DEF From, ResumeAfter
<1> DEFINE c == Cursor(r)
           n == Len(r.archive)
           b == NextBoundary(c)
<1>6. b \in Nat /\ b > c
  BY <1>4, BoundaryAhead
<1>7. To(w) = IF b <= n THEN b ELSE n
  BY <1>3, <1>5 DEF To
<1>8. AtBoundary(w) <=> b <= n
  BY <1>3, <1>5 DEF AtBoundary
<1>9. c <= n
  BY <1>2 DEF Counted
<1>10. To(w) \in Nat /\ c <= To(w) /\ To(w) <= n /\ (~AtBoundary(w) => To(w) = n)
  BY <1>4, <1>6, <1>7, <1>8, <1>9
<1>11. Chunk(w) = (c + 1)..To(w)
  BY <1>5 DEF Chunk
<1> QED
  BY <1>1, <1>2, <1>3, <1>4, <1>10, <1>11

\* Judging some positions of an archive keeps the types.
LEMMA JudgedType ==
  ASSUME TypeOK, NEW j \in JobIds, NEW chunk \in SUBSET Nat, IsFiniteSet(chunk),
         \A k \in chunk : job[j].archive[k] \in Item
  PROVE  /\ Judged(j, chunk) \in Job
         /\ Linked(j, chunk) \in [Item -> SUBSET JobIds]
         /\ BlockedBy(j, chunk) \subseteq JobIds
<1> DEFINE good == Good(j, chunk)
           p == Cardinality(good)
           f == Cardinality(chunk \ good)
           named == {job[j].archive[k] : k \in good}
<1>1. good \subseteq chunk
  BY DEF Good
<1>2. p \in Nat /\ f \in Nat
  BY <1>1, FS_Subset, FS_CardinalityType
<1>3. job[j] \in Job /\ named \subseteq Item /\ chunk \ good \subseteq Nat
  BY <1>1 DEF TypeOK
<1>4. job[j].processed + p \in Nat /\ job[j].failed + f \in Nat
  BY <1>2, <1>3 DEF Job
<1>5. Judged(j, chunk) = [job[j] EXCEPT !.processed = job[j].processed + p,
        !.failed = job[j].failed + f, !.errors = @ \cup (chunk \ good),
        !.entries = @ \cup named]
  BY <1>3 DEF Judged, Job
<1>6. Judged(j, chunk) \in Job
  <2> DEFINE pp == job[j].processed + p
             ff == job[j].failed + f
  <2>1. pp \in Nat /\ ff \in Nat
    BY <1>4
  <2> HIDE DEF p, f, good, named, pp, ff
  <2>2. [job[j] EXCEPT !.processed = pp, !.failed = ff,
           !.errors = @ \cup (chunk \ good), !.entries = @ \cup named] \in Job
    BY <2>1, <1>3 DEF Job
  <2> QED
    BY <2>2, <1>5 DEF pp, ff
<1>7. Linked(j, chunk) \in [Item -> SUBSET JobIds]
  BY DEF Linked, TypeOK
<1>8. BlockedBy(j, chunk) \subseteq JobIds
  BY DEF BlockedBy, TypeOK
<1> QED
  BY <1>6, <1>7, <1>8

LEMMA Intervals ==
  ASSUME NEW c \in Nat, NEW t \in Nat, c <= t
  PROVE  /\ (c + 1)..t \subseteq 1..t
         /\ ((c + 1)..t) \cap (1..c) = {}
         /\ 1..t = (1..c) \cup ((c + 1)..t)
OBVIOUS

\* Judging the positions up to t moves the cursor there and keeps the accounts.
LEMMA JudgedCounts ==
  ASSUME IInv, NEW j \in JobIds, NEW t \in Nat,
         Cursor(job[j]) <= t, t <= Len(job[j].archive),
         NEW chunk, chunk = (Cursor(job[j]) + 1)..t,
         NEW q, q = Judged(j, chunk)
  PROVE  /\ q \in Job /\ Counted(q) /\ Cursor(q) = t
         /\ Linked(j, chunk) \in [Item -> SUBSET JobIds]
         /\ BlockedBy(j, chunk) \subseteq JobIds
         /\ q.archive = job[j].archive /\ q.total = job[j].total
         /\ q.status = job[j].status /\ q.attempts = job[j].attempts
         /\ q.error = job[j].error
<1> DEFINE r == job[j]
           c == Cursor(r)
           good == Good(j, chunk)
           bad == chunk \ good
<1>1. r \in Job /\ Counted(r)
  BY DEF IInv, TypeOK, Rows
<1>2. c \in Nat /\ \A k \in 1..Len(r.archive) : r.archive[k] \in Item
  BY <1>1, ArchiveTypes
<1>3. IsFiniteSet(chunk) /\ Cardinality(chunk) = t - c
  <2>1. c + 1 \in Int /\ t \in Int
    BY <1>2
  <2>2. /\ IsFiniteSet((c + 1)..t)
        /\ Cardinality((c + 1)..t) = IF c + 1 > t THEN 0 ELSE t - (c + 1) + 1
    BY <2>1, FS_Interval
  <2> HIDE DEF c
  <2>3. c <= t
    BY DEF c
  <2>4. (IF c + 1 > t THEN 0 ELSE t - (c + 1) + 1) = t - c
    BY <1>2, <2>3
  <2>5. chunk = (c + 1)..t
    BY DEF c
  <2> QED
    BY <2>2, <2>4, <2>5
<1>4. chunk \subseteq 1..t /\ chunk \cap (1..c) = {} /\ 1..t = (1..c) \cup chunk
  BY <1>2, Intervals
<1>5. \A k \in chunk : r.archive[k] \in Item
  <2>1. Len(r.archive) \in Nat
    BY <1>1, ArchiveTypes
  <2> QED
    BY <2>1, <1>2, <1>4
<1>6. chunk \in SUBSET Nat
  BY <1>4
<1>7. /\ q \in Job
      /\ Linked(j, chunk) \in [Item -> SUBSET JobIds]
      /\ BlockedBy(j, chunk) \subseteq JobIds
  BY <1>3, <1>5, <1>6, JudgedType DEF IInv
<1>8. good \subseteq chunk
  BY DEF Good
<1>9. /\ IsFiniteSet(good) /\ IsFiniteSet(bad)
      /\ Cardinality(good) \in Nat /\ Cardinality(bad) \in Nat
      /\ Cardinality(good) + Cardinality(bad) = t - c
  <2>1. IsFiniteSet(good) /\ IsFiniteSet(bad)
    BY <1>3, <1>8, FS_Subset
  <2>2. Cardinality(good) \in Nat /\ Cardinality(bad) \in Nat
    BY <2>1, FS_CardinalityType
  <2>3. chunk \cap good = good
    BY <1>8
  <2>4. Cardinality(bad) = Cardinality(chunk) - Cardinality(chunk \cap good)
    BY <1>3, <2>1, FS_Difference
  <2>5. Cardinality(bad) = (t - c) - Cardinality(good)
    BY <2>3, <2>4, <1>3
  <2> DEFINE x == Cardinality(good)
             y == Cardinality(bad)
  <2>6. x \in Nat /\ y \in Nat /\ y = (t - c) - x
    BY <2>2, <2>5
  <2>7. x + y = t - c
    <3> HIDE DEF x, y, c
    <3> QED
      BY <2>6, <1>2
  <2> QED
    BY <2>1, <2>2, <2>7
<1>10. /\ q.processed = r.processed + Cardinality(good)
       /\ q.failed = r.failed + Cardinality(bad)
       /\ q.errors = r.errors \cup bad
       /\ q.entries = r.entries \cup {r.archive[k] : k \in good}
       /\ q.archive = r.archive /\ q.total = r.total
       /\ q.status = r.status /\ q.attempts = r.attempts /\ q.error = r.error
  BY <1>1 DEF Judged, Job
<1>11. Cursor(q) = t
  <2> DEFINE x == Cardinality(good)
             y == Cardinality(bad)
  <2>1. r.processed \in Nat /\ r.failed \in Nat /\ c = r.processed + r.failed
    BY <1>1 DEF Job, Cursor
  <2>2. Cursor(q) = (r.processed + x) + (r.failed + y)
    BY <1>10 DEF Cursor
  <2>3. x \in Nat /\ y \in Nat /\ x + y = t - c
    BY <1>9
  <2> DEFINE a == r.processed
             b == r.failed
  <2>4. /\ Cursor(q) = (a + x) + (b + y) /\ c = a + b /\ x + y = t - c
        /\ a \in Nat /\ b \in Nat /\ x \in Nat /\ y \in Nat
    BY <2>1, <2>2, <2>3
  <2> HIDE DEF a, b, x, y, c
  <2> QED
    BY <2>4
<1>12. q.errors \subseteq 1..t
  <2>1. r.errors \subseteq 1..c
    BY <1>1 DEF Counted
  <2> QED
    BY <2>1, <1>4, <1>8, <1>10
<1>13. q.failed = Cardinality(q.errors)
  <2>1. r.errors \subseteq 1..c /\ r.failed = Cardinality(r.errors)
    BY <1>1 DEF Counted
  <2>2. IsFiniteSet(1..c)
    BY <1>2, FS_Interval
  <2>3. IsFiniteSet(r.errors)
    BY <2>1, <2>2, FS_Subset
  <2>4. r.errors \cap bad = {}
    BY <2>1, <1>4
  <2>5. Cardinality(r.errors \cup bad)
          = Cardinality(r.errors) + Cardinality(bad) - Cardinality(r.errors \cap bad)
    BY <2>3, <1>9, FS_Union
  <2>6. Cardinality(r.errors \cap bad) = 0
    BY <2>4, FS_EmptySet
  <2> DEFINE x == Cardinality(r.errors)
             y == Cardinality(bad)
             z == Cardinality(r.errors \cap bad)
             u == Cardinality(r.errors \cup bad)
  <2>7. x \in Nat /\ y \in Nat
    BY <2>3, <1>9, FS_CardinalityType
  <2>8. u = x + y
    <3>1. u = x + y - z /\ z = 0
      BY <2>5, <2>6
    <3> HIDE DEF x, y, z, u
    <3> QED
      BY <3>1, <2>7
  <2> QED
    BY <2>1, <2>8, <1>10
<1>14. q.entries = {q.archive[k] : k \in (1..t) \ q.errors}
  <2>1. r.entries = {r.archive[k] : k \in (1..c) \ r.errors} /\ r.errors \subseteq 1..c
    BY <1>1 DEF Counted
  <2>2. (1..t) \ (r.errors \cup bad) = ((1..c) \ r.errors) \cup good
    BY <2>1, <1>4, <1>8
  <2>3. q.entries = {r.archive[k] : k \in ((1..c) \ r.errors) \cup good}
    BY ZenonT(60), <2>1, <1>10
  <2> QED
    BY <2>2, <2>3, <1>10
<1>15. Counted(q)
  BY <1>10, <1>11, <1>12, <1>13, <1>14 DEF Counted
<1> QED
  BY <1>7, <1>10, <1>11, <1>15

LEMMA Leaving ==
  ASSUME TypeOK, NEW w \in Worker, Leave(w)
  PROVE  /\ wk' \in [Worker -> WorkerState] /\ lock' = NoWorker
         /\ wk' = [wk EXCEPT ![w] = Idle] /\ wk'[w].pc = "idle"
         /\ lock' \in Worker \cup {NoWorker}
BY ConstantTypes DEF Leave, TypeOK, Idle

LEMMA Acknowledging ==
  ASSUME NEW w \in Worker, Acknowledge(w)
  PROVE  queue' \subseteq queue
BY DEF Acknowledge

\* What a worker that is inside an import has in hand.
LEMMA InsideFacts ==
  ASSUME IInv, NEW w \in Worker, wk[w].pc # "idle"
  PROVE  /\ wk[w].job \in 1..count /\ wk[w].job \in JobIds
         /\ job[wk[w].job] \in Job
BY KnownJobs DEF IInv, Refs, TypeOK

WorkerMove(w) == Step(w) \/ Reject(w) \/ BreakDown(w) \/ Crash(w)

LEMMA WorkerType ==
  ASSUME IInv, NEW w \in Worker, WorkerMove(w)
  PROVE  TypeOK'
<1> DEFINE j == wk[w].job
<1>0. TypeOK /\ wk[w] \in WorkerState /\ wk \in [Worker -> WorkerState]
  BY DEF IInv, TypeOK
<1>1. CASE PollDatabase(w)
  <2>1. PICK k \in JobIds : wk' = [wk EXCEPT ![w] = [Idle EXCEPT !.pc = "received", !.job = k]]
    BY <1>1 DEF PollDatabase, Candidates
  <2>2. k \in Nat
    BY LimitsAssumption DEF JobIds
  <2>3. [Idle EXCEPT !.pc = "received", !.job = k] \in WorkerState
    BY <2>2 DEF Idle, WorkerState
  <2> QED
    BY <1>0, <1>1, <2>1, <2>3 DEF PollDatabase, TypeOK
<1>2. CASE PollQueue(w)
  <2>1. PICK k \in queue : wk' = [wk EXCEPT ![w] = [Idle EXCEPT !.pc = "received", !.job = k,
                                                             !.message = TRUE]]
    BY <1>2 DEF PollQueue
  <2>2. k \in Nat
    BY <1>0, LimitsAssumption DEF JobIds, TypeOK
  <2>3. [Idle EXCEPT !.pc = "received", !.job = k, !.message = TRUE] \in WorkerState
    BY <2>2 DEF Idle, WorkerState
  <2> QED
    BY <1>0, <1>2, <2>1, <2>3 DEF PollQueue, TypeOK
<1>3. CASE TakeLock(w)
  <2>1. [wk[w] EXCEPT !.pc = "locked"] \in WorkerState
    BY <1>0 DEF WorkerState, Inside
  <2> QED
    BY <1>0, <1>3, <2>1 DEF TakeLock, TypeOK
<1>4. CASE Busy(w)
  BY <1>0, <1>4, ConstantTypes DEF Busy, TypeOK
<1>5. CASE Redelivered(w)
  BY <1>0, <1>5, Leaving, Acknowledging DEF Redelivered, TypeOK
<1>6. CASE StillFresh(w)
  BY <1>0, <1>6, Leaving DEF StillFresh, TypeOK
<1>7. CASE Begin(w)
  <2>1. j \in JobIds /\ job[j] \in Job
    BY <1>7, InsideFacts DEF Begin
  <2>2. CASE Exhausted(job[j])
    <3>1. /\ job' = [job EXCEPT ![j].status = "FAILED", ![j].error = "final"]
          /\ Acknowledge(w) /\ Leave(w)
      BY <1>7, <2>2 DEF Begin
    <3>2. job' \in [JobIds -> Job]
      BY <1>0, <2>1, <3>1, RowUpdates DEF TypeOK
    <3> QED
      BY <1>0, <1>7, <3>1, <3>2, Leaving, Acknowledging DEF Begin, TypeOK
  <2>3. CASE ~Exhausted(job[j])
    <3>1. /\ job' = [job EXCEPT ![j] = Begun(@)]
          /\ wk' = [wk EXCEPT ![w].pc = "open"] /\ UNCHANGED <<queue, lock>>
      BY <1>7, <2>3 DEF Begin
    <3>2. job' \in [JobIds -> Job]
      BY <1>0, <2>1, <3>1, RowUpdates DEF TypeOK
    <3>3. [wk[w] EXCEPT !.pc = "open"] \in WorkerState
      BY <1>0 DEF WorkerState, Inside
    <3> QED
      BY <1>0, <1>7, <3>1, <3>2, <3>3 DEF Begin, TypeOK
  <2> QED
    BY <2>2, <2>3
<1>8. CASE Open(w)
  <2>1. j \in JobIds /\ job[j] \in Job
    BY <1>8, InsideFacts DEF Open
  <2>2. job' \in [JobIds -> Job]
    BY <1>0, <1>8, <2>1, RowUpdates DEF Open, TypeOK
  <2>3. [wk[w] EXCEPT !.pc = "walk"] \in WorkerState
    BY <1>0 DEF WorkerState, Inside
  <2> QED
    BY <1>0, <1>8, <2>2, <2>3 DEF Open, TypeOK
<1>9. CASE ImportBatch(w) \/ Finish(w)
  <2>1. wk[w].pc = "walk"
    BY <1>9 DEF ImportBatch, Finish
  <2>2. /\ j \in JobIds /\ To(w) \in Nat /\ Cursor(job[j]) <= To(w)
        /\ To(w) <= Len(job[j].archive) /\ Chunk(w) = (Cursor(job[j]) + 1)..To(w)
    BY <2>1, BatchFacts
  <2>3. /\ Judged(j, Chunk(w)) \in Job
        /\ Linked(j, Chunk(w)) \in [Item -> SUBSET JobIds]
        /\ BlockedBy(j, Chunk(w)) \subseteq JobIds
    BY <2>2, JudgedCounts
  <2>4. Closed(Judged(j, Chunk(w))) \in Job
    BY <2>3, RowUpdates
  <2>5. CASE ImportBatch(w)
    <3>1. job' \in [JobIds -> Job]
      BY <1>0, <2>2, <2>3, <2>5 DEF ImportBatch, TypeOK
    <3>2. [wk[w] EXCEPT !.index = To(w)] \in WorkerState
      BY <1>0, <2>2 DEF WorkerState
    <3> QED
      BY <1>0, <2>3, <2>5, <3>1, <3>2 DEF ImportBatch, TypeOK
  <2>6. CASE Finish(w)
    <3>1. job' \in [JobIds -> Job]
      BY <1>0, <2>2, <2>4, <2>6 DEF Finish, TypeOK
    <3> QED
      BY <1>0, <2>3, <2>6, <3>1, Leaving, Acknowledging DEF Finish, TypeOK
  <2> QED
    BY <1>9, <2>5, <2>6
<1>10. ASSUME NEW code \in {"infra", "policy", "final"}, Raise(w, code) PROVE TypeOK'
  <2>1. [wk[w] EXCEPT !.pc = "failing", !.code = code] \in WorkerState
    BY <1>0 DEF WorkerState, Inside
  <2> QED
    BY <1>0, <1>10, <2>1 DEF Raise, TypeOK
<1>11. CASE Refuse(w) \/ Reject(w) \/ BreakDown(w)
  BY <1>10, <1>11 DEF Refuse, Reject, BreakDown
<1>12. CASE RecordFailure(w)
  <2>1. j \in JobIds /\ job[j] \in Job
    BY <1>12, InsideFacts DEF RecordFailure
  <2>2. job' \in [JobIds -> Job]
    BY <1>0, <1>12, <2>1, RowUpdates DEF RecordFailure, TypeOK
  <2>3. queue' \subseteq queue
    BY <1>12, Acknowledging DEF RecordFailure
  <2> QED
    BY <1>0, <1>12, <2>2, <2>3, Leaving DEF RecordFailure, TypeOK
<1>13. CASE Crash(w)
  BY <1>0, <1>13, ConstantTypes DEF Crash, TypeOK
<1> QED
  BY <1>1, <1>2, <1>3, <1>4, <1>5, <1>6, <1>7, <1>8, <1>9, <1>11, <1>12, <1>13
     DEF WorkerMove, Step

LEMMA NextType == IInv /\ [Next]_vars => TypeOK'
<1> SUFFICES ASSUME IInv, [Next]_vars PROVE TypeOK'
  OBVIOUS
<1>1. CASE Owner
  BY <1>1, OwnerType DEF IInv
<1>2. ASSUME NEW w \in Worker, WorkerMove(w) PROVE TypeOK'
  BY <1>2, WorkerType
<1>3. CASE Tick
  <2>1. \A j \in JobIds : [job[j] EXCEPT !.fresh = Less(@)] \in Job
    BY RowUpdates DEF IInv, TypeOK
  <2> QED
    BY <1>3, <2>1 DEF Tick, IInv, TypeOK
<1>4. CASE UNCHANGED vars
  BY <1>4 DEF vars, IInv, TypeOK
<1> QED
  BY <1>1, <1>2, <1>3, <1>4 DEF Next, WorkerMove

(***************************************************************************)
(* What a step can do to one row: everything about rows follows from it.   *)
(***************************************************************************)
RowChange(j) ==
  LET r == job[j]
      q == job'[j]
  IN
  \/ q = r
  \/ /\ r.status = "absent" /\ j = count + 1 /\ count' = count + 1
     /\ \E a \in Archives : q = [AbsentJob EXCEPT !.status = "PENDING", !.archive = a]
  \/ /\ r.status \in {"FAILED", "PARTIAL"} /\ r.attempts < MaxAttempts
     /\ j \notin blocked /\ q = Resubmitted(r)
  \/ /\ r.status = "PENDING" /\ \E s \in submitting : s[1] = j /\ s[2] = r.attempts
     /\ q = [r EXCEPT !.status = "FAILED", !.error = "queue"]
  \/ /\ r.status = "RUNNING" \/ (r.status = "PENDING" /\ Exhausted(r))
     /\ q = [r EXCEPT !.status = "FAILED", !.error = "final"]
  \/ /\ r.status \in {"PENDING", "RUNNING"} /\ ~Exhausted(r)
     /\ q = Begun(r)
  \/ r.status = "RUNNING" /\ q = [r EXCEPT !.total = Len(r.archive)]
  \/ \E w \in Worker : /\ ImportBatch(w) /\ wk[w].pc = "walk" /\ wk[w].job = j
                        /\ q = Judged(j, Chunk(w))
  \/ \E w \in Worker : /\ Finish(w) /\ wk[w].pc = "walk" /\ wk[w].job = j /\ ~AtBoundary(w)
                        /\ q = Closed(Judged(j, Chunk(w)))
  \/ r.status = "RUNNING" /\ q = AfterBreakdown(r)
  \/ q = [r EXCEPT !.fresh = Less(@)]

LEMMA RowsChange ==
  ASSUME IInv, [Next]_vars
  PROVE  \A j \in JobIds : RowChange(j)
<1> SUFFICES ASSUME NEW j \in JobIds PROVE RowChange(j)
  OBVIOUS
<1>0. TypeOK /\ job \in [JobIds -> Job] /\ job[j] \in Job
  BY DEF IInv, TypeOK
<1> USE DEF RowChange
<1>1. ASSUME NEW a \in Archives, Upload(a) PROVE RowChange(j)
  <2>1. job' = [job EXCEPT ![count + 1] = [AbsentJob EXCEPT !.status = "PENDING", !.archive = a]]
    BY <1>1 DEF Upload
  <2>2. CASE j = count + 1
    <3>1. j > count
      BY <2>2, <1>0, KnownJobs
    <3>2. job[j].status = "absent"
      BY <3>1 DEF IInv, Rows
    <3>3. /\ job'[j] = [AbsentJob EXCEPT !.status = "PENDING", !.archive = a]
          /\ count' = count + 1
      BY <1>1, <2>1, <2>2, <1>0 DEF Upload
    <3> QED
      BY <2>2, <3>2, <3>3, Zenon
  <2>3. CASE j # count + 1
    <3>1. job'[j] = job[j]
      BY <2>1, <2>3, <1>0
    <3> QED
      BY <3>1, Zenon
  <2> QED
    BY <2>2, <2>3
<1>2. ASSUME NEW k \in JobIds, Retry(k) PROVE RowChange(j)
  <2>1. CASE j = k
    BY <1>0, <1>2, <2>1 DEF Retry
  <2>2. CASE j # k
    BY <1>0, <1>2, <2>2 DEF Retry
  <2> QED
    BY <2>1, <2>2
<1>3. ASSUME NEW s \in submitting, SendFails(s) PROVE RowChange(j)
  <2>1. CASE j = s[1] /\ StillSubmitted(s)
    <3>1. /\ job[j].status = "PENDING" /\ s[1] = j /\ s[2] = job[j].attempts
          /\ job'[j] = [job[j] EXCEPT !.status = "FAILED", !.error = "queue"]
      BY <1>0, <1>3, <2>1 DEF SendFails, StillSubmitted
    <3> QED
      BY <3>1, Zenon
  <2>2. CASE ~(j = s[1] /\ StillSubmitted(s))
    <3>1. job'[j] = job[j]
      BY <1>0, <1>3, <2>2 DEF SendFails
    <3> QED
      BY <3>1, Zenon
  <2> QED
    BY <2>1, <2>2
<1>4. CASE job' = job
  BY <1>4, Zenon
<1>5. CASE Owner
  <2>1. ASSUME NEW s \in submitting, Deliver(s) \/ Answered(s) PROVE job' = job
    BY <2>1 DEF Deliver, Answered
  <2>2. ASSUME NEW i \in Item, DeleteRecord(i) \/ AllowReimport(i) PROVE job' = job
    BY <2>2 DEF DeleteRecord, AllowReimport
  <2>3. SetPolicy => job' = job
    BY DEF SetPolicy
  <2> HIDE DEF RowChange
  <2> QED
    BY <1>1, <1>2, <1>3, <1>4, <1>5, <2>1, <2>2, <2>3 DEF Owner
<1>6. ASSUME NEW w \in Worker, Begin(w) PROVE RowChange(j)
  <2> DEFINE k == wk[w].job
  <2>1. k \in 1..count /\ k \in JobIds /\ job[k] \in Job
    BY <1>6, InsideFacts DEF Begin
  <2>2. job[k].status \in {"PENDING", "RUNNING"}
    <3>1. job[k].status # "absent"
      BY <2>1, <1>0, KnownJobs DEF IInv, Rows
    <3>2. job[k].status \notin Terminal
      BY <1>6 DEF Begin, AlreadyFinished
    <3> QED
      BY <2>1, <3>1, <3>2 DEF Job, Status
  <2>3. /\ Exhausted(job[k]) => job' = [job EXCEPT ![k].status = "FAILED", ![k].error = "final"]
        /\ ~Exhausted(job[k]) => job' = [job EXCEPT ![k] = Begun(@)]
    BY <1>6 DEF Begin
  <2>4. CASE j # k
    <3>1. job'[j] = job[j]
      BY <1>0, <2>3, <2>4
    <3> QED
      BY <3>1, Zenon
  <2>5. CASE j = k /\ Exhausted(job[k])
    <3>1. job'[j] = [job[j] EXCEPT !.status = "FAILED", !.error = "final"]
      BY <1>0, <2>3, <2>5
    <3> QED
      BY <2>2, <2>5, <3>1
  <2>6. CASE j = k /\ ~Exhausted(job[k])
    <3>1. job'[j] = Begun(job[j])
      BY <1>0, <2>3, <2>6
    <3> QED
      BY <2>2, <2>6, <3>1
  <2> QED
    BY <2>4, <2>5, <2>6
<1>7. ASSUME NEW w \in Worker, Open(w) PROVE RowChange(j)
  <2> DEFINE k == wk[w].job
  <2>1. job' = [job EXCEPT ![k].total = Len(job[k].archive)] /\ wk[w].pc = "open"
    BY <1>7 DEF Open
  <2>2. job[k].status = "RUNNING"
    BY <2>1 DEF IInv, Control
  <2>3. CASE j = k
    BY <1>0, <2>1, <2>2, <2>3
  <2>4. CASE j # k
    BY <1>0, <2>1, <2>4
  <2> QED
    BY <2>3, <2>4
<1>8. ASSUME NEW w \in Worker, ImportBatch(w) PROVE RowChange(j)
  <2>1. wk[w].pc = "walk" /\ job' = [job EXCEPT ![wk[w].job] = Judged(wk[w].job, Chunk(w))]
    BY <1>8 DEF ImportBatch
  <2>2. CASE j = wk[w].job
    <3>1. job'[j] = Judged(j, Chunk(w))
      BY <1>0, <2>1, <2>2
    <3> QED
      BY <1>8, <2>1, <2>2, <3>1, Zenon
  <2>3. CASE j # wk[w].job
    <3>1. job'[j] = job[j]
      BY <1>0, <2>1, <2>3
    <3> QED
      BY <3>1, Zenon
  <2> QED
    BY <2>2, <2>3
<1>9. ASSUME NEW w \in Worker, Finish(w) PROVE RowChange(j)
  <2>1. /\ wk[w].pc = "walk" /\ ~AtBoundary(w)
        /\ job' = [job EXCEPT ![wk[w].job] = Closed(Judged(wk[w].job, Chunk(w)))]
    BY <1>9 DEF Finish
  <2>2. CASE j = wk[w].job
    <3>1. job'[j] = Closed(Judged(j, Chunk(w)))
      BY <1>0, <2>1, <2>2
    <3> QED
      BY <1>9, <2>1, <2>2, <3>1, Zenon
  <2>3. CASE j # wk[w].job
    <3>1. job'[j] = job[j]
      BY <1>0, <2>1, <2>3
    <3> QED
      BY <3>1, Zenon
  <2> QED
    BY <2>2, <2>3
<1>10. ASSUME NEW w \in Worker, RecordFailure(w) PROVE RowChange(j)
  <2> DEFINE k == wk[w].job
  <2>1. job[k].status = "RUNNING"
    BY <1>10 DEF RecordFailure, IInv, Control
  <2>2. CASE j # k
    <3>1. job'[j] = job[j]
      BY <1>0, <1>10, <2>2 DEF RecordFailure
    <3> QED
      BY <3>1, Zenon
  <2>3. CASE j = k
    <3>1. \/ job'[j] = AfterBreakdown(job[j])
          \/ job'[j] = [job[j] EXCEPT !.status = "FAILED", !.error = "final"]
      BY <1>0, <1>10, <2>3 DEF RecordFailure
    <3> QED
      BY <2>1, <2>3, <3>1, Zenon
  <2> QED
    BY <2>2, <2>3
<1>11. CASE Tick
  <2>1. job'[j] = [job[j] EXCEPT !.fresh = Less(@)]
    BY <1>11 DEF Tick
  <2> QED
    BY <2>1, Zenon
<1>12. ASSUME NEW w \in Worker, WorkerMove(w),
              ~Begin(w), ~Open(w), ~ImportBatch(w), ~Finish(w), ~RecordFailure(w)
       PROVE  job' = job
  BY <1>12 DEF WorkerMove, Step, PollDatabase, PollQueue, TakeLock, Busy, Redelivered,
               StillFresh, Refuse, Reject, BreakDown, Raise, Crash
<1>13. CASE UNCHANGED vars
  BY <1>4, <1>13 DEF vars
<1> HIDE DEF RowChange
<1> QED
  BY <1>4, <1>5, <1>6, <1>7, <1>8, <1>9, <1>10, <1>11, <1>12, <1>13 DEF Next, WorkerMove

\* The row that a batch leaves behind.
LEMMA BatchRow ==
  ASSUME IInv, NEW w \in Worker, wk[w].pc = "walk",
         NEW j, j = wk[w].job, NEW q, q = Judged(j, Chunk(w))
  PROVE  /\ j \in JobIds /\ job[j] \in Job /\ q \in Job
         /\ Counted(q) /\ Cursor(q) = To(w) /\ job[j].status = "RUNNING"
         /\ q.archive = job[j].archive /\ q.total = job[j].total
         /\ q.status = "RUNNING" /\ q.attempts = job[j].attempts
         /\ q.error = job[j].error
         /\ q.errors = job[j].errors \cup (Chunk(w) \ Good(j, Chunk(w)))
         /\ ~AtBoundary(w) => Cursor(q) = Len(q.archive)
<1>1. /\ j \in JobIds /\ job[j] \in Job /\ job[j].status = "RUNNING"
      /\ To(w) \in Nat /\ Cursor(job[j]) <= To(w) /\ To(w) <= Len(job[j].archive)
      /\ Chunk(w) = (Cursor(job[j]) + 1)..To(w)
      /\ ~AtBoundary(w) => To(w) = Len(job[j].archive)
  BY BatchFacts
<1>2. /\ q \in Job /\ Counted(q) /\ Cursor(q) = To(w)
      /\ q.archive = job[j].archive /\ q.total = job[j].total
      /\ q.status = job[j].status /\ q.attempts = job[j].attempts
      /\ q.error = job[j].error
      /\ q.errors = job[j].errors \cup (Chunk(w) \ Good(j, Chunk(w)))
  <2> DEFINE chunk == Chunk(w)
             t == To(w)
  <2>1. /\ t \in Nat /\ Cursor(job[j]) <= t /\ t <= Len(job[j].archive)
        /\ chunk = (Cursor(job[j]) + 1)..t /\ q = Judged(j, chunk) /\ j \in JobIds
    BY <1>1
  <2> HIDE DEF chunk, t
  <2>2. /\ q \in Job /\ Counted(q) /\ Cursor(q) = t
        /\ q.archive = job[j].archive /\ q.total = job[j].total
        /\ q.status = job[j].status /\ q.attempts = job[j].attempts
        /\ q.error = job[j].error
    BY <2>1, JudgedCounts
  <2>3. q.errors = job[j].errors \cup (chunk \ Good(j, chunk))
    BY <1>1, <2>1 DEF Judged, Job
  <2> QED
    BY <2>2, <2>3 DEF chunk, t
<1> QED
  BY <1>1, <1>2

LEMMA RowsKept ==
  ASSUME IInv, NEW j \in JobIds, RowChange(j), NEW q \in Job, q = job'[j]
  PROVE  /\ Counted(q) /\ Whole(q)
         /\ q.attempts <= MaxAttempts
         /\ q.status = "PENDING" => q.attempts < MaxAttempts
<1> DEFINE r == job[j]
<1>0. /\ r \in Job /\ Counted(r) /\ Whole(r) /\ r.attempts \in Nat /\ MaxAttempts \in Nat
      /\ r.attempts <= MaxAttempts
      /\ r.status = "PENDING" => r.attempts < MaxAttempts
  BY LimitsAssumption DEF IInv, TypeOK, Rows, PendingIsRunnable, Job
<1>1. CASE q = r
  BY <1>0, <1>1
<1>2. ASSUME NEW a \in Archives, q = [AbsentJob EXCEPT !.status = "PENDING", !.archive = a]
      PROVE  Counted(q) /\ q.attempts = 0 /\ q.status = "PENDING"
  <2>1. /\ q.status = "PENDING" /\ q.archive = a /\ q.attempts = 0 /\ q.processed = 0
        /\ q.failed = 0 /\ q.errors = {} /\ q.entries = {}
    BY <1>2 DEF AbsentJob
  <2>2. Cursor(q) = 0
    BY <2>1 DEF Cursor
  <2>3. Len(q.archive) \in Nat
    BY ArchiveTypes
  <2>4. Cardinality(q.errors) = 0 /\ {q.archive[k] : k \in (1..0) \ q.errors} = {}
    BY <2>1, FS_EmptySet
  <2> QED
    BY <2>1, <2>2, <2>3, <2>4 DEF Counted
<1>3. CASE q = Resubmitted(r) /\ r.attempts < MaxAttempts
  <2> DEFINE z == Rewound(r)
  <2>1. z \in Job
    BY <1>0, RowUpdates
  <2>2. Counted(z) /\ z.attempts = r.attempts
    <3>1. CASE r.total # 0 /\ Cursor(r) = r.total
      <4>1. /\ z.archive = r.archive /\ z.attempts = r.attempts /\ z.processed = 0
            /\ z.failed = 0 /\ z.errors = {} /\ z.entries = {}
        BY <1>0, <3>1 DEF Rewound, Job
      <4>2. Cursor(z) = 0
        BY <4>1 DEF Cursor
      <4>3. Len(z.archive) \in Nat
        BY <2>1, ArchiveTypes
      <4>4. Cardinality(z.errors) = 0 /\ {z.archive[k] : k \in (1..0) \ z.errors} = {}
        BY <4>1, FS_EmptySet
      <4> QED
        BY <4>1, <4>2, <4>3, <4>4 DEF Counted
    <3>2. CASE ~(r.total # 0 /\ Cursor(r) = r.total)
      BY <1>0, <3>2 DEF Rewound
    <3> QED
      BY <3>1, <3>2
  <2>3. /\ q.status = "PENDING" /\ q.attempts = z.attempts /\ q.archive = z.archive
        /\ q.processed = z.processed /\ q.failed = z.failed
        /\ q.errors = z.errors /\ q.entries = z.entries
    BY <1>3, <2>1 DEF Resubmitted, Job
  <2>4. Counted(q)
    <3> HIDE DEF z
    <3> QED
      BY <2>2, <2>3 DEF Counted, Cursor
  <2>5. q.attempts < MaxAttempts
    <3> HIDE DEF z
    <3> QED
      BY <1>3, <2>2, <2>3
  <2>6. q.attempts \in Nat /\ Whole(q)
    BY <2>3 DEF Whole, Job
  <2> QED
    <3> HIDE DEF z
    <3> QED
      BY <1>0, <2>4, <2>5, <2>6
<1>4. ASSUME /\ q.archive = r.archive /\ q.processed = r.processed /\ q.failed = r.failed
             /\ q.errors = r.errors /\ q.entries = r.entries
      PROVE  Counted(q)
  BY <1>0, <1>4 DEF Counted, Cursor
<1>5. CASE \/ q = [r EXCEPT !.status = "FAILED", !.error = "queue"]
           \/ q = [r EXCEPT !.status = "FAILED", !.error = "final"]
  BY <1>0, <1>4, <1>5 DEF Job, Whole
<1>6. CASE q = Begun(r) /\ ~Exhausted(r)
  <2>1. /\ q.status = "RUNNING" /\ q.attempts = r.attempts + 1
        /\ q.archive = r.archive /\ q.processed = r.processed /\ q.failed = r.failed
        /\ q.errors = r.errors /\ q.entries = r.entries
    BY <1>0, <1>6 DEF Begun, Job
  <2>2. q.attempts <= MaxAttempts
    BY <1>0, <1>6, <2>1 DEF Exhausted
  <2> QED
    BY <1>4, <2>1, <2>2 DEF Whole
<1>7. CASE r.status = "RUNNING" /\ q = [r EXCEPT !.total = Len(r.archive)]
  BY <1>0, <1>4, <1>7 DEF Job, Whole
<1>8. ASSUME NEW w \in Worker, wk[w].pc = "walk", wk[w].job = j, q = Judged(j, Chunk(w))
      PROVE  /\ Counted(q) /\ Whole(q) /\ q.attempts <= MaxAttempts
             /\ q.status = "PENDING" => q.attempts < MaxAttempts
  <2>1. Counted(q) /\ q.status = "RUNNING" /\ q.attempts = r.attempts
    BY <1>8, BatchRow
  <2> QED
    BY <1>0, <2>1 DEF Whole
<1>9. ASSUME NEW w \in Worker, wk[w].pc = "walk", wk[w].job = j, ~AtBoundary(w),
             q = Closed(Judged(j, Chunk(w)))
      PROVE  /\ Counted(q) /\ Whole(q) /\ q.attempts <= MaxAttempts
             /\ q.status = "PENDING" => q.attempts < MaxAttempts
  <2> DEFINE z == Judged(j, Chunk(w))
  <2>1. /\ z \in Job /\ Counted(z) /\ z.attempts = r.attempts
        /\ Cursor(z) = Len(z.archive)
    BY <1>9, BatchRow
  <2> HIDE DEF z
  <2>2. /\ q.attempts = z.attempts /\ q.archive = z.archive
        /\ q.processed = z.processed /\ q.failed = z.failed
        /\ q.errors = z.errors /\ q.entries = z.entries
        /\ q.status \in {"FAILED", "PARTIAL", "COMPLETED"}
        /\ q.status = "COMPLETED" => z.failed = 0
    BY <1>9, <2>1 DEF Closed, Job, z
  <2>3. Counted(q) /\ Cursor(q) = Len(q.archive)
    BY <2>1, <2>2 DEF Counted, Cursor
  <2> QED
    BY <1>0, <2>1, <2>2, <2>3 DEF Whole
<1>10. CASE r.status = "RUNNING" /\ q = AfterBreakdown(r)
  <2>1. /\ q.attempts = r.attempts /\ q.archive = r.archive
        /\ q.processed = r.processed /\ q.failed = r.failed
        /\ q.errors = r.errors /\ q.entries = r.entries
        /\ q.status = IF Exhausted(r) THEN "FAILED" ELSE "PENDING"
    BY <1>0, <1>10 DEF AfterBreakdown, Job
  <2> QED
    BY <1>0, <1>4, <2>1 DEF Exhausted, Whole
<1>11. CASE q = [r EXCEPT !.fresh = Less(@)]
  <2>1. /\ q.attempts = r.attempts /\ q.archive = r.archive /\ q.status = r.status
        /\ q.processed = r.processed /\ q.failed = r.failed
        /\ q.errors = r.errors /\ q.entries = r.entries
    BY <1>0, <1>11 DEF Job
  <2> QED
    BY <1>0, <1>4, <2>1 DEF Whole, Cursor
<1>12. ASSUME NEW a \in Archives, q = [AbsentJob EXCEPT !.status = "PENDING", !.archive = a]
       PROVE  /\ Counted(q) /\ Whole(q) /\ q.attempts <= MaxAttempts
              /\ q.status = "PENDING" => q.attempts < MaxAttempts
  <2>1. Counted(q) /\ q.attempts = 0 /\ q.status = "PENDING"
    BY <1>2, <1>12
  <2>2. 0 < MaxAttempts
    BY LimitsAssumption
  <2> QED
    BY <2>1, <2>2, <1>0 DEF Whole
<1> QED
  BY <1>1, <1>3, <1>5, <1>6, <1>7, <1>8, <1>9, <1>10, <1>11, <1>12 DEF RowChange

\* What a request remembers of a row.
Remembers(n, r) ==
  /\ n <= r.attempts
  /\ r.status = "RUNNING" \/ (r.status = "PENDING" /\ r.error = "infra") => n < r.attempts

\* How the status of a row can change.
Transition(j) ==
  LET r == job[j]
      q == job'[j]
  IN
  /\ r.status = "absent" /\ q.status # "absent" => j = count + 1 /\ count' = count + 1
  /\ r.status # "absent" => q.status # "absent"
  /\ r.status # "absent" => \A n \in Nat : Remembers(n, r) => Remembers(n, q)
  /\ r.status = "PENDING" /\ r.error = "infra" => q.status \in {"PENDING", "RUNNING"}
  /\ r.status \in Terminal /\ q.status # r.status =>
       r.status # "COMPLETED" /\ q.status = "PENDING" /\ j \notin blocked

LEMMA Transitions ==
  ASSUME IInv, NEW j \in JobIds, RowChange(j), job' \in [JobIds -> Job]
  PROVE  Transition(j)
<1> DEFINE r == job[j]
           q == job'[j]
<1>0. r \in Job /\ q \in Job /\ r.attempts \in Nat /\ q.attempts \in Nat
  BY DEF IInv, TypeOK, Job
<1>1. CASE q.status = r.status /\ q.attempts = r.attempts /\ q.error = r.error
  BY <1>0, <1>1 DEF Transition, Remembers, Terminal
<1>2. ASSUME NEW a \in Archives, r.status = "absent", j = count + 1, count' = count + 1,
             q = [AbsentJob EXCEPT !.status = "PENDING", !.archive = a]
      PROVE  Transition(j)
  BY <1>2 DEF Transition, AbsentJob, Terminal
<1>3. CASE /\ r.status \in {"FAILED", "PARTIAL"} /\ j \notin blocked /\ q = Resubmitted(r)
  <2>1. Rewound(r) \in Job
    BY <1>0, RowUpdates
  <2>2. Rewound(r).attempts = r.attempts
    BY <1>0 DEF Rewound, Job
  <2>3. q.status = "PENDING" /\ q.error = "none" /\ q.attempts = r.attempts
    BY <1>3, <2>1, <2>2 DEF Resubmitted, Job
  <2> QED
    BY <1>0, <1>3, <2>3 DEF Transition, Remembers, Terminal
<1>4. ASSUME r.status = "PENDING",
             NEW s \in submitting, s[1] = j, s[2] = r.attempts,
             q = [r EXCEPT !.status = "FAILED", !.error = "queue"]
      PROVE  Transition(j)
  <2>1. r.error # "infra"
    BY <1>0, <1>4 DEF IInv, Requests
  <2>2. q.status = "FAILED" /\ q.attempts = r.attempts
    BY <1>0, <1>4 DEF Job
  <2> QED
    BY <1>0, <1>4, <2>1, <2>2 DEF Transition, Remembers, Terminal
<1>5. CASE /\ r.status = "RUNNING" \/ (r.status = "PENDING" /\ Exhausted(r))
           /\ q = [r EXCEPT !.status = "FAILED", !.error = "final"]
  <2>1. r.status = "RUNNING"
    BY <1>0, <1>5, LimitsAssumption DEF IInv, Rows, PendingIsRunnable, Exhausted
  <2>2. q.status = "FAILED" /\ q.attempts = r.attempts
    BY <1>0, <1>5 DEF Job
  <2> QED
    BY <1>0, <2>1, <2>2 DEF Transition, Remembers, Terminal
<1>6. CASE r.status \in {"PENDING", "RUNNING"} /\ q = Begun(r)
  <2>1. q.status = "RUNNING" /\ q.attempts = r.attempts + 1
    BY <1>0, <1>6 DEF Begun, Job
  <2>2. \A n \in Nat : Remembers(n, r) => Remembers(n, q)
    BY <1>0, <2>1 DEF Remembers
  <2> QED
    BY <1>6, <2>1, <2>2 DEF Transition, Terminal
<1>7. CASE q = [r EXCEPT !.total = Len(r.archive)] \/ q = [r EXCEPT !.fresh = Less(@)]
  BY <1>0, <1>1, <1>7 DEF Job
<1>8. ASSUME NEW w \in Worker, wk[w].pc = "walk", wk[w].job = j, q = Judged(j, Chunk(w))
      PROVE  Transition(j)
  BY <1>1, <1>8, BatchRow
<1>9. ASSUME NEW w \in Worker, wk[w].pc = "walk", wk[w].job = j, ~AtBoundary(w),
             q = Closed(Judged(j, Chunk(w)))
      PROVE  Transition(j)
  <2> DEFINE z == Judged(j, Chunk(w))
  <2>1. z \in Job /\ z.attempts = r.attempts /\ r.status = "RUNNING"
    BY <1>9, BatchRow
  <2>2. q.attempts = r.attempts /\ q.status \in {"FAILED", "PARTIAL", "COMPLETED"}
    <3> HIDE DEF z
    <3> QED
      BY <1>9, <2>1 DEF Closed, Job, z
  <2> QED
    BY <1>0, <2>1, <2>2 DEF Transition, Remembers, Terminal
<1>10. CASE r.status = "RUNNING" /\ q = AfterBreakdown(r)
  <2>1. q.attempts = r.attempts /\ q.status \in {"FAILED", "PENDING"}
    BY <1>0, <1>10 DEF AfterBreakdown, Job
  <2> QED
    BY <1>0, <1>10, <2>1 DEF Transition, Remembers, Terminal
<1>11. CASE q = r
  BY <1>1, <1>11
<1> QED
  BY <1>2, <1>3, <1>4, <1>5, <1>6, <1>7, <1>8, <1>9, <1>10, <1>11 DEF RowChange

\* The job rows that a step leaves satisfy the invariant.
LEMMA NextRows == IInv /\ [Next]_vars => Rows'
<1> SUFFICES ASSUME IInv, [Next]_vars PROVE Rows'
  OBVIOUS
<1>1. TypeOK' /\ job' \in [JobIds -> Job]
  BY NextType DEF TypeOK
<1>2. \A j \in JobIds : RowChange(j) /\ Transition(j)
  BY <1>1, RowsChange, Transitions
<1>3. \A j \in JobIds : job'[j] \in Job
  BY <1>1
<1>4. \A j \in JobIds : /\ Counted(job'[j]) /\ Whole(job'[j])
                        /\ job'[j].attempts <= MaxAttempts
                        /\ job'[j].status = "PENDING" => job'[j].attempts < MaxAttempts
  BY <1>2, <1>3, RowsKept
<1>5. \/ count' = count
      \/ /\ count' = count + 1 /\ count + 1 \in JobIds
         /\ job'[count + 1].status # "absent"
  <2>1. ASSUME NEW a \in Archives, Upload(a)
        PROVE  /\ count' = count + 1 /\ count + 1 \in JobIds
               /\ job'[count + 1].status # "absent"
    <3>1. count + 1 \in JobIds /\ count' = count + 1
      BY <2>1, LimitsAssumption DEF Upload, IInv, TypeOK, JobIds
    <3>2. job'[count + 1] = [AbsentJob EXCEPT !.status = "PENDING", !.archive = a]
      BY <2>1, <3>1 DEF Upload, IInv, TypeOK
    <3> QED
      BY <3>1, <3>2 DEF AbsentJob
  <2>2. ASSUME Owner, ~\E a \in Archives : Upload(a) PROVE count' = count
    BY <2>2 DEF Owner, Retry, Deliver, Answered, SendFails, DeleteRecord, AllowReimport, SetPolicy
  <2>3. ASSUME NEW w \in Worker, WorkerMove(w) PROVE count' = count
    BY <2>3 DEF WorkerMove, Step, PollDatabase, PollQueue, TakeLock, Busy, Redelivered,
       StillFresh, Begin, Open, ImportBatch, Finish, Refuse, RecordFailure, Reject,
       BreakDown, Raise, Crash
  <2>4. Tick \/ UNCHANGED vars => count' = count
    BY DEF Tick, vars
  <2> QED
    BY <2>1, <2>2, <2>3, <2>4 DEF Next, WorkerMove
<1>6. ASSUME NEW j \in JobIds PROVE job'[j].status = "absent" <=> j > count'
  <2>1. count \in Nat /\ j \in Nat
    BY KnownJobs, LimitsAssumption DEF IInv, JobIds
  <2>2. job[j].status = "absent" <=> j > count
    BY DEF IInv, Rows
  <2>3. /\ job[j].status = "absent" /\ job'[j].status # "absent"
             => j = count + 1 /\ count' = count + 1
        /\ job[j].status # "absent" => job'[j].status # "absent"
    BY <1>2 DEF Transition
  <2> QED
    BY <1>5, <2>1, <2>2, <2>3
<1> QED
  BY <1>4, <1>6 DEF Rows, PendingIsRunnable

LEMMA CountGrows ==
  ASSUME IInv, [Next]_vars
  PROVE  /\ count \in Nat /\ count' \in Nat /\ count <= count'
         /\ 1..count \subseteq 1..count'
<1>1. count \in Nat
  BY KnownJobs DEF IInv
<1>2. count' = count \/ count' = count + 1
  <2>1. Owner => count' = count \/ count' = count + 1
    BY DEF Owner, Upload, Retry, Deliver, Answered, SendFails, DeleteRecord, AllowReimport, SetPolicy
  <2>2. ASSUME NEW w \in Worker, WorkerMove(w) PROVE count' = count
    BY <2>2 DEF WorkerMove, Step, PollDatabase, PollQueue, TakeLock, Busy, Redelivered,
       StillFresh, Begin, Open, ImportBatch, Finish, Refuse, RecordFailure, Reject,
       BreakDown, Raise, Crash
  <2>3. Tick \/ UNCHANGED vars => count' = count
    BY DEF Tick, vars
  <2> QED
    BY <2>1, <2>2, <2>3 DEF Next, WorkerMove
<1> QED
  BY <1>1, <1>2

\* A worker changes its own control state only, it keeps its job while it is busy,
\* and it never puts a message into the queue or a request.
LEMMA WorkerFrame ==
  ASSUME IInv, NEW w \in Worker, WorkerMove(w)
  PROVE  /\ \A v \in Worker \ {w} : wk'[v] = wk[v]
         /\ queue' \subseteq queue /\ submitting' = submitting /\ count' = count
         /\ suppression' = suppression
         /\ wk[w].pc # "idle" /\ wk'[w].pc # "idle" => wk'[w].job = wk[w].job
         /\ wk[w].pc = "idle" => wk'[w].job \in queue \cup Candidates
<1>0. wk \in [Worker -> WorkerState]
  BY DEF IInv, TypeOK
<1>1. CASE PollDatabase(w) \/ PollQueue(w)
  BY <1>0, <1>1 DEF PollDatabase, PollQueue, WorkerState, Idle
<1>2. CASE TakeLock(w) \/ Busy(w) \/ Crash(w)
  BY <1>0, <1>2 DEF TakeLock, Busy, Crash, WorkerState, Idle
<1>3. CASE Redelivered(w) \/ StillFresh(w) \/ Finish(w) \/ RecordFailure(w)
  BY <1>0, <1>3, Acknowledging
     DEF Redelivered, StillFresh, Finish, RecordFailure, Leave, WorkerState, Idle
<1>4. CASE Begin(w)
  <2>1. wk' = [wk EXCEPT ![w].pc = "open"] \/ wk' = [wk EXCEPT ![w] = Idle]
    BY <1>4 DEF Begin, Leave
  <2>2. queue' \subseteq queue
    BY <1>4, Acknowledging DEF Begin
  <2> QED
    BY <1>0, <1>4, <2>1, <2>2 DEF Begin, WorkerState, Idle
<1>5. CASE Open(w) \/ ImportBatch(w)
  BY <1>0, <1>5 DEF Open, ImportBatch, WorkerState
<1>6. ASSUME NEW code \in {"infra", "policy", "final"}, Raise(w, code), wk[w].pc # "idle"
      PROVE  /\ \A v \in Worker \ {w} : wk'[v] = wk[v]
             /\ queue' \subseteq queue /\ submitting' = submitting /\ count' = count
             /\ suppression' = suppression
             /\ wk[w].pc # "idle" /\ wk'[w].pc # "idle" => wk'[w].job = wk[w].job
             /\ wk[w].pc = "idle" => wk'[w].job \in queue \cup Candidates
  BY <1>0, <1>6 DEF Raise, WorkerState
<1>7. CASE Refuse(w) \/ Reject(w) \/ BreakDown(w)
  BY <1>6, <1>7 DEF Refuse, Reject, BreakDown
<1> QED
  BY <1>1, <1>2, <1>3, <1>4, <1>5, <1>7 DEF WorkerMove, Step

LEMMA NextRefs == IInv /\ [Next]_vars => Refs'
<1> SUFFICES ASSUME IInv, [Next]_vars PROVE Refs'
  OBVIOUS
<1>0. /\ count \in Nat /\ 1..count \subseteq 1..count'
      /\ 1..count \subseteq JobIds /\ TypeOK
  BY CountGrows, KnownJobs DEF IInv
<1>1. CASE Owner
  <2>1. wk' = wk
    BY <1>1 DEF Owner, Upload, Retry, Deliver, Answered, SendFails, DeleteRecord,
                AllowReimport, SetPolicy
  <2>2. queue' \subseteq 1..count
    <3>1. ASSUME NEW s \in submitting, Deliver(s) PROVE queue' \subseteq 1..count
      BY <3>1 DEF Deliver, IInv, Refs
    <3>2. ASSUME ~\E s \in submitting : Deliver(s) PROVE queue' = queue
      BY <1>1, <3>2 DEF Owner, Upload, Retry, Answered, SendFails, DeleteRecord,
                        AllowReimport, SetPolicy
    <3> QED
      BY <3>1, <3>2 DEF IInv, Refs
  <2>3. \A s \in submitting' : s[1] \in 1..count'
    <3>1. ASSUME NEW a \in Archives, Upload(a) PROVE \A s \in submitting' : s[1] \in 1..count'
      <4>1. submitting' = submitting \cup {<<count + 1, 0>>} /\ count' = count + 1
        BY <3>1 DEF Upload
      <4>2. count + 1 \in 1..count'
        BY <4>1, <1>0
      <4> QED
        BY <4>1, <4>2, <1>0 DEF IInv, Refs
    <3>2. ASSUME NEW j \in JobIds, Retry(j) PROVE \A s \in submitting' : s[1] \in 1..count'
      <4>1. submitting' = submitting \cup {<<j, job[j].attempts>>} /\ job[j].status # "absent"
        BY <3>2 DEF Retry
      <4>2. j \in 1..count
        BY <4>1, <1>0, LimitsAssumption DEF IInv, Rows, JobIds
      <4> QED
        BY <4>1, <4>2, <1>0 DEF IInv, Refs
    <3>3. ASSUME ~\E a \in Archives : Upload(a), ~\E j \in JobIds : Retry(j)
          PROVE  submitting' \subseteq submitting
      BY <1>1, <3>3 DEF Owner, Deliver, Answered, SendFails, DeleteRecord, AllowReimport, SetPolicy
    <3> QED
      BY <3>1, <3>2, <3>3, <1>0 DEF IInv, Refs
  <2> QED
    BY <1>0, <2>1, <2>2, <2>3 DEF IInv, Refs
<1>2. ASSUME NEW w \in Worker, WorkerMove(w) PROVE Refs'
  <2>1. /\ \A v \in Worker \ {w} : wk'[v] = wk[v]
        /\ queue' \subseteq queue /\ submitting' = submitting /\ count' = count
        /\ wk[w].pc # "idle" /\ wk'[w].pc # "idle" => wk'[w].job = wk[w].job
        /\ wk[w].pc = "idle" => wk'[w].job \in queue \cup Candidates
    BY <1>2, WorkerFrame
  <2>2. queue \cup Candidates \subseteq 1..count
    <3>1. \A j \in Candidates : j \in JobIds /\ job[j].status # "absent"
      BY DEF Candidates
    <3>2. \A j \in Candidates : j \in 1..count
      BY <3>1, <1>0, LimitsAssumption DEF IInv, Rows, JobIds
    <3> QED
      BY <3>2 DEF IInv, Refs
  <2>3. wk'[w].pc # "idle" => wk'[w].job \in 1..count
    BY <2>1, <2>2 DEF IInv, Refs
  <2> QED
    BY <2>1, <2>3 DEF IInv, Refs
<1>3. CASE Tick \/ UNCHANGED vars
  BY <1>3 DEF Tick, vars, IInv, Refs
<1> QED
  BY <1>1, <1>2, <1>3 DEF Next, WorkerMove

LEMMA NextRequests == IInv /\ [Next]_vars => Requests'
<1> SUFFICES ASSUME IInv, [Next]_vars, NEW s \in submitting'
             PROVE  Remembers(s[2], job'[s[1]])
  BY DEF Requests, Remembers
<1>0. TypeOK /\ 1..count \subseteq JobIds /\ count \in Nat /\ job \in [JobIds -> Job]
  BY KnownJobs DEF IInv, TypeOK
<1>1. CASE s \in submitting
  <2>1. s[1] \in 1..count /\ s[1] \in JobIds /\ s[2] \in Nat
    BY <1>0, <1>1 DEF IInv, Refs, TypeOK
  <2>2. Transition(s[1])
    BY <2>1, RowsChange, Transitions, NextType DEF TypeOK
  <2>3. job[s[1]].status # "absent"
    BY <2>1, <1>0 DEF IInv, Rows
  <2>4. Remembers(s[2], job[s[1]])
    BY <1>1 DEF IInv, Requests, Remembers
  <2> QED
    BY <2>1, <2>2, <2>3, <2>4 DEF Transition
<1>2. CASE s \notin submitting
  <2>1. \/ \E a \in Archives : Upload(a)
        \/ \E j \in JobIds : Retry(j)
    <3>1. Owner => \/ \E a \in Archives : Upload(a)
                   \/ \E j \in JobIds : Retry(j)
      BY <1>2 DEF Owner, Deliver, Answered, SendFails, DeleteRecord, AllowReimport, SetPolicy
    <3>2. \A w \in Worker : ~WorkerMove(w)
      BY <1>2, WorkerFrame
    <3>3. ~Tick /\ ~UNCHANGED vars
      BY <1>2 DEF Tick, vars
    <3> QED
      BY <3>1, <3>2, <3>3 DEF Next, WorkerMove
  <2>2. ASSUME NEW a \in Archives, Upload(a) PROVE Remembers(s[2], job'[s[1]])
    <3>1. s = <<count + 1, 0>> /\ count + 1 \in JobIds
      BY <1>0, <1>2, <2>2, LimitsAssumption DEF Upload, TypeOK, JobIds
    <3>2. job'[count + 1] = [AbsentJob EXCEPT !.status = "PENDING", !.archive = a]
      BY <1>0, <3>1, <2>2 DEF Upload
    <3>3. s[1] = count + 1 /\ s[2] = 0
      BY <3>1
    <3>4. /\ job'[count + 1].attempts = 0 /\ job'[count + 1].status = "PENDING"
          /\ job'[count + 1].error = "none"
      BY <3>2 DEF AbsentJob
    <3> QED
      BY <3>3, <3>4 DEF Remembers
  <2>3. ASSUME NEW j \in JobIds, Retry(j) PROVE Remembers(s[2], job'[s[1]])
    <3>0. s = <<j, job[j].attempts>>
      BY <1>2, <2>3 DEF Retry
    <3>1. s[1] = j /\ s[2] = job[j].attempts
      BY <3>0
    <3>5. job'[j] = Resubmitted(job[j])
      BY <1>0, <2>3 DEF Retry
    <3>2. job[j] \in Job /\ Rewound(job[j]) \in Job /\ job[j].attempts \in Nat
      <4>1. job[j] \in Job /\ job[j].attempts \in Nat
        BY <1>0 DEF Job
      <4> QED
        BY <4>1, RowUpdates
    <3>3. Rewound(job[j]).attempts = job[j].attempts
      BY <3>2 DEF Rewound, Job
    <3>4. /\ job'[j].attempts = job[j].attempts /\ job'[j].status = "PENDING"
          /\ job'[j].error = "none"
      BY <3>2, <3>3, <3>5 DEF Resubmitted, Job
    <3> QED
      BY <3>1, <3>2, <3>4 DEF Remembers
  <2> QED
    BY <2>1, <2>2, <2>3
<1> QED
  BY <1>1, <1>2

\* The conjuncts of Control for one worker.
Controlled(v) ==
  /\ wk[v].pc \in Inside <=> lock = v
  /\ wk[v].pc \in {"open", "walk", "failing"} => job[wk[v].job].status = "RUNNING"
  /\ wk[v].pc \in {"received", "locked", "open"} => wk[v].index = 0
  /\ wk[v].pc = "walk" =>
       /\ job[wk[v].job].total = Len(job[wk[v].job].archive)
       /\ wk[v].index \in {0, Cursor(job[wk[v].job])}

LEMMA ControlledAll == Control <=> \A v \in Worker : Controlled(v)
BY DEF Control, Controlled

LEMMA OwnerSparesRunning ==
  ASSUME IInv, Owner, NEW j \in JobIds, job[j].status = "RUNNING"
  PROVE  job'[j] = job[j]
<1>0. TypeOK /\ job \in [JobIds -> Job]
  BY DEF IInv, TypeOK
<1>1. ASSUME NEW a \in Archives, Upload(a) PROVE job'[j] = job[j]
  <2>1. count + 1 \in JobIds /\ count + 1 > count
    BY <1>0, <1>1, LimitsAssumption DEF Upload, TypeOK, JobIds
  <2>2. job[count + 1].status = "absent"
    BY <2>1 DEF IInv, Rows
  <2> QED
    BY <1>0, <1>1, <2>2 DEF Upload
<1>2. ASSUME NEW k \in JobIds, Retry(k) PROVE job'[j] = job[j]
  BY <1>0, <1>2 DEF Retry
<1>3. ASSUME NEW s \in submitting, SendFails(s) PROVE job'[j] = job[j]
  BY <1>0, <1>3 DEF SendFails, StillSubmitted
<1> QED
  BY <1>1, <1>2, <1>3 DEF Owner, Deliver, Answered, DeleteRecord, AllowReimport, SetPolicy

\* A worker outside an import only touches its own control state and a free lock.
LEMMA OutsideMove ==
  ASSUME IInv, NEW w \in Worker, WorkerMove(w), wk[w].pc \notin Inside
  PROVE  /\ job' = job /\ material' = material /\ blocked' = blocked
         /\ suppression' = suppression
         /\ \/ wk'[w].pc \in {"idle", "received"} /\ lock' = lock
            \/ wk'[w].pc = "locked" /\ lock = NoWorker /\ lock' = w
         /\ wk'[w].index = 0 \/ wk'[w].pc = "idle"
<1>0. wk \in [Worker -> WorkerState] /\ lock # w
  BY DEF IInv, TypeOK, Control
<1>1. CASE PollDatabase(w) \/ PollQueue(w)
  BY <1>0, <1>1 DEF PollDatabase, PollQueue, Idle
<1>2. CASE TakeLock(w) \/ Busy(w)
  BY <1>0, <1>2 DEF TakeLock, Busy, Idle, WorkerState, IInv, Control
<1>3. CASE Crash(w)
  BY <1>0, <1>3 DEF Crash, Idle
<1>4. ~Redelivered(w) /\ ~StillFresh(w) /\ ~Begin(w) /\ ~Open(w) /\ ~ImportBatch(w)
        /\ ~Finish(w) /\ ~Refuse(w) /\ ~Reject(w) /\ ~BreakDown(w) /\ ~RecordFailure(w)
  BY DEF Inside, Redelivered, StillFresh, Begin, Open, ImportBatch, Finish, Refuse, Reject,
         BreakDown, RecordFailure
<1> QED
  BY <1>1, <1>2, <1>3, <1>4 DEF WorkerMove, Step

LEMMA InsideMove ==
  ASSUME IInv, NEW w \in Worker, WorkerMove(w), wk[w].pc \in Inside, TypeOK'
  PROVE  Controlled(w)' /\ lock' \in {w, NoWorker}
<1> DEFINE j == wk[w].job
<1>0. /\ wk \in [Worker -> WorkerState] /\ lock = w /\ wk[w].pc # "idle" /\ TypeOK
      /\ j \in JobIds /\ job[j] \in Job /\ job \in [JobIds -> Job] /\ w # NoWorker
  <2>1. wk[w].pc # "idle" /\ lock = w
    BY DEF Inside, IInv, Control
  <2> QED
    BY <2>1, InsideFacts, WorkerAssumption DEF IInv, TypeOK
<1>1. ASSUME Leave(w) PROVE Controlled(w)' /\ lock' \in {w, NoWorker}
  <2>1. wk'[w].pc = "idle" /\ lock' = NoWorker
    BY <1>0, <1>1, Leaving
  <2> QED
    BY <2>1, <1>0 DEF Controlled, Inside
<1>2. CASE Redelivered(w) \/ StillFresh(w) \/ Finish(w) \/ RecordFailure(w)
  BY <1>1, <1>2 DEF Redelivered, StillFresh, Finish, RecordFailure
<1>3. CASE Begin(w)
  <2>1. CASE Exhausted(job[j])
    BY <1>1, <1>3, <2>1 DEF Begin
  <2>2. CASE ~Exhausted(job[j])
    <3>1. job' = [job EXCEPT ![j] = Begun(@)] /\ wk' = [wk EXCEPT ![w].pc = "open"]
          /\ lock' = lock /\ wk[w].pc = "locked"
      BY <1>3, <2>2 DEF Begin
    <3>2. job'[j] = Begun(job[j])
      BY <3>1, <1>0
    <3>3. job'[j].status = "RUNNING"
      BY <3>2, <1>0 DEF Begun, Job
    <3>4. wk'[w].pc = "open" /\ wk'[w].job = j /\ wk'[w].index = 0
      BY <3>1, <1>0 DEF WorkerState, IInv, Control
    <3> QED
      BY <3>1, <3>3, <3>4, <1>0 DEF Controlled, Inside
  <2> QED
    BY <2>1, <2>2
<1>4. CASE Open(w)
  <2>1. /\ job' = [job EXCEPT ![j].total = Len(job[j].archive)]
        /\ wk' = [wk EXCEPT ![w].pc = "walk"] /\ lock' = lock /\ wk[w].pc = "open"
    BY <1>4 DEF Open
  <2>2. job'[j] = [job[j] EXCEPT !.total = Len(job[j].archive)]
    BY <2>1, <1>0
  <2>3. /\ job'[j].status = "RUNNING" /\ job'[j].archive = job[j].archive
        /\ job'[j].total = Len(job[j].archive)
    BY <2>1, <2>2, <1>0 DEF Job, IInv, Control
  <2>4. wk'[w].pc = "walk" /\ wk'[w].job = j /\ wk'[w].index = 0
    BY <2>1, <1>0 DEF WorkerState, IInv, Control
  <2> QED
    BY <2>1, <2>3, <2>4, <1>0 DEF Controlled, Inside
<1>5. CASE ImportBatch(w)
  <2>1. /\ job' = [job EXCEPT ![j] = Judged(j, Chunk(w))] /\ wk[w].pc = "walk"
        /\ wk' = [wk EXCEPT ![w].index = To(w)] /\ lock' = lock
    BY <1>5 DEF ImportBatch
  <2> DEFINE q == Judged(j, Chunk(w))
  <2>2. /\ Cursor(q) = To(w) /\ q.archive = job[j].archive
        /\ q.total = job[j].total /\ q.status = "RUNNING"
    BY <2>1, BatchRow
  <2>3. job'[j] = q
    BY <2>1, <1>0
  <2>4. job[j].total = Len(job[j].archive)
    BY <2>1 DEF IInv, Control
  <2>5. wk'[w].pc = "walk" /\ wk'[w].job = j /\ wk'[w].index = To(w)
    BY <2>1, <1>0 DEF WorkerState
  <2> HIDE DEF q
  <2>6. /\ job'[j].status = "RUNNING" /\ job'[j].total = Len(job'[j].archive)
        /\ Cursor(job'[j]) = To(w)
    BY <2>2, <2>3, <2>4
  <2> QED
    BY <2>1, <2>5, <2>6, <1>0 DEF Controlled, Inside
<1>6. ASSUME NEW code \in {"infra", "policy", "final"}, Raise(w, code), wk[w].pc \in {"open", "walk"}
      PROVE  Controlled(w)' /\ lock' \in {w, NoWorker}
  <2>1. /\ wk'[w].pc = "failing" /\ wk'[w].job = j /\ lock' = lock /\ job' = job
    BY <1>6, <1>0 DEF Raise, WorkerState
  <2>2. job[j].status = "RUNNING"
    BY <1>6 DEF IInv, Control
  <2> QED
    BY <2>1, <2>2, <1>0 DEF Controlled, Inside
<1>7. CASE Refuse(w) \/ Reject(w) \/ BreakDown(w)
  BY <1>6, <1>7 DEF Refuse, Reject, BreakDown
<1>8. CASE Crash(w)
  <2>1. wk'[w].pc = "idle" /\ lock' = NoWorker
    BY <1>0, <1>8 DEF Crash, Idle
  <2> QED
    BY <2>1, <1>0 DEF Controlled, Inside
<1>9. ~PollDatabase(w) /\ ~PollQueue(w) /\ ~TakeLock(w) /\ ~Busy(w)
  BY DEF PollDatabase, PollQueue, TakeLock, Busy, Inside
<1> QED
  BY <1>2, <1>3, <1>4, <1>5, <1>7, <1>8, <1>9 DEF WorkerMove, Step

LEMMA NextControl == IInv /\ [Next]_vars => Control'
<1> SUFFICES ASSUME IInv, [Next]_vars, NEW v \in Worker PROVE Controlled(v)'
  BY DEF Control, Controlled
<1>0. TypeOK /\ TypeOK' /\ Controlled(v) /\ v # NoWorker
  BY NextType, ControlledAll, WorkerAssumption DEF IInv
<1>1. ASSUME wk' = wk, lock' = lock,
             wk[v].pc \in {"open", "walk", "failing"} =>
               /\ job'[wk[v].job].status = job[wk[v].job].status
               /\ job'[wk[v].job].total = job[wk[v].job].total
               /\ job'[wk[v].job].archive = job[wk[v].job].archive
               /\ Cursor(job'[wk[v].job]) = Cursor(job[wk[v].job])
      PROVE  Controlled(v)'
  BY <1>0, <1>1 DEF Controlled
<1>2. CASE Owner
  <2>1. wk' = wk /\ lock' = lock
    BY <1>2 DEF Owner, Upload, Retry, Deliver, Answered, SendFails, DeleteRecord,
                AllowReimport, SetPolicy
  <2>2. ASSUME wk[v].pc \in {"open", "walk", "failing"}
        PROVE  job'[wk[v].job] = job[wk[v].job]
    <3>1. job[wk[v].job].status = "RUNNING" /\ wk[v].job \in JobIds
      BY <2>2, <1>0, InsideFacts DEF Controlled
    <3> QED
      BY <1>2, <3>1, OwnerSparesRunning
  <2> QED
    BY <1>1, <2>1, <2>2
<1>3. CASE Tick
  <2>1. ASSUME wk[v].pc \in {"open", "walk", "failing"}
        PROVE  /\ job'[wk[v].job].status = job[wk[v].job].status
               /\ job'[wk[v].job].total = job[wk[v].job].total
               /\ job'[wk[v].job].archive = job[wk[v].job].archive
               /\ Cursor(job'[wk[v].job]) = Cursor(job[wk[v].job])
    <3>1. wk[v].job \in JobIds /\ job[wk[v].job] \in Job
      BY <2>1, InsideFacts
    <3>2. job'[wk[v].job] = [job[wk[v].job] EXCEPT !.fresh = Less(@)]
      BY <1>3, <3>1 DEF Tick
    <3> QED
      BY <3>1, <3>2 DEF Job, Cursor
  <2> QED
    BY <1>1, <1>3, <2>1 DEF Tick
<1>4. CASE UNCHANGED vars
  BY <1>1, <1>4 DEF vars
<1>5. ASSUME NEW w \in Worker, WorkerMove(w), wk[w].pc \notin Inside PROVE Controlled(v)'
  <2>1. /\ job' = job
        /\ \/ wk'[w].pc \in {"idle", "received"} /\ lock' = lock
           \/ wk'[w].pc = "locked" /\ lock = NoWorker /\ lock' = w
        /\ wk'[w].index = 0 \/ wk'[w].pc = "idle"
    BY <1>5, OutsideMove
  <2>2. CASE v = w
    <3>1. lock # w
      BY <1>0, <1>5, <2>2 DEF Controlled
    <3> QED
      BY <2>1, <2>2, <3>1 DEF Controlled, Inside
  <2>3. CASE v # w
    <3>1. wk'[v] = wk[v]
      BY <1>5, <2>3, WorkerFrame
    <3>2. lock' = v <=> lock = v
      BY <1>0, <2>1, <2>3
    <3> QED
      BY <1>0, <2>1, <3>1, <3>2 DEF Controlled
  <2> QED
    BY <2>2, <2>3
<1>6. ASSUME NEW w \in Worker, WorkerMove(w), wk[w].pc \in Inside PROVE Controlled(v)'
  <2>1. Controlled(w)' /\ lock' \in {w, NoWorker} /\ lock = w
    BY <1>0, <1>6, InsideMove DEF IInv, Control
  <2>2. CASE v # w
    <3>1. wk'[v] = wk[v] /\ wk[v].pc \notin Inside
      BY <1>0, <1>6, <2>1, <2>2, WorkerFrame DEF Controlled
    <3>2. lock' # v
      BY <1>0, <2>1, <2>2
    <3> QED
      BY <1>0, <3>1, <3>2 DEF Controlled, Inside
  <2> QED
    BY <2>1, <2>2
<1> QED
  BY <1>2, <1>3, <1>4, <1>5, <1>6 DEF Next, WorkerMove

LinkedItem(i) ==
  /\ suppression[i] = "denied" => material[i] = {}
  /\ material[i] # {} \/ suppression[i] # "none" => i \notin Malformed

LinkedJob(j) ==
  \A k \in 1..Cursor(job[j]) :
    LET i == job[j].archive[k] IN
    /\ i \in Malformed \/ j \in material[i] \/ j \in blocked
    /\ k \notin job[j].errors => j \in material[i] \/ suppression[i] # "none"

\* No record is gone without a trace, and no archive is unblocked.
Traced ==
  \A i \in Item :
    /\ \A j \in material[i] :
         j \in material'[i] \/ (j \in blocked' /\ suppression'[i] # "none")
    /\ suppression[i] # "none" => suppression'[i] # "none"

LEMMA PositionItem ==
  ASSUME IInv, NEW j \in JobIds, NEW k \in 1..Cursor(job[j])
  PROVE  job[j].archive[k] \in Item
<1>1. job[j] \in Job /\ Counted(job[j])
  BY DEF IInv, TypeOK, Rows
<1>2. /\ Len(job[j].archive) \in Nat /\ Cursor(job[j]) \in Nat
      /\ \A n \in 1..Len(job[j].archive) : job[j].archive[n] \in Item
  BY <1>1, ArchiveTypes
<1>3. k \in 1..Len(job[j].archive)
  BY <1>1, <1>2 DEF Counted
<1> QED
  BY <1>2, <1>3

\* A row whose cursor did not move stays linked.
LEMMA LinkKept ==
  ASSUME IInv, NEW j \in JobIds, Traced, blocked \subseteq blocked',
         \/ Cursor(job'[j]) = 0
         \/ /\ Cursor(job'[j]) = Cursor(job[j]) /\ job'[j].archive = job[j].archive
            /\ job'[j].errors = job[j].errors
  PROVE  LinkedJob(j)'
<1> SUFFICES ASSUME NEW k \in 1..Cursor(job'[j])
             PROVE  LET i == job'[j].archive[k] IN
                    /\ i \in Malformed \/ j \in material'[i] \/ j \in blocked'
                    /\ k \notin job'[j].errors => j \in material'[i] \/ suppression'[i] # "none"
  BY DEF LinkedJob
<1>1. /\ Cursor(job'[j]) = Cursor(job[j]) /\ job'[j].archive = job[j].archive
      /\ job'[j].errors = job[j].errors
  OBVIOUS
<1> DEFINE i == job[j].archive[k]
<1>2. k \in 1..Cursor(job[j]) /\ i \in Item
  BY <1>1, PositionItem
<1>3. /\ i \in Malformed \/ j \in material[i] \/ j \in blocked
      /\ k \notin job[j].errors => j \in material[i] \/ suppression[i] # "none"
  BY <1>2 DEF IInv, Links
<1>4. /\ j \in material[i] /\ j \notin material'[i] => j \in blocked' /\ suppression'[i] # "none"
      /\ suppression[i] # "none" => suppression'[i] # "none"
  BY <1>2 DEF Traced
<1> QED
  BY <1>1, <1>3, <1>4

LEMMA BatchLinks ==
  ASSUME IInv, NEW w \in Worker, wk[w].pc = "walk",
         NEW j, j = wk[w].job, NEW q, q = Judged(j, Chunk(w)),
         NEW p, p = job'[j], p.archive = q.archive, Cursor(p) = Cursor(q), p.errors = q.errors,
         \A k \in JobIds \ {j} : job'[k] = job[k],
         material' = Linked(j, Chunk(w)), blocked' = BlockedBy(j, Chunk(w)),
         suppression' = suppression
  PROVE  Links'
<1>1. /\ j \in JobIds /\ job[j] \in Job /\ Counted(job[j]) /\ Cursor(job[j]) \in Nat
      /\ To(w) \in Nat /\ Cursor(job[j]) <= To(w) /\ To(w) <= Len(job[j].archive)
      /\ Chunk(w) = (Cursor(job[j]) + 1)..To(w)
  BY BatchFacts
<1>2. /\ Cursor(q) = To(w) /\ q.archive = job[j].archive
      /\ q.errors = job[j].errors \cup (Chunk(w) \ Good(j, Chunk(w)))
  BY BatchRow
<1> DEFINE chunk == Chunk(w)
           r == job[j]
           c == Cursor(r)
<1>3. chunk \subseteq 1..To(w) /\ 1..To(w) = (1..c) \cup chunk
  BY <1>1, Intervals
<1>4. \A k \in chunk : r.archive[k] \in Item
  <2>1. \A k \in 1..Len(r.archive) : r.archive[k] \in Item
    BY <1>1, ArchiveTypes
  <2>2. Len(r.archive) \in Nat
    BY <1>1, ArchiveTypes
  <2> QED
    BY <1>1, <1>3, <2>1, <2>2
<1> HIDE DEF chunk, c
<1>5. ASSUME NEW i \in Item
      PROVE  /\ material'[i] = material[i] \/ material'[i] = material[i] \cup {j}
             /\ material'[i] # material[i] => \E k \in Good(j, chunk) : r.archive[k] = i
  BY DEF Linked, chunk
<1>6. \A i \in Item : LinkedItem(i)'
  <2> SUFFICES ASSUME NEW i \in Item PROVE LinkedItem(i)'
    OBVIOUS
  <2>1. LinkedItem(i)
    BY DEF IInv, Links, LinkedItem
  <2>2. material'[i] # material[i] => i \notin Malformed /\ suppression[i] # "denied"
    BY <1>5 DEF Good
  <2> QED
    BY <2>1, <2>2 DEF LinkedItem
<1>7. blocked \subseteq blocked'
  BY DEF BlockedBy
<1>8. Traced
  BY <1>5 DEF Traced
<1>9. ASSUME NEW k \in JobIds \ {j} PROVE LinkedJob(k)'
  BY <1>7, <1>8, <1>9, LinkKept
<1>10. ASSUME NEW k \in 1..Cursor(p)
       PROVE  LET i == p.archive[k] IN
              /\ i \in Malformed \/ j \in material'[i] \/ j \in blocked'
              /\ k \notin p.errors => j \in material'[i] \/ suppression'[i] # "none"
  <2> DEFINE i == r.archive[k]
  <2>1. p.archive[k] = i /\ k \in 1..To(w)
    BY <1>2
  <2>2. CASE k \in chunk
    <3>1. i \in Item
      BY <1>4, <2>2
    <3>2. CASE k \in Good(j, chunk)
      <4>1. material'[i] = material[i] \cup {j}
        BY <3>1, <3>2 DEF Linked, chunk
      <4> QED
        BY <2>1, <4>1
    <3>3. CASE k \notin Good(j, chunk)
      <4>1. i \in Malformed \/ suppression[i] = "denied"
        BY <2>2, <3>3 DEF Good
      <4>2. i \notin Malformed /\ suppression[i] = "denied" => j \in blocked'
        BY <2>2 DEF BlockedBy, Denied, chunk
      <4>3. k \in p.errors
        BY <1>2, <2>2, <3>3 DEF chunk
      <4> QED
        BY <2>1, <4>1, <4>2, <4>3
    <3> QED
      BY <3>2, <3>3
  <2>3. CASE k \notin chunk
    <3>1. k \in 1..Cursor(job[j])
      BY <1>3, <2>1, <2>3 DEF c
    <3>2. i \in Item
      BY <1>1, <3>1, PositionItem
    <3>3. /\ i \in Malformed \/ j \in material[i] \/ j \in blocked
          /\ k \notin job[j].errors => j \in material[i] \/ suppression[i] # "none"
      BY <1>1, <3>1 DEF IInv, Links
    <3>4. material[i] \subseteq material'[i]
      BY <1>5, <3>2
    <3> QED
      BY <1>2, <1>7, <2>1, <3>3, <3>4
  <2> QED
    BY <2>2, <2>3
<1>11. LinkedJob(j)'
  BY <1>10 DEF LinkedJob
<1> QED
  BY <1>6, <1>9, <1>11 DEF Links, LinkedItem, LinkedJob

LEMMA NextLinks == IInv /\ [Next]_vars => Links'
<1> SUFFICES ASSUME IInv, [Next]_vars PROVE Links'
  OBVIOUS
<1>0. /\ TypeOK /\ TypeOK' /\ job' \in [JobIds -> Job]
      /\ \A j \in JobIds : RowChange(j)
      /\ \A i \in Item : LinkedItem(i)
  BY NextType, RowsChange DEF IInv, TypeOK, Links, LinkedItem
<1>1. ASSUME NEW w \in Worker, ImportBatch(w) \/ Finish(w) PROVE Links'
  <2> DEFINE j == wk[w].job
             q == Judged(j, Chunk(w))
             p == job'[j]
  <2>1. /\ wk[w].pc = "walk" /\ suppression' = suppression
        /\ material' = Linked(j, Chunk(w)) /\ blocked' = BlockedBy(j, Chunk(w))
        /\ \/ job' = [job EXCEPT ![j] = q]
           \/ job' = [job EXCEPT ![j] = Closed(q)]
    BY <1>1 DEF ImportBatch, Finish
  <2>2. j \in JobIds /\ q \in Job
    BY <2>1, BatchRow
  <2>3. job \in [JobIds -> Job]
    BY <1>0 DEF TypeOK
  <2>4. /\ p = q \/ p = Closed(q)
        /\ \A k \in JobIds \ {j} : job'[k] = job[k]
    BY <2>1, <2>2, <2>3
  <2>5. p.archive = q.archive /\ Cursor(p) = Cursor(q) /\ p.errors = q.errors
    <3> HIDE DEF p, q
    <3> QED
      BY <2>2, <2>4 DEF Closed, Job, Cursor
  <2> QED
    BY <2>1, <2>4, <2>5, BatchLinks
<1>2. ASSUME \A w \in Worker : ~ImportBatch(w) /\ ~Finish(w),
             Traced, blocked \subseteq blocked', \A i \in Item : LinkedItem(i)'
      PROVE  Links'
  <2>1. ASSUME NEW j \in JobIds PROVE LinkedJob(j)'
    <3> DEFINE r == job[j]
               q == job'[j]
    <3>0. r \in Job /\ q \in Job /\ RowChange(j)
      BY <1>0 DEF TypeOK
    <3>1. CASE \E a \in Archives : q = [AbsentJob EXCEPT !.status = "PENDING", !.archive = a]
      <4>1. Cursor(q) = 0
        BY <3>1 DEF AbsentJob, Cursor
      <4> QED
        BY <1>2, <4>1, LinkKept
    <3>2. CASE q = Resubmitted(r)
      <4>1. Rewound(r) \in Job
        BY <3>0, RowUpdates
      <4>2. \/ Cursor(Rewound(r)) = 0
            \/ Rewound(r) = r
        BY <3>0 DEF Rewound, Job, Cursor
      <4>3. /\ Cursor(q) = Cursor(Rewound(r)) /\ q.archive = Rewound(r).archive
            /\ q.errors = Rewound(r).errors
        BY <3>2, <4>1 DEF Resubmitted, Job, Cursor
      <4> QED
        BY <1>2, <4>2, <4>3, LinkKept
    <3>3. CASE /\ Cursor(q) = Cursor(r) /\ q.archive = r.archive
               /\ q.errors = r.errors
      BY <1>2, <3>3, LinkKept
    <3>4. CASE \/ q = [r EXCEPT !.status = "FAILED", !.error = "queue"]
               \/ q = [r EXCEPT !.status = "FAILED", !.error = "final"]
               \/ q = [r EXCEPT !.total = Len(r.archive)]
               \/ q = [r EXCEPT !.fresh = Less(@)]
               \/ q = Begun(r) \/ q = AfterBreakdown(r) \/ q = r
      BY <3>0, <3>3, <3>4 DEF Job, Cursor, Begun, AfterBreakdown
    <3> QED
      BY <1>2, <3>0, <3>1, <3>2, <3>4 DEF RowChange
  <2> QED
    BY <1>2, <2>1 DEF Links, LinkedItem, LinkedJob
<1>3. ASSUME \A w \in Worker : ~ImportBatch(w) /\ ~Finish(w),
             UNCHANGED <<material, blocked, suppression>>
      PROVE  Links'
  <2>1. Traced /\ blocked \subseteq blocked' /\ \A i \in Item : LinkedItem(i)'
    BY <1>0, <1>3 DEF Traced, LinkedItem
  <2> QED
    BY <1>2, <1>3, <2>1
<1>4. CASE Owner /\ \A w \in Worker : ~ImportBatch(w) /\ ~Finish(w)
  <2>1. ASSUME NEW i \in Item, DeleteRecord(i) PROVE Links'
    <3>1. /\ suppression' = [suppression EXCEPT ![i] = "denied"]
          /\ blocked' = blocked \cup material[i]
          /\ material' = [material EXCEPT ![i] = {}] /\ material[i] # {}
      BY <2>1 DEF DeleteRecord
    <3>2. suppression \in [Item -> {"none", "denied", "allowed"}] /\ material \in [Item -> SUBSET JobIds]
      BY <1>0 DEF TypeOK
    <3>3. Traced
      BY <3>1, <3>2 DEF Traced
    <3>4. blocked \subseteq blocked'
      BY <3>1
    <3>5. \A k \in Item : LinkedItem(k)'
      BY <1>0, <3>1, <3>2 DEF LinkedItem
    <3> QED
      BY <1>2, <1>4, <3>3, <3>4, <3>5
  <2>2. ASSUME NEW i \in Item, AllowReimport(i) PROVE Links'
    <3>1. /\ suppression' = [suppression EXCEPT ![i] = "allowed"] /\ suppression[i] = "denied"
          /\ blocked' = blocked /\ material' = material
      BY <2>2 DEF AllowReimport
    <3>2. suppression \in [Item -> {"none", "denied", "allowed"}]
      BY <1>0 DEF TypeOK
    <3>3. Traced
      BY <3>1, <3>2 DEF Traced
    <3>4. \A k \in Item : LinkedItem(k)'
      BY <1>0, <3>1, <3>2 DEF LinkedItem
    <3> QED
      BY <1>2, <1>4, <3>1, <3>3, <3>4
  <2>3. ASSUME ~\E i \in Item : DeleteRecord(i) \/ AllowReimport(i)
        PROVE  UNCHANGED <<material, blocked, suppression>>
    BY <1>4, <2>3 DEF Owner, Upload, Retry, Deliver, Answered, SendFails, SetPolicy
  <2> QED
    BY <1>3, <1>4, <2>1, <2>2, <2>3
<1>5. ASSUME NEW w \in Worker, WorkerMove(w),
             \A v \in Worker : ~ImportBatch(v) /\ ~Finish(v)
      PROVE  Links'
  <2>1. UNCHANGED <<material, blocked, suppression>>
    BY <1>5 DEF WorkerMove, Step, PollDatabase, PollQueue, TakeLock, Busy, Redelivered,
       StillFresh, Begin, Open, Refuse, RecordFailure, Reject, BreakDown, Raise, Crash
  <2> QED
    BY <1>3, <1>5, <2>1
<1>6. CASE (Tick \/ UNCHANGED vars) /\ \A w \in Worker : ~ImportBatch(w) /\ ~Finish(w)
  <2>1. UNCHANGED <<material, blocked, suppression>>
    BY <1>6 DEF Tick, vars
  <2> QED
    BY <1>3, <1>6, <2>1
<1> QED
  BY <1>1, <1>4, <1>5, <1>6 DEF Next, WorkerMove

(***************************************************************************)
(* The theorems.                                                           *)
(***************************************************************************)
LEMMA InitIInv == Init => IInv
<1> SUFFICES ASSUME Init PROVE IInv
  OBVIOUS
<1>1. TypeOK
  BY InitTypeOK
<1>2. \A j \in JobIds : job[j] = AbsentJob
  BY DEF Init
<1>3. Cursor(AbsentJob) = 0 /\ Counted(AbsentJob) /\ Whole(AbsentJob)
  <2>1. Cursor(AbsentJob) = 0
    BY DEF Cursor, AbsentJob
  <2>2. Len(AbsentJob.archive) = 0
    BY DEF AbsentJob
  <2>3. Cardinality(AbsentJob.errors) = 0 /\ AbsentJob.failed = 0
    BY FS_EmptySet DEF AbsentJob
  <2>4. /\ AbsentJob.errors = {} /\ AbsentJob.entries = {}
        /\ {AbsentJob.archive[k] : k \in (1..0) \ {}} = {}
        /\ AbsentJob.status = "absent"
    BY DEF AbsentJob
  <2> QED
    BY <2>1, <2>2, <2>3, <2>4 DEF Counted, Whole
<1>4. Rows
  <2>1. \A j \in JobIds : j > count
    BY LimitsAssumption DEF Init, JobIds
  <2>2. /\ AbsentJob.status = "absent" /\ AbsentJob.attempts = 0
        /\ 0 <= MaxAttempts
    BY LimitsAssumption DEF AbsentJob
  <2> QED
    BY <1>2, <1>3, <2>1, <2>2 DEF Rows, PendingIsRunnable
<1>5. \A w \in Worker : wk[w].pc = "idle" /\ lock # w
  BY WorkerAssumption DEF Init, Idle
<1>6. Refs /\ Requests /\ Control
  BY <1>5 DEF Refs, Requests, Control, Inside, Init
<1>7. Links
  BY <1>2, <1>3 DEF Links, Init
<1> QED
  BY <1>1, <1>4, <1>6, <1>7 DEF IInv

LEMMA NextIInv == IInv /\ [Next]_vars => IInv'
BY NextType, NextRows, NextRefs, NextRequests, NextControl, NextLinks DEF IInv

LEMMA Invariance == Spec => []IInv
BY InitIInv, NextIInv, PTL DEF Spec

\* The rows, the queue and the workers keep their types: every status that can
\* be stored is one the code knows.
THEOREM TypeCorrect == Spec => []TypeOK
<1>1. IInv => TypeOK
  BY DEF IInv
<1> QED
  BY <1>1, Invariance, PTL

\* A pending job has an attempt left, whatever failed, was retried or died.
THEOREM PendingRunnable == Spec => []PendingIsRunnable
<1>1. IInv => PendingIsRunnable
  BY DEF IInv, Rows
<1> QED
  BY <1>1, Invariance, PTL

\* Each position up to the cursor was judged once, for every archive, batch size
\* and interruption.
THEOREM CountersAgree == Spec => []CountersMatchCursor
<1>1. IInv => CountersMatchCursor
  BY DEF IInv, Rows, Counted, CountersMatchCursor
<1> QED
  BY <1>1, Invariance, PTL

\* A completed import holds its whole archive, but for what the owner deleted.
THEOREM CompletedImportIsWhole == Spec => []CompletedIsWhole
<1>1. ASSUME IInv, NEW j \in JobIds, job[j].status = "COMPLETED",
             NEW k \in 1..Len(job[j].archive)
      PROVE  LET i == job[j].archive[k] IN
             i \in job[j].entries /\ (j \in material[i] \/ suppression[i] # "none")
  <2> DEFINE r == job[j]
  <2>1. /\ r \in Job /\ Counted(r) /\ Cursor(r) = Len(r.archive) /\ r.failed = 0
    BY <1>1 DEF IInv, TypeOK, Rows, Whole
  <2>2. r.errors = {}
    <3>1. Cursor(r) \in Nat /\ r.errors \subseteq 1..Cursor(r) /\ Cardinality(r.errors) = 0
      BY <2>1, ArchiveTypes DEF Counted
    <3>2. IsFiniteSet(1..Cursor(r))
      BY <3>1, FS_Interval
    <3>3. IsFiniteSet(r.errors)
      BY <3>1, <3>2, FS_Subset
    <3> QED
      BY <3>1, <3>3, FS_EmptySet
  <2>3. k \in 1..Cursor(r) /\ k \notin r.errors
    BY <2>1, <2>2
  <2>4. r.archive[k] \in r.entries
    BY <2>1, <2>3 DEF Counted
  <2>5. j \in material[r.archive[k]] \/ suppression[r.archive[k]] # "none"
    BY <1>1, <2>3 DEF IInv, Links
  <2> QED
    BY <2>4, <2>5
<1>2. IInv => CompletedIsWhole
  BY <1>1 DEF CompletedIsWhole
<1> QED
  BY <1>2, Invariance, PTL

\* The archive of a deleted conversation is blocked as soon as its walk passed it,
\* in whatever order walk, deletion, permission and second deletion came.
THEOREM OriginalsBlocked == Spec => []OriginalsAreBlocked
<1>1. ASSUME IInv, NEW j \in JobIds, NEW k \in 1..Cursor(job[j]),
             suppression[job[j].archive[k]] = "denied"
      PROVE  j \in blocked
  <2> DEFINE i == job[j].archive[k]
  <2>1. i \in Item
    BY <1>1, PositionItem
  <2>2. i \in Malformed \/ j \in material[i] \/ j \in blocked
    BY <1>1 DEF IInv, Links
  <2>3. material[i] = {} /\ i \notin Malformed
    BY <1>1, <2>1 DEF IInv, Links
  <2> QED
    BY <2>2, <2>3
<1>2. IInv => OriginalsAreBlocked
  BY <1>1 DEF OriginalsAreBlocked
<1> QED
  BY <1>2, Invariance, PTL

LEMMA NextTransitions ==
  ASSUME IInv, [Next]_vars
  PROVE  \A j \in JobIds : Transition(j)
<1>1. job' \in [JobIds -> Job]
  BY NextType DEF TypeOK
<1> QED
  BY <1>1, RowsChange, Transitions

\* A late report of a request never ends a job that waits for its automatic retry.
THEOREM AutomaticRetryKept == Spec => AutomaticRetryIsKept
<1>1. IInv /\ [Next]_vars =>
        [\A j \in JobIds :
           job[j].status = "PENDING" /\ job[j].error = "infra"
             => job'[j].status \in {"PENDING", "RUNNING"}]_vars
  BY NextTransitions DEF Transition
<1> QED
  BY <1>1, Invariance, PTL DEF Spec, AutomaticRetryIsKept

\* Only the owner's retry reopens a job that ended, and never a blocked one.
THEOREM FinishedJobsStay == Spec => FinishedStays
<1>1. IInv /\ [Next]_vars =>
        [\A j \in JobIds :
           job[j].status \in Terminal /\ job'[j].status # job[j].status
             => /\ job[j].status # "COMPLETED" /\ job'[j].status = "PENDING"
                /\ j \notin blocked]_vars
  BY NextTransitions DEF Transition
<1> QED
  BY <1>1, Invariance, PTL DEF Spec, FinishedStays

\* Nothing is added against what the owner decided, though the decision may come
\* between any two batches.
THEOREM DecisionsHold == Spec => OwnerDecisionsHold
<1>0. IInv => material \in [Item -> SUBSET JobIds]
  BY DEF IInv, TypeOK
<1>1. ASSUME IInv, [Next]_vars,
             NEW i \in Item, NEW j \in material'[i] \ material[i]
      PROVE  /\ policy /\ j \notin blocked /\ suppression[i] # "denied"
             /\ job[j].status = "RUNNING"
  <2>1. ASSUME NEW w \in Worker, ImportBatch(w) \/ Finish(w)
        PROVE  /\ policy /\ j \notin blocked /\ suppression[i] # "denied"
               /\ job[j].status = "RUNNING"
    <3>1. /\ wk[w].pc = "walk" /\ policy /\ wk[w].job \notin blocked
          /\ material' = Linked(wk[w].job, Chunk(w))
      BY <2>1 DEF ImportBatch, Finish, MayImport
    <3>2. j = wk[w].job /\ suppression[i] # "denied"
      BY <1>1, <3>1 DEF Linked, Good
    <3>3. job[wk[w].job].status = "RUNNING"
      BY <1>1, <3>1 DEF IInv, Control
    <3> QED
      BY <3>1, <3>2, <3>3
  <2>2. Owner => material'[i] \subseteq material[i]
    BY <1>0, <1>1 DEF Owner, Upload, Retry, Deliver, Answered, SendFails, DeleteRecord,
                AllowReimport, SetPolicy
  <2>3. ASSUME NEW w \in Worker, WorkerMove(w), ~ImportBatch(w), ~Finish(w)
        PROVE  material' = material
    BY <2>3 DEF WorkerMove, Step, PollDatabase, PollQueue, TakeLock, Busy, Redelivered,
       StillFresh, Begin, Open, Refuse, RecordFailure, Reject, BreakDown, Raise, Crash
  <2>4. Tick \/ UNCHANGED vars => material' = material
    BY DEF Tick, vars
  <2> QED
    BY <1>1, <2>1, <2>2, <2>3, <2>4 DEF Next, WorkerMove
<1>2. IInv /\ [Next]_vars =>
        [\A i \in Item : \A j \in material'[i] \ material[i] :
           /\ policy /\ j \notin blocked /\ suppression[i] # "denied"
           /\ job[j].status = "RUNNING"]_vars
  BY <1>1
<1> QED
  BY <1>2, Invariance, PTL DEF Spec, OwnerDecisionsHold

-----------------------------------------------------------------------------
(***************************************************************************)
(* Refinement: an import is one walk over its archive.                     *)
(***************************************************************************)
Imports == [j \in JobIds |-> ImportOf(job[j])]

Stutter == UNCHANGED <<policy, suppression, material, blocked, Imports>>

\* The total is known as soon as the walk has left the start.
TotalFits(r) ==
  /\ r.total \in {0, Len(r.archive)}
  /\ Cursor(r) > 0 => r.total = Len(r.archive)

Totals == \A j \in JobIds : TotalFits(job[j])

LEMMA TotalKept ==
  ASSUME IInv, NEW j \in JobIds, RowChange(j), TotalFits(job[j]),
         NEW q, q = job'[j]
  PROVE  TotalFits(q)
<1> DEFINE r == job[j]
<1>0. r \in Job /\ TotalFits(r) /\ Cursor(r) \in Nat
  BY ArchiveTypes DEF IInv, TypeOK
<1>1. ASSUME q.total = r.total, q.archive = r.archive, Cursor(q) = Cursor(r)
      PROVE  TotalFits(q)
  BY <1>0, <1>1 DEF TotalFits
<1>2. ASSUME NEW a \in Archives,
             q = [AbsentJob EXCEPT !.status = "PENDING", !.archive = a]
      PROVE  TotalFits(q)
  BY <1>2 DEF AbsentJob, TotalFits, Cursor
<1>3. CASE q = Resubmitted(r)
  <2>1. /\ q.total = Rewound(r).total /\ q.archive = Rewound(r).archive
        /\ Cursor(q) = Cursor(Rewound(r))
    <3>1. Rewound(r) \in Job
      BY <1>0, RowUpdates
    <3> QED
      BY <1>3, <3>1 DEF Resubmitted, Job, Cursor
  <2>2. \/ Rewound(r) = r
        \/ Rewound(r).total = 0 /\ Cursor(Rewound(r)) = 0
    BY <1>0 DEF Rewound, Job, Cursor
  <2> QED
    BY <1>0, <2>1, <2>2 DEF TotalFits
<1>4. CASE \/ q = [r EXCEPT !.status = "FAILED", !.error = "queue"]
           \/ q = [r EXCEPT !.status = "FAILED", !.error = "final"]
           \/ q = [r EXCEPT !.fresh = Less(@)]
           \/ q = Begun(r) \/ q = AfterBreakdown(r) \/ q = r
  <2>1. CASE q = [r EXCEPT !.status = "FAILED", !.error = "queue"]
    BY <1>0, <1>1, <2>1 DEF Job, Cursor
  <2>2. CASE q = [r EXCEPT !.status = "FAILED", !.error = "final"]
    BY <1>0, <1>1, <2>2 DEF Job, Cursor
  <2>3. CASE q = [r EXCEPT !.fresh = Less(@)]
    BY <1>0, <1>1, <2>3 DEF Job, Cursor
  <2>4. CASE q = Begun(r)
    BY <1>0, <1>1, <2>4 DEF Job, Cursor, Begun
  <2>5. CASE q = AfterBreakdown(r)
    BY <1>0, <1>1, <2>5 DEF Job, Cursor, AfterBreakdown
  <2>6. CASE q = r
    BY <1>1, <2>6
  <2> QED
    BY <1>4, <2>1, <2>2, <2>3, <2>4, <2>5, <2>6
<1>5. CASE q = [r EXCEPT !.total = Len(r.archive)]
  <2>1. q.total = Len(r.archive) /\ q.archive = r.archive
    BY <1>0, <1>5 DEF Job
  <2> QED
    BY <2>1 DEF TotalFits
<1>6. ASSUME NEW w \in Worker, wk[w].pc = "walk", wk[w].job = j,
             q = Judged(j, Chunk(w)) \/ q = Closed(Judged(j, Chunk(w)))
      PROVE  TotalFits(q)
  <2> DEFINE z == Judged(j, Chunk(w))
  <2>1. z \in Job /\ z.archive = r.archive /\ z.total = r.total
    BY <1>6, BatchRow
  <2>2. r.total = Len(r.archive)
    BY <1>6 DEF IInv, Control
  <2>3. q = z \/ q = Closed(z)
    BY <1>6
  <2> HIDE DEF z
  <2>4. q.archive = z.archive /\ q.total = z.total
    <3>1. Closed(z).archive = z.archive /\ Closed(z).total = z.total
      BY <2>1 DEF Closed, Job
    <3> QED
      BY <2>3, <3>1
  <2> QED
    BY <2>1, <2>2, <2>4 DEF TotalFits
<1> QED
  BY <1>2, <1>3, <1>4, <1>5, <1>6 DEF RowChange

LEMMA TotalsKnown == Spec => [](IInv /\ Totals)
<1>1. Init => Totals
  BY DEF Init, Totals, TotalFits, AbsentJob, Cursor
<1>2. IInv /\ Totals /\ [Next]_vars => Totals'
  BY RowsChange, TotalKept DEF Totals
<1> QED
  BY <1>1, <1>2, InitIInv, NextIInv, PTL DEF Spec

LEMMA ImportFields ==
  ASSUME NEW r
  PROVE  /\ ImportOf(r).state = StateOf(r.status)
         /\ ImportOf(r).archive = r.archive
         /\ ImportOf(r).done = Cursor(r) /\ ImportOf(r).errors = r.errors
BY DEF ImportOf

\* A step that changes one row changes one import.
LEMMA OneImport ==
  ASSUME TypeOK, NEW j \in JobIds, NEW q, job' = [job EXCEPT ![j] = q]
  PROVE  /\ Imports' = [Imports EXCEPT ![j] = ImportOf(q)]
         /\ Imports[j] = ImportOf(job[j])
BY DEF TypeOK, Imports

LEMMA SameImport ==
  ASSUME NEW r, NEW q, StateOf(q.status) = StateOf(r.status),
         q.archive = r.archive, q.processed = r.processed,
         q.failed = r.failed, q.errors = r.errors
  PROVE  ImportOf(q) = ImportOf(r)
BY DEF ImportOf, Cursor

LEMMA FailRefines ==
  ASSUME IInv, NEW j \in JobIds, job[j].status \in {"PENDING", "RUNNING"},
         NEW q, job' = [job EXCEPT ![j] = q], q.status = "FAILED",
         q.archive = job[j].archive, q.processed = job[j].processed,
         q.failed = job[j].failed, q.errors = job[j].errors,
         UNCHANGED <<policy, suppression, material, blocked>>
  PROVE  Archive!Next
<1>1. /\ Imports' = [Imports EXCEPT ![j] = ImportOf(q)]
      /\ Imports[j] = ImportOf(job[j])
  BY OneImport DEF IInv
<1>2. ImportOf(q) = [ImportOf(job[j]) EXCEPT !.state = "failed"]
  BY DEF ImportOf, StateOf, Cursor
<1>3. Imports[j].state = "open"
  BY <1>1, ImportFields DEF StateOf
<1>4. Archive!Fail(j)
  BY <1>1, <1>2, <1>3 DEF Archive!Fail, Imports
<1> QED
  BY <1>4 DEF Archive!Next, Archive!ImportIds, JobIds

\* A step of a job that its import does not notice.
LEMMA RowStutters ==
  ASSUME IInv, NEW j \in JobIds, NEW q, job' = [job EXCEPT ![j] = q],
         StateOf(q.status) = StateOf(job[j].status),
         q.archive = job[j].archive, q.processed = job[j].processed,
         q.failed = job[j].failed, q.errors = job[j].errors,
         UNCHANGED <<policy, suppression, material, blocked>>
  PROVE  Stutter
<1>1. /\ Imports' = [Imports EXCEPT ![j] = ImportOf(q)]
      /\ Imports[j] = ImportOf(job[j])
  BY OneImport DEF IInv
<1>2. ImportOf(q) = ImportOf(job[j])
  BY SameImport
<1>3. Imports' = Imports
  BY <1>1, <1>2 DEF Imports
<1> QED
  BY <1>3 DEF Stutter

LEMMA JobStutters ==
  ASSUME job' = job, UNCHANGED <<policy, suppression, material, blocked>>
  PROVE  Stutter
BY DEF Stutter, Imports

LEMMA OwnerImports ==
  ASSUME IInv, Totals, Owner
  PROVE  Archive!Next \/ Stutter
<1>0. TypeOK /\ job \in [JobIds -> Job]
  BY DEF IInv, TypeOK
<1>1. ASSUME NEW a \in Archives, Upload(a) PROVE Archive!Next
  <2>1. /\ policy /\ count + 1 \in JobIds /\ count + 1 > count
        /\ UNCHANGED <<policy, suppression, material, blocked>>
    BY <1>0, <1>1, LimitsAssumption DEF Upload, TypeOK, JobIds
  <2> DEFINE j == count + 1
             q == [AbsentJob EXCEPT !.status = "PENDING", !.archive = a]
  <2>2. job' = [job EXCEPT ![j] = q] /\ job[j].status = "absent"
    BY <1>1, <2>1 DEF Upload, IInv, Rows
  <2>3. ImportOf(q) = [Archive!Absent EXCEPT !.state = "open", !.archive = a]
    <3>1. /\ q.status = "PENDING" /\ q.archive = a /\ q.processed = 0
          /\ q.failed = 0 /\ q.errors = {}
      BY DEF AbsentJob
    <3> HIDE DEF q
    <3>2. Cursor(q) = 0 /\ StateOf(q.status) = "open"
      BY <3>1 DEF Cursor, StateOf
    <3>3. ImportOf(q) = [state |-> "open", archive |-> a, done |-> 0, errors |-> {}]
      BY <3>1, <3>2 DEF ImportOf
    <3>4. [Archive!Absent EXCEPT !.state = "open", !.archive = a]
            = [state |-> "open", archive |-> a, done |-> 0, errors |-> {}]
      <4> DEFINE r == Archive!Absent
                 none == "absent"
                 open == "open"
                 empty == <<>>
                 zero == 0
                 nothing == {}
                 r1 == [r EXCEPT !.state = open]
                 r2 == [r1 EXCEPT !.archive = a]
      <4>1. r = [state |-> none, archive |-> empty, done |-> zero, errors |-> nothing]
        BY DEF Archive!Absent
      <4> HIDE DEF r, none, open, empty, zero, nothing
      <4>2. r1 = [state |-> open, archive |-> empty, done |-> zero, errors |-> nothing]
        BY <4>1
      <4> HIDE DEF r1
      <4>3. r2 = [state |-> open, archive |-> a, done |-> zero, errors |-> nothing]
        BY <4>2
      <4> QED
        BY <4>3 DEF r2, r1, r, open, zero, nothing
    <3> QED
      BY <3>3, <3>4
  <2> HIDE DEF q, j
  <2>4. /\ Imports' = [Imports EXCEPT ![j] = ImportOf(q)]
        /\ Imports[j] = ImportOf(job[j]) /\ j \in JobIds
    BY <1>0, <2>1, <2>2, OneImport DEF j
  <2>5. Imports[j].state = "absent"
    BY <2>2, <2>4, ImportFields DEF StateOf
  <2>6. Archive!Submit(j, a)
    BY <2>1, <2>3, <2>4, <2>5 DEF Archive!Submit, Imports
  <2> QED
    BY <2>4, <2>6 DEF Archive!Next, Archive!ImportIds, JobIds
<1>2. ASSUME NEW j \in JobIds, Retry(j) PROVE Archive!Next
  <2> DEFINE r == job[j]
             q == Resubmitted(r)
  <2>1. /\ policy /\ j \notin blocked /\ r.status \in {"FAILED", "PARTIAL"}
        /\ job' = [job EXCEPT ![j] = q]
        /\ UNCHANGED <<policy, suppression, material, blocked>>
    BY <1>0, <1>2 DEF Retry
  <2>2. /\ r \in Job /\ TotalFits(r) /\ Cursor(r) \in Nat
        /\ Len(r.archive) \in Nat
    BY <1>0, ArchiveTypes DEF Totals
  <2>3. r.total # 0 /\ Cursor(r) = r.total <=> Archive!WalkedThrough(ImportOf(r))
    BY <2>2, ImportFields DEF TotalFits, Archive!WalkedThrough
  <2>4. /\ q.status = "PENDING" /\ q.archive = r.archive
        /\ IF Archive!WalkedThrough(ImportOf(r))
           THEN Cursor(q) = 0 /\ q.errors = {}
           ELSE Cursor(q) = Cursor(r) /\ q.errors = r.errors
    <3>1. Rewound(r) \in Job
      BY <2>2, RowUpdates
    <3>2. /\ Rewound(r).archive = r.archive
          /\ IF Archive!WalkedThrough(ImportOf(r))
             THEN Cursor(Rewound(r)) = 0 /\ Rewound(r).errors = {}
             ELSE Cursor(Rewound(r)) = Cursor(r) /\ Rewound(r).errors = r.errors
      BY <2>2, <2>3 DEF Rewound, Job, Cursor
    <3>3. /\ q.status = "PENDING" /\ q.archive = Rewound(r).archive
          /\ Cursor(q) = Cursor(Rewound(r)) /\ q.errors = Rewound(r).errors
      BY <3>1 DEF Resubmitted, Job, Cursor
    <3> QED
      BY <3>2, <3>3
  <2> HIDE DEF q
  <2>5. ImportOf(q) = IF Archive!WalkedThrough(ImportOf(r))
                      THEN [ImportOf(r) EXCEPT !.state = "open", !.done = 0,
                                               !.errors = {}]
                      ELSE [ImportOf(r) EXCEPT !.state = "open"]
    BY <2>4 DEF ImportOf, StateOf
  <2>6. /\ Imports' = [Imports EXCEPT ![j] = ImportOf(q)]
        /\ Imports[j] = ImportOf(r)
    BY <1>0, <2>1, OneImport
  <2>7. Imports[j].state \in {"failed", "partial"}
    BY <2>1, <2>6, ImportFields DEF StateOf
  <2>8. Archive!Reopen(j)
    BY <2>1, <2>5, <2>6, <2>7 DEF Archive!Reopen, Imports
  <2> QED
    BY <2>8 DEF Archive!Next, Archive!ImportIds, JobIds
<1>3. ASSUME NEW s \in submitting, SendFails(s) PROVE Archive!Next \/ Stutter
  <2> DEFINE j == s[1]
             q == [job[j] EXCEPT !.status = "FAILED", !.error = "queue"]
  <2>1. j \in JobIds /\ UNCHANGED <<policy, suppression, material, blocked>>
    BY <1>0, <1>3 DEF SendFails, TypeOK
  <2>2. CASE StillSubmitted(s)
    <3>1. job' = [job EXCEPT ![j] = q] /\ job[j].status = "PENDING"
      BY <1>0, <1>3, <2>1, <2>2 DEF SendFails, StillSubmitted
    <3>2. /\ q.status = "FAILED" /\ q.archive = job[j].archive
          /\ q.processed = job[j].processed /\ q.failed = job[j].failed
          /\ q.errors = job[j].errors
      BY <1>0, <2>1 DEF Job
    <3> HIDE DEF q, j
    <3> QED
      BY <2>1, <3>1, <3>2, FailRefines
  <2>3. CASE ~StillSubmitted(s)
    BY <1>3, <2>1, <2>3, JobStutters DEF SendFails
  <2> QED
    BY <2>2, <2>3
<1>4. ASSUME NEW s \in submitting, Deliver(s) \/ Answered(s) PROVE Stutter
  BY <1>4, JobStutters DEF Deliver, Answered
<1>5. ASSUME NEW i \in Item, DeleteRecord(i) PROVE Archive!Next
  <2>1. Imports' = Imports
    BY <1>5 DEF DeleteRecord, Imports
  <2>2. Archive!Delete(i)
    BY <1>5, <2>1 DEF DeleteRecord, Archive!Delete, Imports
  <2> QED
    BY <2>2 DEF Archive!Next
<1>6. ASSUME NEW i \in Item, AllowReimport(i) PROVE Archive!Next
  <2>1. Imports' = Imports
    BY <1>6 DEF AllowReimport, Imports
  <2>2. Archive!Allow(i)
    BY <1>6, <2>1 DEF AllowReimport, Archive!Allow, Imports
  <2> QED
    BY <2>2 DEF Archive!Next
<1>7. CASE SetPolicy
  <2>1. Imports' = Imports
    BY <1>7 DEF SetPolicy, Imports
  <2>2. Archive!SetPolicy
    BY <1>7, <2>1 DEF SetPolicy, Archive!SetPolicy, Imports
  <2> QED
    BY <2>2 DEF Archive!Next
<1> QED
  BY <1>1, <1>2, <1>3, <1>4, <1>5, <1>6, <1>7 DEF Owner

\* A batch of a worker is one stretch of the walk.
LEMMA BatchWalks ==
  ASSUME IInv, NEW w \in Worker, wk[w].pc = "walk", MayImport(wk[w].job),
         NEW j, j = wk[w].job, NEW q, job' = [job EXCEPT ![j] = q],
         q.archive = job[j].archive, Cursor(q) = To(w),
         q.errors = job[j].errors \cup (Chunk(w) \ Good(j, Chunk(w))),
         material' = Linked(j, Chunk(w)), blocked' = BlockedBy(j, Chunk(w)),
         UNCHANGED <<policy, suppression>>
  PROVE  /\ Archive!WalkTo(j, To(w), StateOf(q.status))
         /\ Archive!ErrorsUpTo(j, To(w)) = q.errors
         /\ Imports[j].archive = job[j].archive
         /\ Imports[j].done = Cursor(job[j])
<1> DEFINE n == To(w)
           chunk == Chunk(w)
<1>1. /\ j \in JobIds /\ job[j].status = "RUNNING"
      /\ chunk = (Cursor(job[j]) + 1)..n
  BY BatchFacts
<1>2. /\ Imports' = [Imports EXCEPT ![j] = ImportOf(q)]
      /\ Imports[j] = ImportOf(job[j])
  BY <1>1, OneImport DEF IInv
<1>3. /\ Imports[j].state = "open" /\ Imports[j].archive = job[j].archive
      /\ Imports[j].done = Cursor(job[j]) /\ Imports[j].errors = job[j].errors
  BY <1>1, <1>2, ImportFields DEF StateOf
<1> HIDE DEF n, chunk
<1>4. Archive!Ahead(j, n) = chunk
  BY <1>1, <1>3 DEF Archive!Ahead, Imports
<1>5. Archive!Stored(j, n) = Good(j, chunk)
  BY <1>3, <1>4 DEF Archive!Stored, Good, Imports
<1>6. Archive!ErrorsUpTo(j, n) = q.errors
  BY <1>3, <1>4, <1>5 DEF Archive!ErrorsUpTo, Imports, chunk
<1>7. Archive!MeetsDeleted(j, n) <=> \E k \in chunk : Denied(job[j].archive[k])
  BY <1>3, <1>4 DEF Archive!MeetsDeleted, Denied, Imports
<1>8. ImportOf(q) = [Imports[j] EXCEPT !.state = StateOf(q.status), !.done = n,
                                       !.errors = Archive!ErrorsUpTo(j, n)]
  <2> DEFINE s == StateOf(q.status)
             e == Archive!ErrorsUpTo(j, n)
             r == Imports[j]
             a == job[j].archive
             d == Cursor(job[j])
             f == job[j].errors
             t == StateOf(job[j].status)
             r1 == [r EXCEPT !.state = s]
             r2 == [r1 EXCEPT !.done = n]
             r3 == [r2 EXCEPT !.errors = e]
  <2>1. r = [state |-> t, archive |-> a, done |-> d, errors |-> f]
    BY <1>2 DEF ImportOf
  <2>2. ImportOf(q) = [state |-> s, archive |-> a, done |-> n, errors |-> e]
    BY <1>6 DEF ImportOf, n
  <2> HIDE DEF s, e, r, a, d, f, t
  <2>3. r1 = [state |-> s, archive |-> a, done |-> d, errors |-> f]
    BY <2>1
  <2> HIDE DEF r1
  <2>4. r2 = [state |-> s, archive |-> a, done |-> n, errors |-> f]
    BY <2>3
  <2> HIDE DEF r2
  <2>5. r3 = [state |-> s, archive |-> a, done |-> n, errors |-> e]
    BY <2>4
  <2>6. ImportOf(q) = r3
    BY <2>2, <2>5
  <2> QED
    BY <2>6 DEF r3, r2, r1, r, s, e
<1>9. material' = [i \in Item |->
                     IF \E k \in Archive!Stored(j, n) : Imports[j].archive[k] = i
                     THEN material[i] \cup {j} ELSE material[i]]
  BY <1>3, <1>5 DEF Linked, chunk
<1>10. blocked' = IF Archive!MeetsDeleted(j, n) THEN blocked \cup {j} ELSE blocked
  BY <1>7 DEF BlockedBy, chunk
<1>11. policy /\ j \notin blocked
  BY DEF MayImport
<1>12. Archive!WalkTo(j, n, StateOf(q.status))
  BY <1>2, <1>3, <1>8, <1>9, <1>10, <1>11 DEF Archive!WalkTo, Imports
<1> QED
  BY <1>3, <1>6, <1>12 DEF n

LEMMA ImportBatchAdvances ==
  ASSUME IInv, NEW w \in Worker, ImportBatch(w)
  PROVE  Archive!Next
<1> DEFINE j == wk[w].job
           q == Judged(j, Chunk(w))
<1>1. /\ wk[w].pc = "walk" /\ MayImport(j) /\ AtBoundary(w)
      /\ job' = [job EXCEPT ![j] = q]
      /\ material' = Linked(j, Chunk(w)) /\ blocked' = BlockedBy(j, Chunk(w))
      /\ UNCHANGED <<policy, suppression>>
  BY DEF ImportBatch
<1>2. /\ j \in JobIds /\ q.archive = job[j].archive /\ Cursor(q) = To(w)
      /\ q.status = "RUNNING"
      /\ q.errors = job[j].errors \cup (Chunk(w) \ Good(j, Chunk(w)))
  BY <1>1, BatchRow
<1>3. /\ Cursor(job[j]) \in Nat /\ To(w) \in Nat /\ Len(job[j].archive) \in Nat
      /\ Cursor(job[j]) <= To(w) /\ To(w) <= Len(job[j].archive)
  BY <1>1, BatchFacts
<1>4. To(w) > Cursor(job[j])
  <2>1. From(w) = Cursor(job[j])
    BY <1>1 DEF IInv, Control, From, ResumeAfter
  <2>2. To(w) = NextBoundary(From(w))
    BY <1>1 DEF AtBoundary, To
  <2> QED
    BY <1>3, <2>1, <2>2, BoundaryAhead
<1> HIDE DEF q
<1>5. /\ Archive!WalkTo(j, To(w), StateOf(q.status))
      /\ Imports[j].archive = job[j].archive /\ Imports[j].done = Cursor(job[j])
  BY <1>1, <1>2, BatchWalks
<1>6. StateOf(q.status) = "open"
  BY <1>2 DEF StateOf
<1>7. To(w) \in 1..Len(Imports[j].archive) /\ To(w) > Imports[j].done
  BY <1>3, <1>4, <1>5
<1>8. Archive!Advance(j)
  BY <1>5, <1>6, <1>7 DEF Archive!Advance, Imports
<1> QED
  BY <1>2, <1>8 DEF Archive!Next, Archive!ImportIds, JobIds

\* The counters decide the result as the errors do.
LEMMA ResultAgrees ==
  ASSUME NEW r \in Job, Counted(r), NEW c, c = Cursor(r)
  PROVE  StateOf(Closed(r).status) = Archive!Result(r.errors, c)
<1> DEFINE e == r.errors
           p == r.processed
           f == r.failed
<1>1. p \in Nat /\ f \in Nat /\ c \in Nat /\ c = p + f
  BY DEF Job, Cursor
<1>2. e \subseteq 1..c /\ f = Cardinality(e)
  BY DEF Counted
<1>3. IsFiniteSet(1..c) /\ Cardinality(1..c) = c
  BY <1>1, FS_Interval
<1>4. IsFiniteSet(e) /\ (Cardinality(e) = c <=> e = 1..c)
  <2>1. IsFiniteSet(e)
    BY <1>2, <1>3, FS_Subset
  <2>2. Cardinality(e) = Cardinality(1..c) => e = 1..c
    BY <1>2, <1>3, FS_Subset
  <2> QED
    BY <2>1, <2>2, <1>3
<1>5. f = 0 <=> e = {}
  BY <1>2, <1>4, FS_EmptySet
<1>6. p = 0 <=> e = 1..c
  <2>1. p = 0 <=> f = c
    BY <1>1
  <2> QED
    BY <2>1, <1>2, <1>4
<1>7. Closed(r).status = IF p = 0 THEN "FAILED" ELSE IF f # 0 THEN "PARTIAL"
                         ELSE "COMPLETED"
  BY DEF Closed, Job
<1>8. /\ StateOf("FAILED") = "failed" /\ StateOf("PARTIAL") = "partial"
      /\ StateOf("COMPLETED") = "completed"
  BY DEF StateOf
<1>9. Archive!Result(e, c) = IF e = 1..c THEN "failed" ELSE IF e # {} THEN "partial"
                             ELSE "completed"
  BY DEF Archive!Result
<1> QED
  BY <1>5, <1>6, <1>7, <1>8, <1>9

LEMMA FinishConcludes ==
  ASSUME IInv, NEW w \in Worker, Finish(w)
  PROVE  Archive!Next
<1> DEFINE j == wk[w].job
           z == Judged(j, Chunk(w))
           q == Closed(z)
<1>1. /\ wk[w].pc = "walk" /\ MayImport(j) /\ ~AtBoundary(w)
      /\ job' = [job EXCEPT ![j] = q]
      /\ material' = Linked(j, Chunk(w)) /\ blocked' = BlockedBy(j, Chunk(w))
      /\ UNCHANGED <<policy, suppression>>
  BY DEF Finish
<1>2. /\ j \in JobIds /\ z \in Job /\ Counted(z)
      /\ z.archive = job[j].archive /\ Cursor(z) = To(w)
      /\ z.errors = job[j].errors \cup (Chunk(w) \ Good(j, Chunk(w)))
      /\ Cursor(z) = Len(z.archive)
  BY <1>1, BatchRow
<1> HIDE DEF z
<1>3. /\ q.archive = z.archive /\ q.errors = z.errors
      /\ q.processed = z.processed /\ q.failed = z.failed
  BY <1>2 DEF Closed, Job
<1>4. StateOf(q.status) = Archive!Result(q.errors, To(w))
  BY <1>2, <1>3, ResultAgrees
<1> HIDE DEF q
<1>5. /\ q.archive = job[j].archive /\ Cursor(q) = To(w)
      /\ q.errors = job[j].errors \cup (Chunk(w) \ Good(j, Chunk(w)))
  BY <1>2, <1>3 DEF Cursor
<1>6. /\ Archive!WalkTo(j, To(w), StateOf(q.status))
      /\ Archive!ErrorsUpTo(j, To(w)) = q.errors
      /\ Imports[j].archive = job[j].archive
  <2> HIDE DEF j
  <2>1. j = wk[w].job
    BY DEF j
  <2> QED
    BY <1>1, <1>5, <2>1, BatchWalks
<1>7. To(w) = Len(Imports[j].archive)
  BY <1>2, <1>6
<1>8. Archive!Conclude(j)
  BY <1>4, <1>6, <1>7 DEF Archive!Conclude, Imports
<1> QED
  BY <1>2, <1>8 DEF Archive!Next, Archive!ImportIds, JobIds

LEMMA BeginImports ==
  ASSUME IInv, NEW w \in Worker, Begin(w)
  PROVE  Archive!Next \/ Stutter
<1> DEFINE j == wk[w].job
           r == job[j]
<1>1. /\ j \in 1..count /\ j \in JobIds /\ r \in Job
      /\ job \in [JobIds -> Job] /\ UNCHANGED <<policy, suppression, material, blocked>>
  BY InsideFacts DEF Begin, IInv, TypeOK
<1>2. r.status \in {"PENDING", "RUNNING"}
  <2>1. r.status # "absent"
    BY <1>1, KnownJobs DEF IInv, Rows
  <2>2. r.status \notin Terminal
    BY DEF Begin, AlreadyFinished
  <2> QED
    BY <1>1, <2>1, <2>2 DEF Job, Status
<1>3. CASE Exhausted(r)
  <2> DEFINE q == [r EXCEPT !.status = "FAILED", !.error = "final"]
  <2>1. job' = [job EXCEPT ![j] = q]
    BY <1>1, <1>3 DEF Begin
  <2>2. /\ q.status = "FAILED" /\ q.archive = r.archive /\ q.errors = r.errors
        /\ q.processed = r.processed /\ q.failed = r.failed
    BY <1>1 DEF Job
  <2> HIDE DEF q
  <2> QED
    BY <1>1, <1>2, <2>1, <2>2, FailRefines
<1>4. CASE ~Exhausted(r)
  <2> DEFINE q == Begun(r)
  <2>1. job' = [job EXCEPT ![j] = q]
    BY <1>1, <1>4 DEF Begin
  <2>2. /\ q.status = "RUNNING" /\ q.archive = r.archive /\ q.errors = r.errors
        /\ q.processed = r.processed /\ q.failed = r.failed
    BY <1>1 DEF Begun, Job
  <2> HIDE DEF q
  <2>3. StateOf(q.status) = StateOf(r.status)
    BY <1>2, <2>2 DEF StateOf
  <2> QED
    BY <1>1, <2>1, <2>2, <2>3, RowStutters
<1> QED
  BY <1>3, <1>4

LEMMA OpenStutters ==
  ASSUME IInv, NEW w \in Worker, Open(w)
  PROVE  Stutter
<1> DEFINE j == wk[w].job
           r == job[j]
           q == [r EXCEPT !.total = Len(r.archive)]
<1>1. /\ j \in JobIds /\ r \in Job /\ UNCHANGED <<policy, suppression, material, blocked>>
  BY InsideFacts DEF Open
<1>2. job' = [job EXCEPT ![j] = q]
  BY <1>1 DEF Open, IInv, TypeOK
<1>3. /\ q.status = r.status /\ q.archive = r.archive /\ q.errors = r.errors
      /\ q.processed = r.processed /\ q.failed = r.failed
  BY <1>1 DEF Job
<1> HIDE DEF q
<1> QED
  BY <1>1, <1>2, <1>3, RowStutters

LEMMA FailureImports ==
  ASSUME IInv, NEW w \in Worker, RecordFailure(w)
  PROVE  Archive!Next \/ Stutter
<1> DEFINE j == wk[w].job
           r == job[j]
<1>1. /\ j \in JobIds /\ r \in Job /\ r.status = "RUNNING"
      /\ job \in [JobIds -> Job] /\ UNCHANGED <<policy, suppression, material, blocked>>
  BY InsideFacts DEF RecordFailure, IInv, TypeOK, Control
<1>2. CASE wk[w].code = "infra" /\ ~Exhausted(r)
  <2> DEFINE q == AfterBreakdown(r)
  <2>1. job' = [job EXCEPT ![j] = q]
    BY <1>2 DEF RecordFailure
  <2>2. /\ q.status = "PENDING" /\ q.archive = r.archive /\ q.errors = r.errors
        /\ q.processed = r.processed /\ q.failed = r.failed
    BY <1>1, <1>2 DEF AfterBreakdown, Job
  <2> HIDE DEF q
  <2>3. StateOf(q.status) = StateOf(r.status)
    BY <1>1, <2>2 DEF StateOf
  <2> QED
    BY <1>1, <2>1, <2>2, <2>3, RowStutters
<1>3. CASE ~(wk[w].code = "infra" /\ ~Exhausted(r))
  <2> DEFINE q == IF wk[w].code = "infra" THEN AfterBreakdown(r)
                  ELSE [r EXCEPT !.status = "FAILED", !.error = "final"]
  <2>1. job' = [job EXCEPT ![j] = q]
    BY <1>1 DEF RecordFailure
  <2>2. /\ q.status = "FAILED" /\ q.archive = r.archive /\ q.errors = r.errors
        /\ q.processed = r.processed /\ q.failed = r.failed
    BY <1>1, <1>3 DEF AfterBreakdown, Job
  <2> HIDE DEF q
  <2> QED
    BY <1>1, <2>1, <2>2, FailRefines
<1> QED
  BY <1>2, <1>3

LEMMA TickStutters ==
  ASSUME IInv, Tick
  PROVE  Stutter
<1>1. ASSUME NEW j \in JobIds PROVE ImportOf(job'[j]) = ImportOf(job[j])
  <2> DEFINE r == job[j]
             q == [r EXCEPT !.fresh = Less(@)]
  <2>1. job'[j] = q /\ r \in Job
    BY DEF Tick, IInv, TypeOK
  <2>2. /\ q.status = r.status /\ q.archive = r.archive /\ q.errors = r.errors
        /\ q.processed = r.processed /\ q.failed = r.failed
    BY <2>1 DEF Job
  <2> HIDE DEF q
  <2> QED
    BY <2>1, <2>2, SameImport
<1>2. Imports' = Imports
  BY <1>1 DEF Imports
<1> QED
  BY <1>2 DEF Stutter, Tick

LEMMA NextRefines ==
  ASSUME IInv, Totals, [Next]_vars
  PROVE  Archive!Next \/ Stutter
<1>1. ASSUME NEW w \in Worker, WorkerMove(w) PROVE Archive!Next \/ Stutter
  <2>1. ASSUME ~Begin(w), ~Open(w), ~ImportBatch(w), ~Finish(w), ~RecordFailure(w)
        PROVE  job' = job /\ UNCHANGED <<policy, suppression, material, blocked>>
    BY <1>1, <2>1 DEF WorkerMove, Step, PollDatabase, PollQueue, TakeLock, Busy,
       Redelivered, StillFresh, Refuse, Reject, BreakDown, Raise, Crash
  <2> QED
    BY <2>1, JobStutters, BeginImports, OpenStutters, ImportBatchAdvances,
       FinishConcludes, FailureImports
<1>2. UNCHANGED vars => Stutter
  BY JobStutters DEF vars
<1> QED
  BY <1>1, <1>2, OwnerImports, TickStutters DEF Next, WorkerMove

LEMMA InitRefines == Init => Archive!Init
<1> SUFFICES ASSUME Init PROVE Archive!Init
  OBVIOUS
<1>1. ImportOf(AbsentJob) = Archive!Absent
  <2>1. /\ AbsentJob.status = "absent" /\ AbsentJob.archive = <<>>
        /\ AbsentJob.errors = {} /\ AbsentJob.processed = 0 /\ AbsentJob.failed = 0
    BY DEF AbsentJob
  <2>2. Cursor(AbsentJob) = 0 /\ StateOf("absent") = "absent"
    BY <2>1 DEF Cursor, StateOf
  <2> QED
    BY <2>1, <2>2 DEF ImportOf, Archive!Absent
<1>2. [j \in JobIds |-> ImportOf(job[j])] = [j \in Archive!ImportIds |-> Archive!Absent]
  BY <1>1 DEF Init, JobIds, Archive!ImportIds
<1> QED
  BY <1>2 DEF Init, Archive!Init

\* The jobs of ImportJobs implement ArchiveImport: every step of a request, a
\* worker, the queue or the clock is a step of the import it is about, or none.
THEOREM ImportsAreWalks == Spec => ImplementsArchiveImport
<1>1. Stutter => UNCHANGED Archive!vars
  BY DEF Stutter, Imports, Archive!vars
<1>2. IInv /\ Totals /\ [Next]_vars => [Archive!Next]_Archive!vars
  BY <1>1, NextRefines
<1> QED
  BY <1>2, InitRefines, TotalsKnown, PTL DEF Spec, ImplementsArchiveImport, Archive!Spec
=============================================================================
