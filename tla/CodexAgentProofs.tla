--------------------------- MODULE CodexAgentProofs ---------------------------
(***************************************************************************)
(* Proofs about CodexAgent, for any number of agents, tokens, selections,  *)
(* jobs and late requests, and whatever a window yields.                   *)
(***************************************************************************)
EXTENDS CodexAgent, TLAPS

(***************************************************************************)
(* Type correctness.                                                       *)
(***************************************************************************)
LEMMA Constants ==
  /\ NoJob \in JobRow /\ NoRun \in RunRow /\ Unbuilt \in BundleRow /\ NoDirectory \in Directory
  /\ 0 \in Thread /\ NoBundle \in Bundle \cup {NoBundle} /\ NotYet \notin Thread
  /\ NoBundle \notin Bundle /\ None \notin Agent \cup Credential /\ 0 \notin JobId
BY BoundsAssumption, NoneAssumption
   DEF NoJob, NoRun, Unbuilt, NoDirectory, JobRow, RunRow, BundleRow, Directory, Thread,
       Bundle, NoBundle, NotYet, Gaps, JobId

LEMMA JobUpdates ==
  ASSUME NEW row \in JobRow
  PROVE  /\ \A s \in ACTIVE \cup TERMINAL : [row EXCEPT !.status = s] \in JobRow
         /\ \A b \in BOOLEAN : [row EXCEPT !.lease = b] \in JobRow
         /\ \A c \in Thread \cup {NotYet} : [row EXCEPT !.checkpoint = c] \in JobRow
         /\ Retried(row) \in JobRow /\ Requeued(row) \in JobRow /\ Cancelled(row) \in JobRow
         /\ \A m \in Request : ClaimedBy(row, m) \in JobRow
<1>1. \A s \in ACTIVE \cup TERMINAL : [row EXCEPT !.status = s] \in JobRow
  BY DEF JobRow
<1>2. \A b \in BOOLEAN : [row EXCEPT !.lease = b] \in JobRow
  BY DEF JobRow
<1>3. \A c \in Thread \cup {NotYet} : [row EXCEPT !.checkpoint = c] \in JobRow
  BY DEF JobRow
<1>0. /\ row.generation + 1 \in Nat /\ row.attempts + 1 \in Nat /\ 0 \in Nat
      /\ {"pending", "running", "cancelled"} \subseteq {"absent"} \cup ACTIVE \cup TERMINAL
      /\ TRUE \in BOOLEAN
  BY DEF JobRow, ACTIVE, TERMINAL, Lasting
<1>4. Retried(row) \in JobRow
  BY <1>0 DEF JobRow, Retried
<1>5. Requeued(row) \in JobRow
  BY <1>0 DEF JobRow, Requeued
<1>6. Cancelled(row) \in JobRow
  BY <1>0 DEF JobRow, Cancelled
<1>7. ASSUME NEW m \in Request PROVE ClaimedBy(row, m) \in JobRow
  <2>1. m.agent \in Agent /\ m.token \in Credential
    BY DEF Request
  <2> QED
    BY <1>0, <2>1 DEF JobRow, ClaimedBy
<1> QED
  BY <1>1, <1>2, <1>3, <1>4, <1>5, <1>6, <1>7

LEMMA SubUpdates ==
  ASSUME TypeOK
  PROVE  /\ Paused \in Subscription /\ NewJob \in JobRow
         /\ CancelledJobs \in [JobId -> JobRow]
         /\ Revoked \in [Credential -> CredentialRow]
         /\ \A e \in BOOLEAN : [sub EXCEPT !.enabled = e] \in Subscription
         /\ \A o \in Thread : [sub EXCEPT !.offset = o] \in Subscription
         /\ \A k \in Config :
              [Paused EXCEPT !.config = k, !.revision = @ + 1, !.offset = 0] \in Subscription
<1>1. Paused \in Subscription
  BY DEF TypeOK, Paused, Subscription
<1>2. NewJob \in JobRow
  BY Constants DEF TypeOK, NewJob, JobRow, Subscription, ACTIVE
<1>3. CancelledJobs \in [JobId -> JobRow]
  BY JobUpdates DEF CancelledJobs, TypeOK
<1>4. Revoked \in [Credential -> CredentialRow]
  BY DEF TypeOK, Revoked, CredentialRow
<1>5. /\ \A e \in BOOLEAN : [sub EXCEPT !.enabled = e] \in Subscription
      /\ \A o \in Thread : [sub EXCEPT !.offset = o] \in Subscription
  BY DEF TypeOK, Subscription
<1>6. \A k \in Config :
        [Paused EXCEPT !.config = k, !.revision = @ + 1, !.offset = 0] \in Subscription
  <2>1. Paused.revision + 1 \in Nat
    BY <1>1 DEF Subscription
  <2> QED
    BY <1>1, <2>1, Constants DEF Subscription
<1> QED
  BY <1>1, <1>2, <1>3, <1>4, <1>5, <1>6

\* What the selection, the policy and the tokens are allowed to become.
LEMMA OwnerType ==
  ASSUME TypeOK, Owner
  PROVE  TypeOK'
<1>0. /\ sub \in Subscription /\ job \in [JobId -> JobRow] /\ count \in 0..MaxJobs
      /\ cred \in [Credential -> CredentialRow]
  BY DEF TypeOK
<1>1. ASSUME NEW c \in Credential, Issue(c) PROVE TypeOK'
  <2>1. [state |-> "live", revision |-> sub.revision, expired |-> FALSE] \in CredentialRow
    BY <1>0 DEF CredentialRow, Subscription
  <2>2. cred' \in [Credential -> CredentialRow]
    BY <1>1, <2>1, SubUpdates DEF Issue
  <2> QED
    BY <1>1, <2>2, SubUpdates DEF Issue, Disconnected, LocalUnchanged, TypeOK
<1>2. CASE Disconnect
  BY <1>2, SubUpdates DEF Disconnect, Disconnected, LocalUnchanged, TypeOK
<1>3. ASSUME NEW k \in Config, ChangeSelection(k) PROVE TypeOK'
  BY <1>3, SubUpdates DEF ChangeSelection, LocalUnchanged, TypeOK
<1>4. CASE CollectNow
  <2>1. count' \in 0..MaxJobs
    BY <1>0, <1>4, BoundsAssumption DEF CollectNow
  <2> QED
    BY <1>4, <2>1, SubUpdates DEF CollectNow, LocalUnchanged, TypeOK
<1>5. CASE CancelJob
  BY <1>5, SubUpdates DEF CancelJob, LocalUnchanged, TypeOK
<1>6. ASSUME NEW e \in BOOLEAN, SetSchedule(e) PROVE TypeOK'
  BY <1>6, SubUpdates DEF SetSchedule, LocalUnchanged, TypeOK
<1>7. CASE RetryFailed
  <2>1. job' \in [JobId -> JobRow]
    BY <1>0, <1>7, JobUpdates DEF RetryFailed, JobId
  <2> QED
    BY <1>7, <2>1 DEF RetryFailed, LocalUnchanged, TypeOK
<1>8. ASSUME NEW e \in BOOLEAN, SetPolicy(e) PROVE TypeOK'
  BY <1>8, SubUpdates DEF SetPolicy, LocalUnchanged, TypeOK
<1> QED
  BY <1>1, <1>2, <1>3, <1>4, <1>5, <1>6, <1>7, <1>8 DEF Owner

(***************************************************************************)
(* What a request does to the rows.                                        *)
(***************************************************************************)
\* A job that came with this step.
New(j) == j = count' /\ count' # count

\* m's agent and token are given job j.
Gives(j, m) ==
  /\ Accepts(m.token) /\ policy
  /\ job'[j].cred = m.token /\ job'[j].revision = sub.revision

KeepsRunning(j) ==
  /\ job[j].status = "running" /\ job'[j].cred = job[j].cred

\* What may become of a job: only a batch moves its checkpoint.
RowServed(j, m) ==
  /\ job'[j].status = "running" => KeepsRunning(j) \/ Gives(j, m)
  /\ IF New(j)
     THEN /\ job'[j].revision = sub.revision /\ job'[j].checkpoint = NotYet
          /\ ActiveJobs = {}
     ELSE /\ job'[j] # job[j] => Active(j)
          /\ job'[j].revision = job[j].revision
          /\ job'[j].checkpoint = IF m.op = "batch" /\ job'[j].checkpoint # job[j].checkpoint
                                  THEN m.checkpoint ELSE job[j].checkpoint

Served(m) ==
  /\ job' \in [JobId -> JobRow]
  /\ run' \in [JobId -> RunRow]
  /\ sub' \in Subscription /\ sub'.revision = sub.revision
  /\ count' \in 0..MaxJobs /\ count' \in {count, count + 1}
  /\ policy' = policy /\ cred' = cred
  /\ \A j \in JobId : RowServed(j, m)

LEMMA CancelledRow ==
  ASSUME NEW row \in JobRow
  PROVE  /\ Cancelled(row).status = "cancelled" /\ Cancelled(row).revision = row.revision
         /\ Cancelled(row).checkpoint = row.checkpoint
BY DEF Cancelled, JobRow

LEMMA CancelledJobsRows ==
  ASSUME TypeOK
  PROVE  \A j \in JobId :
           /\ CancelledJobs[j].status \notin ACTIVE
           /\ CancelledJobs[j] # job[j] => Active(j)
           /\ CancelledJobs[j].status # job[j].status =>
                Active(j) /\ CancelledJobs[j].status = "cancelled"
           /\ CancelledJobs[j].revision = job[j].revision
           /\ CancelledJobs[j].checkpoint = job[j].checkpoint
BY CancelledRow DEF TypeOK, CancelledJobs, Active, ACTIVE

LEMMA StopServed ==
  ASSUME TypeOK, NEW m \in Request, Disconnected, UNCHANGED <<policy, cred, count, run>>
  PROVE  Served(m)
<1>1. \A j \in JobId : RowServed(j, m)
  BY CancelledJobsRows DEF Disconnected, RowServed, New, ACTIVE
<1> QED
  BY <1>1, SubUpdates DEF Served, Disconnected, TypeOK, Paused, Subscription

LEMMA QuietServed ==
  ASSUME TypeOK, NEW m \in Request, UNCHANGED server
  PROVE  Served(m)
BY DEF Served, TypeOK, server, RowServed, New, KeepsRunning

\* One row of jobs becomes row: what a claim does when it does anything else.
LEMMA ClaimOneServed ==
  ASSUME TypeOK, NEW m \in Request, m.op = "claim",
         NEW jobs, NEW i \in JobId, NEW row \in JobRow,
         \/ jobs = job /\ count' = count
         \/ /\ ActiveJobs = {} /\ count < MaxJobs /\ count' = count + 1
            /\ jobs = [job EXCEPT ![count + 1] = NewJob],
         job' = [jobs EXCEPT ![i] = row] \/ job' = jobs,
         jobs[i].status \in ACTIVE,
         row.revision = jobs[i].revision, row.checkpoint = jobs[i].checkpoint,
         row.status = "running" =>
           \/ jobs[i].status = "running" /\ row.cred = jobs[i].cred
           \/ Accepts(m.token) /\ policy /\ row.cred = m.token /\ row.revision = sub.revision,
         sub' = sub \/ sub' = Paused,
         UNCHANGED <<policy, cred, run>>
  PROVE  Served(m)
<1>0. /\ job \in [JobId -> JobRow] /\ count \in 0..MaxJobs /\ sub \in Subscription
      /\ MaxJobs \in Nat
  BY BoundsAssumption DEF TypeOK
<1>1. count' \in 0..MaxJobs /\ count' \in {count, count + 1}
  BY <1>0
<1>2. jobs \in [JobId -> JobRow]
  BY <1>0, SubUpdates
<1>3. /\ NewJob.status = "pending" /\ NewJob.revision = sub.revision
      /\ NewJob.checkpoint = NotYet
  BY DEF NewJob, NoJob
<1>4. ASSUME NEW j \in JobId
      PROVE  IF New(j) THEN /\ jobs[j].revision = sub.revision /\ jobs[j].checkpoint = NotYet
                            /\ ActiveJobs = {} /\ jobs[j].status = "pending"
                       ELSE jobs[j] = job[j]
  BY <1>0, <1>3 DEF New
<1>5. ASSUME NEW j \in JobId PROVE RowServed(j, m)
  <2>1. CASE job'[j] = jobs[j]
    BY <1>4, <2>1 DEF RowServed, KeepsRunning
  <2>2. CASE j = i /\ job'[j] = row
    BY <1>4, <2>2 DEF RowServed, KeepsRunning, Gives, Active, ActiveJobs
  <2> QED
    BY <1>2, <2>1, <2>2
<1>6. job' \in [JobId -> JobRow]
  BY <1>2
<1>7. sub' \in Subscription /\ sub'.revision = sub.revision
  BY <1>0, SubUpdates DEF Paused, Subscription
<1>8. run' \in [JobId -> RunRow] /\ policy' = policy /\ cred' = cred
  BY DEF TypeOK
<1> QED
  BY <1>1, <1>5, <1>6, <1>7, <1>8 DEF Served

LEMMA ClaimServed ==
  ASSUME TypeOK, NEW m \in Request, m.op = "claim", Accepts(m.token), NEW due \in BOOLEAN,
         ServeClaim(m, due), UNCHANGED <<policy, cred>>
  PROVE  Served(m)
<1> DEFINE create == due /\ ActiveJobs = {}
           jobs == IF create THEN [job EXCEPT ![count + 1] = NewJob] ELSE job
           active == {j \in JobId : jobs[j].status \in ACTIVE}
<1>0. /\ job \in [JobId -> JobRow] /\ count \in 0..MaxJobs /\ MaxJobs \in Nat
  BY BoundsAssumption DEF TypeOK
<1>1. CASE due /\ ~policy
  BY <1>1, StopServed DEF ServeClaim
<1>2. CASE ~(due /\ ~policy) /\ active = {}
  <2>1. ~create
    <3>1. SUFFICES ASSUME create PROVE FALSE
      OBVIOUS
    <3>2. count + 1 \in JobId /\ jobs[count + 1] = NewJob
      BY <1>0, <3>1 DEF ServeClaim, JobId
    <3>3. NewJob.status \in ACTIVE
      BY DEF NewJob, NoJob, ACTIVE
    <3> QED
      BY <1>2, <3>2, <3>3
  <2>2. UNCHANGED server
    BY <1>2, <2>1 DEF ServeClaim, server
  <2> QED
    BY <2>2, QuietServed
<1>3. ASSUME ~(due /\ ~policy), NEW j \in active,
             IF Resumes(jobs[j], m)
             THEN job' = [jobs EXCEPT ![j].lease = TRUE] /\ UNCHANGED sub
             ELSE IF ~policy
             THEN job' = [jobs EXCEPT ![j] = Cancelled(@)] /\ UNCHANGED sub
             ELSE IF jobs[j].revision # sub.revision
             THEN Disconnected
             ELSE IF jobs[j].status = "running" /\ jobs[j].lease
             THEN UNCHANGED <<job, sub>>
             ELSE IF jobs[j].attempts >= MAX_ATTEMPTS
             THEN job' = [jobs EXCEPT ![j].status = "failed"] /\ sub' = Paused
             ELSE job' = [jobs EXCEPT ![j] = ClaimedBy(@, m)] /\ UNCHANGED sub
      PROVE  Served(m)
  <2>0. /\ UNCHANGED <<policy, cred, run>> /\ j \in JobId /\ jobs[j].status \in ACTIVE
        /\ \/ jobs = job /\ count' = count
           \/ /\ ActiveJobs = {} /\ count < MaxJobs /\ count' = count + 1
              /\ jobs = [job EXCEPT ![count + 1] = NewJob]
        /\ jobs \in [JobId -> JobRow]
    BY <1>0, <1>3, SubUpdates DEF ServeClaim
  <2>1. jobs[j] \in JobRow
    BY <2>0
  <2>2. /\ create => jobs[j].status = "pending" /\ jobs[j].revision = sub.revision
        /\ create => count' = count + 1
    BY <1>0, <1>3, <2>0 DEF ActiveJobs, Active, NewJob, NoJob
  <2> HIDE DEF jobs, create
  <2>3. CASE Resumes(jobs[j], m)
    <3> DEFINE row == [jobs[j] EXCEPT !.lease = TRUE]
    <3>1. /\ row \in JobRow /\ row.revision = jobs[j].revision
          /\ row.checkpoint = jobs[j].checkpoint /\ row.status = jobs[j].status
          /\ row.cred = jobs[j].cred
      BY <2>1, JobUpdates DEF JobRow
    <3>2. job' = [jobs EXCEPT ![j] = row] /\ sub' = sub
      BY <1>3, <2>3
    <3>3. row.status = "running" => jobs[j].status = "running" /\ row.cred = jobs[j].cred
      BY <3>1
    <3> HIDE DEF row
    <3> QED
      BY <2>0, <3>1, <3>2, <3>3, ClaimOneServed
  <2>4. CASE ~Resumes(jobs[j], m) /\ ~policy
    <3>1. job' = [jobs EXCEPT ![j] = Cancelled(jobs[j])] /\ sub' = sub
      BY <1>3, <2>4
    <3>2. Cancelled(jobs[j]) \in JobRow /\ Cancelled(jobs[j]).status # "running"
      BY <2>1, JobUpdates, CancelledRow
    <3> QED
      BY <2>0, <2>1, <3>1, <3>2, CancelledRow, ClaimOneServed
  <2>5. CASE ~Resumes(jobs[j], m) /\ policy /\ jobs[j].revision # sub.revision
    <3>1. ~create
      BY <2>2, <2>5
    <3>2. Disconnected
      BY <1>3, <2>5
    <3>3. UNCHANGED count
      BY <1>3, <3>1 DEF ServeClaim, create
    <3> QED
      BY <2>0, <3>2, <3>3, StopServed
  <2>6. CASE /\ ~Resumes(jobs[j], m) /\ policy /\ jobs[j].revision = sub.revision
             /\ jobs[j].status = "running" /\ jobs[j].lease
    <3>1. ~create
      BY <2>2, <2>6
    <3>2. UNCHANGED server
      BY <1>3, <2>0, <2>6, <3>1 DEF ServeClaim, create, server
    <3> QED
      BY <3>2, QuietServed
  <2>7. CASE /\ ~Resumes(jobs[j], m) /\ policy /\ jobs[j].revision = sub.revision
             /\ ~(jobs[j].status = "running" /\ jobs[j].lease)
             /\ jobs[j].attempts >= MAX_ATTEMPTS
    <3> DEFINE row == [jobs[j] EXCEPT !.status = "failed"]
    <3>1. /\ row \in JobRow /\ row.revision = jobs[j].revision
          /\ row.checkpoint = jobs[j].checkpoint /\ row.status # "running"
      BY ZenonT(60), <2>1, JobUpdates DEF JobRow, TERMINAL
    <3>2. job' = [jobs EXCEPT ![j] = row] /\ sub' = Paused
      BY <1>3, <2>7
    <3> HIDE DEF row
    <3> QED
      BY <2>0, <3>1, <3>2, ClaimOneServed
  <2>8. CASE /\ ~Resumes(jobs[j], m) /\ policy /\ jobs[j].revision = sub.revision
             /\ ~(jobs[j].status = "running" /\ jobs[j].lease)
             /\ ~(jobs[j].attempts >= MAX_ATTEMPTS)
    <3>1. job' = [jobs EXCEPT ![j] = ClaimedBy(jobs[j], m)] /\ sub' = sub
      BY <1>3, <2>8
    <3>2. ClaimedBy(jobs[j], m) \in JobRow
      BY <2>1, JobUpdates
    <3>3. /\ ClaimedBy(jobs[j], m).revision = jobs[j].revision
          /\ ClaimedBy(jobs[j], m).checkpoint = jobs[j].checkpoint
          /\ ClaimedBy(jobs[j], m).cred = m.token
      BY <2>1 DEF ClaimedBy, JobRow
    <3> QED
      BY <2>0, <2>8, <3>1, <3>2, <3>3, ClaimOneServed
  <2> QED
    BY <2>3, <2>4, <2>5, <2>6, <2>7, <2>8
<1>4. CASE ~(due /\ ~policy) /\ active # {}
  <2>1. PICK j \in active :
             IF Resumes(jobs[j], m)
             THEN job' = [jobs EXCEPT ![j].lease = TRUE] /\ UNCHANGED sub
             ELSE IF ~policy
             THEN job' = [jobs EXCEPT ![j] = Cancelled(@)] /\ UNCHANGED sub
             ELSE IF jobs[j].revision # sub.revision
             THEN Disconnected
             ELSE IF jobs[j].status = "running" /\ jobs[j].lease
             THEN UNCHANGED <<job, sub>>
             ELSE IF jobs[j].attempts >= MAX_ATTEMPTS
             THEN job' = [jobs EXCEPT ![j].status = "failed"] /\ sub' = Paused
             ELSE job' = [jobs EXCEPT ![j] = ClaimedBy(@, m)] /\ UNCHANGED sub
    BY <1>4 DEF ServeClaim
  <2> QED
    BY <1>3, <1>4, <2>1
<1> QED
  BY <1>1, <1>2, <1>4

LEMMA LeasedRow ==
  ASSUME TypeOK, NEW m \in Request, Leased(m)
  PROVE  /\ m.job \in JobId /\ job[m.job] \in JobRow /\ run[m.job] \in RunRow
         /\ Active(m.job) /\ job[m.job].status = "running"
BY DEF Leased, TypeOK, Active, ACTIVE

\* The row of a leased job is replaced.
LEMMA LeasedServed ==
  ASSUME TypeOK, NEW m \in Request, Leased(m), NEW row \in JobRow,
         job' = [job EXCEPT ![m.job] = row],
         row.revision = job[m.job].revision, row.cred = job[m.job].cred,
         m.op # "batch" => row.checkpoint = job[m.job].checkpoint,
         row.checkpoint \in {job[m.job].checkpoint, m.checkpoint},
         run' \in [JobId -> RunRow],
         sub' \in Subscription, sub'.revision = sub.revision,
         UNCHANGED <<policy, cred, count>>
  PROVE  Served(m)
<1>1. ASSUME NEW j \in JobId PROVE RowServed(j, m)
  <2>1. CASE j = m.job
    BY <2>1, LeasedRow DEF RowServed, New, KeepsRunning, TypeOK
  <2>2. CASE j # m.job
    BY <2>2, LeasedRow DEF RowServed, New, KeepsRunning, TypeOK
  <2> QED
    BY <2>1, <2>2
<1> QED
  BY <1>1, LeasedRow DEF Served, TypeOK

LEMMA ReceiptTypes ==
  ASSUME TypeOK, NEW j \in JobId, NEW i \in Thread, NEW o \in ReceiptOf(j, i)
  PROVE  o \in {"none", "saved", "blocked", "failed"}
<1>1. run[j].receipt[i] \in {"none", "saved", "blocked", "failed"}
  BY DEF TypeOK, RunRow
<1> QED
  BY <1>1 DEF ReceiptOf

LEMMA RenewedRow ==
  ASSUME TypeOK, NEW j \in JobId
  PROVE  /\ Renewed(j) \in JobRow /\ Renewed(j).revision = job[j].revision
         /\ Renewed(j).cred = job[j].cred /\ Renewed(j).checkpoint = job[j].checkpoint
<1>1. job[j] \in JobRow
  BY DEF TypeOK
<1>2. Renewed(j) \in JobRow
  BY <1>1, JobUpdates DEF Renewed
<1> QED
  BY <1>1, <1>2 DEF Renewed, JobRow

LEMMA BatchServed ==
  ASSUME TypeOK, NEW m \in Request, m.op = "batch", Leased(m), ServeBatch(m),
         UNCHANGED <<policy, cred>>
  PROVE  Served(m)
<1> DEFINE row == [Renewed(m.job) EXCEPT !.checkpoint = m.checkpoint]
<1>1. m.job \in JobId /\ m.uuid \in Bundle \cup {NoBundle} /\ m.checkpoint \in Thread \cup {NotYet}
  BY LeasedRow DEF Request
<1>2. /\ row \in JobRow /\ row.checkpoint = m.checkpoint /\ row.revision = job[m.job].revision
      /\ row.cred = job[m.job].cred
  BY <1>1, RenewedRow DEF JobRow
<1>3. run' \in [JobId -> RunRow]
  BY <1>1 DEF ServeBatch, TypeOK, RunRow
<1>4. job' = [job EXCEPT ![m.job] = row] /\ sub' = sub /\ count' = count
  BY DEF ServeBatch
<1> HIDE DEF row
<1> QED
  BY <1>1, <1>2, <1>3, <1>4, LeasedServed DEF TypeOK

LEMMA ItemServed ==
  ASSUME TypeOK, NEW m \in Request, m.op = "item", Leased(m), ServeItem(m),
         UNCHANGED <<policy, cred>>
  PROVE  Served(m)
<1>1. m.job \in JobId /\ m.item \in Thread
  BY LeasedRow DEF Request
<1>2. PICK o \in ReceiptOf(m.job, m.item) : run' = [run EXCEPT ![m.job].receipt[m.item] = o]
  BY DEF ServeItem
<1>3. o \in {"none", "saved", "blocked", "failed"}
  BY <1>1, <1>2, ReceiptTypes
<1>4. run' \in [JobId -> RunRow]
  BY <1>1, <1>2, <1>3 DEF TypeOK, RunRow
<1>5. job' = [job EXCEPT ![m.job] = Renewed(m.job)] /\ sub' = sub /\ count' = count
  BY DEF ServeItem
<1> QED
  BY <1>1, <1>4, <1>5, RenewedRow, LeasedServed DEF TypeOK

LEMMA FinishServed ==
  ASSUME TypeOK, NEW m \in Request, m.op = "finish", Leased(m), ServeFinish(m),
         job[m.job].checkpoint # NotYet, UNCHANGED <<policy, cred>>
  PROVE  Served(m)
<1> DEFINE row == [Renewed(m.job) EXCEPT !.status = BatchStatus(m.job)]
<1>1. m.job \in JobId /\ BatchStatus(m.job) \in ACTIVE \cup TERMINAL
  BY LeasedRow DEF BatchStatus, TERMINAL, Lasting
<1>2. /\ row \in JobRow /\ row.checkpoint = job[m.job].checkpoint
      /\ row.revision = job[m.job].revision /\ row.cred = job[m.job].cred
  BY <1>1, RenewedRow, JobUpdates DEF JobRow
<1>3. run' \in [JobId -> RunRow]
  BY <1>1 DEF ServeFinish, TypeOK, RunRow
<1>4. job[m.job].checkpoint \in Thread
  BY <1>1 DEF TypeOK, JobRow
<1>5. sub' \in Subscription /\ sub'.revision = sub.revision
  BY <1>4, SubUpdates DEF ServeFinish, Paused, Subscription, TypeOK
<1>6. job' = [job EXCEPT ![m.job] = row] /\ count' = count
  BY DEF ServeFinish
<1> HIDE DEF row
<1> QED
  BY <1>1, <1>2, <1>3, <1>5, <1>6, LeasedServed

LEMMA FailureServed ==
  ASSUME TypeOK, NEW m \in Request, m.op = "failure", Leased(m), ServeFailure(m),
         UNCHANGED <<policy, cred>>
  PROVE  Served(m)
<1>0. m.job \in JobId /\ job[m.job] \in JobRow /\ "failed" \in ACTIVE \cup TERMINAL
  BY LeasedRow DEF TERMINAL
<1>1. sub' \in Subscription /\ sub'.revision = sub.revision /\ run' = run /\ count' = count
  BY SubUpdates DEF ServeFailure, Paused, Subscription, TypeOK
<1>2. run' \in [JobId -> RunRow] /\ UNCHANGED <<policy, cred, count>>
  BY <1>1 DEF TypeOK
<1>3. CASE job' = [job EXCEPT ![m.job] = Requeued(job[m.job])]
  <2>1. /\ Requeued(job[m.job]) \in JobRow
        /\ Requeued(job[m.job]).revision = job[m.job].revision
        /\ Requeued(job[m.job]).cred = job[m.job].cred
        /\ Requeued(job[m.job]).checkpoint = job[m.job].checkpoint
    BY <1>0, JobUpdates DEF Requeued, JobRow
  <2> QED
    BY <1>1, <1>2, <1>3, <2>1, LeasedServed
<1>4. CASE job' = [job EXCEPT ![m.job] = [Renewed(m.job) EXCEPT !.status = "failed"]]
  <2> DEFINE row == [Renewed(m.job) EXCEPT !.status = "failed"]
  <2>1. /\ row \in JobRow /\ row.checkpoint = job[m.job].checkpoint
        /\ row.revision = job[m.job].revision /\ row.cred = job[m.job].cred
    BY ZenonT(60), <1>0, RenewedRow, JobUpdates DEF JobRow
  <2>2. job' = [job EXCEPT ![m.job] = row]
    BY <1>4
  <2> HIDE DEF row
  <2> QED
    BY <1>1, <1>2, <2>1, <2>2, LeasedServed
<1> QED
  BY <1>3, <1>4 DEF ServeFailure

LEMMA ServeServed ==
  ASSUME TypeOK, NEW m \in Request, Serve(m)
  PROVE  Served(m)
<1>0. UNCHANGED <<policy, cred>>
  BY DEF Serve
<1>1. CASE Answer(m) = "ok"
  <2>0. Accepts(m.token) /\ Grants(m)
    BY <1>1 DEF Answer
  <2>1. CASE m.op = "claim" /\ \E due \in BOOLEAN : ServeClaim(m, due)
    BY <1>0, <2>0, <2>1, ClaimServed
  <2>2. CASE /\ m.op = "heartbeat" /\ job' = [job EXCEPT ![m.job] = Renewed(m.job)]
             /\ UNCHANGED <<sub, count, run>>
    <3>1. Leased(m)
      BY <2>0, <2>2 DEF Grants
    <3> QED
      BY <1>0, <2>2, <3>1, LeasedRow, RenewedRow, LeasedServed DEF TypeOK
  <2>3. CASE m.op = "batch" /\ ServeBatch(m)
    BY <1>0, <2>0, <2>3, BatchServed DEF Grants
  <2>4. CASE m.op = "item" /\ ServeItem(m)
    BY <1>0, <2>0, <2>4, ItemServed DEF Grants
  <2>5. CASE m.op = "finish" /\ ServeFinish(m)
    BY <1>0, <2>0, <2>5, FinishServed DEF Grants
  <2>6. CASE m.op = "failure" /\ ServeFailure(m)
    BY <1>0, <2>0, <2>6, FailureServed DEF Grants
  <2>7. CASE m.op = "status" /\ UNCHANGED <<sub, count, job, run>>
    BY <1>0, <2>7, QuietServed DEF server
  <2> QED
    BY <1>1, <2>1, <2>2, <2>3, <2>4, <2>5, <2>6, <2>7 DEF Serve
<1>2. CASE Answer(m) # "ok" /\ Lapsed(m.token)
  BY <1>0, <1>2, StopServed DEF Serve
<1>3. CASE Answer(m) # "ok" /\ ~Lapsed(m.token)
  <2>1. UNCHANGED server
    BY <1>0, <1>3 DEF Serve, server
  <2> QED
    BY <2>1, QuietServed
<1> QED
  BY <1>1, <1>2, <1>3

(***************************************************************************)
(* The agents' types.                                                      *)
(***************************************************************************)
LEMMA AgentUpdates ==
  ASSUME TypeOK, NEW a \in Agent
  PROVE  /\ agent[a] \in AgentState
         /\ \A pc \in PC : At(a, pc) \in AgentState /\ Back(a, pc) \in AgentState
         /\ \A pc \in PC, code \in Code : [At(a, pc) EXCEPT !.code = code] \in AgentState
         /\ \A row \in AgentState : Goto(a, row) => agent' \in [Agent -> AgentState]
         /\ \A d \in Directory : Keep(a, d) => spool' \in [Agent -> [JobId -> Directory]]
         /\ agent[a].job # 0 => agent[a].job \in JobId /\ Dir(a) \in Directory
<1>1. agent[a] \in AgentState
  BY DEF TypeOK
<1>2. ASSUME NEW pc \in PC PROVE At(a, pc) \in AgentState /\ Back(a, pc) \in AgentState
  <2>1. At(a, pc) \in AgentState
    BY <1>1 DEF At, AgentState
  <2>2. Back(a, pc) \in AgentState
    BY <1>1, Constants DEF Back, AgentState, Code
  <2> QED
    BY <2>1, <2>2
<1>3. ASSUME NEW pc \in PC, NEW code \in Code
      PROVE  [At(a, pc) EXCEPT !.code = code] \in AgentState
  BY <1>2 DEF AgentState
<1>4. ASSUME NEW row \in AgentState, Goto(a, row) PROVE agent' \in [Agent -> AgentState]
  BY <1>4 DEF Goto, TypeOK
<1>5. ASSUME NEW d \in Directory, Keep(a, d) PROVE spool' \in [Agent -> [JobId -> Directory]]
  BY <1>5 DEF Keep, TypeOK
<1>6. agent[a].job # 0 => agent[a].job \in JobId /\ Dir(a) \in Directory
  BY <1>1 DEF Dir, TypeOK, AgentState
<1> QED
  BY <1>1, <1>2, <1>3, <1>4, <1>5, <1>6

\* A directory is only written for the job at hand.
LEMMA KeepTypes ==
  ASSUME TypeOK, NEW a \in Agent, NEW d, Keep(a, d),
         agent[a].job \in JobId => d \in Directory
  PROVE  spool' \in [Agent -> [JobId -> Directory]]
<1>1. CASE agent[a].job \in JobId
  BY <1>1, AgentUpdates
<1>2. CASE agent[a].job \notin JobId
  <2>1. [spool[a] EXCEPT ![agent[a].job] = d] = spool[a]
    BY <1>2 DEF TypeOK
  <2> QED
    BY <2>1 DEF Keep, TypeOK
<1> QED
  BY <1>1, <1>2

LEMMA RequestTypes ==
  ASSUME TypeOK, NEW a \in Agent, NEW op \in Op, NEW i \in Thread
  PROVE  RequestFor(a, op, i) \in Request
<1>1. agent[a] \in AgentState
  BY DEF TypeOK
<1>2. agent[a].job # 0 => Dir(a) \in Directory
  BY AgentUpdates
<1>3. /\ (IF agent[a].job = 0 THEN NoBundle ELSE Dir(a).bundle) \in Bundle \cup {NoBundle}
      /\ (IF agent[a].job = 0 THEN NotYet ELSE Dir(a).metadata) \in Thread \cup {NotYet}
  BY <1>2 DEF Directory
<1> QED
  BY <1>1, <1>3 DEF RequestFor, Request, AgentState

LEMMA WaitingTypes ==
  ASSUME TypeOK, NEW a \in Agent
  PROVE  Waiting(a) \subseteq Request
<1>1. agent[a] \in AgentState /\ 0 \in Thread
  BY Constants DEF TypeOK
<1>2. CASE agent[a].pc \in {"claim", "heartbeat", "batch", "status", "failure"}
  BY <1>1, <1>2, RequestTypes DEF Waiting, Op
<1>3. CASE agent[a].pc = "items" /\ agent[a].todo # {}
  <2>1. agent[a].todo \subseteq Thread
    BY <1>1 DEF AgentState
  <2> QED
    BY <1>3, <2>1, RequestTypes DEF Waiting, Op
<1>4. CASE agent[a].pc = "items" /\ agent[a].todo = {}
  BY <1>1, <1>4, RequestTypes DEF Waiting, Op
<1> QED
  BY <1>2, <1>3, <1>4 DEF Waiting

\* What an agent at a point of tick has in the directory of its job.
InJob == {"heartbeat", "open", "read", "rename", "batch", "items", "status", "failure"}
Steady(row, d) ==
  /\ row.pc \in InJob => row.job \in JobId
  /\ row.pc \in {"batch", "items"} => d.bundle # NoBundle
  /\ row.pc \in {"read", "rename"} => d.bundle = NoBundle
  /\ row.pc = "read" => d.metadata = NextOffset(row.offset) /\ d.preparing = NoBundle
  /\ row.pc = "rename" => d.preparing # NoBundle
Processes == \A a \in Agent : Steady(agent[a], Dir(a))

LEMMA HearTypes ==
  ASSUME TypeOK, NEW a \in Agent, NEW m \in Request, Served(m), Hear(a, m),
         m.op = "batch" => m.uuid # NoBundle
  PROVE  agent' \in [Agent -> AgentState] /\ spool' \in [Agent -> [JobId -> Directory]]
<1>0. /\ agent[a] \in AgentState /\ spool \in [Agent -> [JobId -> Directory]]
      /\ \A x \in {"off", "claim", "status", "heartbeat", "open", "items"} : x \in PC
  BY DEF TypeOK, PC
<1>1. CASE Answer(m) # "ok"
  <2>1. HearError(a, m)
    BY <1>1 DEF Hear
  <2> QED
    BY <1>0, <2>1, AgentUpdates DEF HearError
<1>2. CASE HearClaim(a, m)
  <2>1. CASE Given(m) = {}
    BY <1>0, <1>2, <2>1, AgentUpdates DEF HearClaim
  <2>2. CASE Given(m) # {}
    <3>1. PICK j \in Given(m) :
            Goto(a, [agent[a] EXCEPT !.pc = "heartbeat", !.job = j,
                                     !.generation = job'[j].generation, !.offset = sub.offset,
                                     !.bound = run[j].uuid # NoBundle])
      BY <1>2, <2>2 DEF HearClaim
    <3>2. /\ j \in JobId /\ job'[j].generation \in Nat /\ sub.offset \in Thread
          /\ (run[j].uuid # NoBundle) \in BOOLEAN
      BY DEF Given, Served, JobRow, TypeOK, Subscription
    <3> DEFINE row == [agent[a] EXCEPT !.pc = "heartbeat", !.job = j,
                                     !.generation = job'[j].generation, !.offset = sub.offset,
                                     !.bound = run[j].uuid # NoBundle]
    <3>3. row \in AgentState
      BY <1>0, <3>2 DEF AgentState
    <3>4. Goto(a, row)
      BY <3>1
    <3> HIDE DEF row
    <3>5. spool' = spool
      BY <1>2 DEF HearClaim
    <3> QED
      BY <1>0, <3>3, <3>4, <3>5, AgentUpdates
  <2> QED
    BY <2>1, <2>2
<1>3. CASE Mark(a)
  <2>1. agent' \in [Agent -> AgentState]
    BY <1>0, <1>3, AgentUpdates DEF Mark
  <2> DEFINE status == job'[agent[a].job].status
             d == [Dir(a) EXCEPT !.terminal = status]
  <2>2. CASE status \in TERMINAL
    <3>1. agent[a].job \in JobId => d \in Directory
      BY <2>2, AgentUpdates, Constants DEF Directory
    <3>2. Keep(a, d)
      BY <1>3, <2>2 DEF Mark
    <3> HIDE DEF d
    <3> QED
      BY <2>1, <3>1, <3>2, KeepTypes
  <2>3. CASE status \notin TERMINAL
    BY <1>0, <1>3, <2>1, <2>3 DEF Mark
  <2> QED
    BY <2>2, <2>3
<1>4. CASE Goto(a, Back(a, "claim")) /\ UNCHANGED spool
  BY <1>0, <1>4, AgentUpdates
<1>5. CASE Goto(a, At(a, "open")) /\ UNCHANGED spool
  BY <1>0, <1>5, AgentUpdates
<1>6. CASE /\ m.op = "batch" /\ UNCHANGED spool /\ Answer(m) = "ok"
           /\ Goto(a, [At(a, "items") EXCEPT !.todo = bundle[m.uuid].items])
  <2>1. bundle[m.uuid].items \in SUBSET Thread
    BY <1>6 DEF TypeOK, BundleRow, Request
  <2>2. At(a, "items") \in AgentState
    BY <1>0, AgentUpdates
  <2>3. [At(a, "items") EXCEPT !.todo = bundle[m.uuid].items] \in AgentState
    BY <2>1, <2>2 DEF AgentState
  <2> QED
    BY <1>0, <1>6, <2>3, AgentUpdates
<1>7. CASE Goto(a, [agent[a] EXCEPT !.todo = @ \ {m.item}]) /\ UNCHANGED spool
  <2>1. [agent[a] EXCEPT !.todo = @ \ {m.item}] \in AgentState
    <3>1. agent[a].todo \ {m.item} \in SUBSET Thread
      BY <1>0 DEF AgentState
    <3> QED
      BY <1>0, <3>1 DEF AgentState
  <2> QED
    BY <1>0, <1>7, <2>1, AgentUpdates
<1> QED
  BY <1>1, <1>2, <1>3, <1>4, <1>5, <1>6, <1>7 DEF Hear

LEMMA Fields ==
  ASSUME TypeOK, NEW a \in Agent, NEW pc
  PROVE  /\ At(a, pc).pc = pc /\ At(a, pc).job = agent[a].job
         /\ At(a, pc).offset = agent[a].offset
         /\ Back(a, pc).pc = pc /\ Back(a, pc).job = 0
         /\ \A code : LET row == [At(a, pc) EXCEPT !.code = code] IN
                        row.pc = pc /\ row.job = agent[a].job
         /\ \A todo : LET row == [At(a, pc) EXCEPT !.todo = todo] IN
                        row.pc = pc /\ row.job = agent[a].job
         /\ \A todo : LET row == [agent[a] EXCEPT !.todo = todo] IN
                        row.pc = agent[a].pc /\ row.job = agent[a].job
<1>1. agent[a] \in AgentState
  BY DEF TypeOK
<1> QED
  BY <1>1 DEF At, Back, AgentState

\* One agent goes on and its directories with it.
LEMMA AloneSteady ==
  ASSUME TypeOK, Processes, NEW a \in Agent, NEW row,
         agent' = [agent EXCEPT ![a] = row],
         \A b \in Agent \ {a} : spool'[b] = spool[b],
         Steady(row, spool'[a][row.job])
  PROVE  Processes'
<1>1. ASSUME NEW b \in Agent PROVE Steady(agent'[b], spool'[b][agent'[b].job])
  <2>1. CASE b = a
    BY <2>1 DEF TypeOK
  <2>2. CASE b # a
    BY <2>2 DEF TypeOK, Processes, Dir
  <2> QED
    BY <2>1, <2>2
<1> QED
  BY <1>1 DEF Processes, Dir, Steady

\* Points of tick about whose directory nothing is said.
LEMMA FreeSteady ==
  ASSUME TypeOK, Processes, NEW a \in Agent, NEW row,
         agent' = [agent EXCEPT ![a] = row],
         \A b \in Agent \ {a} : spool'[b] = spool[b],
         row.pc \in PC \ {"read", "rename", "batch", "items"},
         row.pc \in InJob => row.job \in JobId
  PROVE  Processes'
<1>1. Steady(row, spool'[a][row.job])
  BY DEF Steady
<1> QED
  BY <1>1, AloneSteady

LEMMA KeepElsewhere ==
  ASSUME TypeOK, NEW a \in Agent, NEW d, Keep(a, d)
  PROVE  /\ \A b \in Agent \ {a} : spool'[b] = spool[b]
         /\ \A j \in JobId : spool'[a][j] = IF j = agent[a].job THEN d ELSE spool[a][j]
BY DEF Keep, TypeOK

\* What a request asks for is what its agent is at.
LEMMA WaitingAt ==
  ASSUME TypeOK, Processes, NEW a \in Agent, NEW m \in Waiting(a)
  PROVE  /\ m \in Request /\ m.agent = a
         /\ m.op \in {"claim", "heartbeat", "batch", "status", "failure"} => agent[a].pc = m.op
         /\ m.op \in {"item", "finish"} => agent[a].pc = "items"
         /\ m.job = agent[a].job
         /\ m.op # "claim" =>
              m.job \in JobId /\ m.uuid = Dir(a).bundle /\ m.checkpoint = Dir(a).metadata
         /\ m.op \in {"batch", "item", "finish"} => m.uuid # NoBundle
<1>0. 0 \notin JobId
  BY Constants
<1>1. m \in Request
  BY WaitingTypes
<1>2. CASE agent[a].pc \in {"claim", "heartbeat", "batch", "status", "failure"}
  <2>1. m = RequestFor(a, agent[a].pc, 0)
    BY <1>2 DEF Waiting
  <2> QED
    BY <1>0, <1>1, <1>2, <2>1 DEF RequestFor, Processes, Steady, InJob
<1>3. CASE agent[a].pc = "items"
  <2>1. PICK op \in {"item", "finish"}, i \in Thread \cup agent[a].todo : m = RequestFor(a, op, i)
    BY <1>3, Constants DEF Waiting
  <2> QED
    BY <1>0, <1>1, <1>3, <2>1 DEF RequestFor, Processes, Steady, InJob
<1> QED
  BY <1>2, <1>3 DEF Waiting

LEMMA BackSteady ==
  ASSUME TypeOK, Processes, NEW a \in Agent, NEW pc \in {"off", "claim"},
         Goto(a, Back(a, pc)), \A b \in Agent \ {a} : spool'[b] = spool[b]
  PROVE  Processes'
<1> DEFINE row == Back(a, pc)
<1>1. row.pc \in PC \ {"read", "rename", "batch", "items"} /\ row.pc \notin InJob
  BY Fields DEF PC, InJob
<1>2. agent' = [agent EXCEPT ![a] = row]
  BY DEF Goto
<1> HIDE DEF row
<1> QED
  BY <1>1, <1>2, FreeSteady

LEMMA AtSteady ==
  ASSUME TypeOK, Processes, NEW a \in Agent, NEW pc \in {"open", "status"},
         Goto(a, At(a, pc)), UNCHANGED spool, agent[a].job \in JobId
  PROVE  Processes'
<1> DEFINE row == At(a, pc)
<1>1. row.pc \in PC \ {"read", "rename", "batch", "items"} /\ row.job \in JobId
  BY Fields DEF PC
<1>2. agent' = [agent EXCEPT ![a] = row]
  BY DEF Goto
<1> HIDE DEF row
<1> QED
  BY <1>1, <1>2, FreeSteady

\* Going on with the upload of a frozen batch.
LEMMA UploadSteady ==
  ASSUME TypeOK, Processes, NEW a \in Agent, NEW row, Goto(a, row), UNCHANGED spool,
         row.pc \in {"batch", "items"}, row.job = agent[a].job, agent[a].job \in JobId,
         Dir(a).bundle # NoBundle
  PROVE  Processes'
<1>1. Steady(row, spool'[a][row.job])
  BY DEF Steady, Dir
<1>2. agent' = [agent EXCEPT ![a] = row]
  BY DEF Goto
<1> QED
  BY <1>1, <1>2, AloneSteady

LEMMA HearSteady ==
  ASSUME TypeOK, Processes, NEW a \in Agent, NEW m \in Waiting(a), Hear(a, m)
  PROVE  Processes'
<1>0. /\ \A x \in {"off", "claim", "status", "heartbeat", "open"} : x \in PC
      /\ agent[a] \in AgentState
      /\ m.op # "claim" => agent[a].job \in JobId
  BY WaitingAt DEF TypeOK, PC
<1>1. CASE HearError(a, m)
  <2>1. spool' = spool
    BY <1>1 DEF HearError
  <2>2. CASE Goto(a, At(a, "status")) /\ m.op # "claim"
    BY <1>0, <2>1, <2>2, AtSteady
  <2>3. CASE \E pc \in {"off", "claim"} : Goto(a, Back(a, pc))
    BY <2>1, <2>3, BackSteady
  <2> QED
    BY <1>1, <2>2, <2>3 DEF HearError
<1>2. CASE HearClaim(a, m)
  <2>1. spool' = spool
    BY <1>2 DEF HearClaim
  <2>2. CASE Goto(a, Back(a, "claim"))
    BY <2>1, <2>2, BackSteady
  <2>3. CASE Given(m) # {}
    <3>1. PICK j \in Given(m) :
            Goto(a, [agent[a] EXCEPT !.pc = "heartbeat", !.job = j,
                                     !.generation = job'[j].generation, !.offset = sub.offset,
                                     !.bound = run[j].uuid # NoBundle])
      BY <1>2, <2>3 DEF HearClaim
    <3> DEFINE row == [agent[a] EXCEPT !.pc = "heartbeat", !.job = j,
                                     !.generation = job'[j].generation, !.offset = sub.offset,
                                     !.bound = run[j].uuid # NoBundle]
    <3>2. row.pc = "heartbeat" /\ row.job \in JobId
      BY <1>0 DEF AgentState, Given
    <3>3. agent' = [agent EXCEPT ![a] = row]
      BY <3>1 DEF Goto
    <3> HIDE DEF row
    <3> QED
      BY <1>0, <2>1, <3>2, <3>3, FreeSteady
  <2> QED
    BY <1>2, <2>2, <2>3 DEF HearClaim
<1>3. CASE Mark(a)
  <2>1. Goto(a, Back(a, "claim"))
    BY <1>3 DEF Mark
  <2>2. \A b \in Agent \ {a} : spool'[b] = spool[b]
    BY <1>3, KeepElsewhere DEF Mark
  <2> QED
    BY <2>1, <2>2, BackSteady
<1>4. CASE Goto(a, Back(a, "claim")) /\ UNCHANGED spool
  BY <1>4, BackSteady
<1>5. CASE m.op = "heartbeat" /\ Goto(a, At(a, "open")) /\ UNCHANGED spool
  BY <1>0, <1>5, AtSteady
<1>6. CASE /\ m.op = "batch" /\ UNCHANGED spool
           /\ Goto(a, [At(a, "items") EXCEPT !.todo = bundle[m.uuid].items])
  <2> DEFINE row == [At(a, "items") EXCEPT !.todo = bundle[m.uuid].items]
  <2>1. agent[a].job \in JobId /\ Dir(a).bundle # NoBundle
    BY <1>0, <1>6, WaitingAt
  <2>2. row.pc = "items" /\ row.job = agent[a].job /\ Goto(a, row)
    BY <1>6, Fields
  <2> HIDE DEF row
  <2> QED
    BY <1>6, <2>1, <2>2, UploadSteady
<1>7. CASE /\ m.op = "item" /\ UNCHANGED spool
           /\ Goto(a, [agent[a] EXCEPT !.todo = @ \ {m.item}])
  <2> DEFINE row == [agent[a] EXCEPT !.todo = @ \ {m.item}]
  <2>1. /\ agent[a].job \in JobId /\ Dir(a).bundle # NoBundle /\ agent[a].pc = "items"
    BY <1>0, <1>7, WaitingAt
  <2>2. row.pc = "items" /\ row.job = agent[a].job /\ Goto(a, row)
    BY <1>7, <2>1, Fields
  <2> HIDE DEF row
  <2> QED
    BY <1>7, <2>1, <2>2, UploadSteady
<1> QED
  BY <1>1, <1>2, <1>3, <1>4, <1>5, <1>6, <1>7 DEF Hear

Sound == TypeOK /\ Processes

LEMMA ServedTypes ==
  ASSUME TypeOK, NEW m \in Request, Served(m), late' \subseteq Request,
         UNCHANGED <<bundle, built>>,
         agent' \in [Agent -> AgentState], spool' \in [Agent -> [JobId -> Directory]]
  PROVE  TypeOK'
BY DEF TypeOK, Served

LEMMA CallSound ==
  ASSUME Sound, NEW a \in Agent, Call(a)
  PROVE  Sound'
<1>0. TypeOK /\ Processes
  BY DEF Sound
<1>1. PICK m \in Waiting(a) :
        /\ Serve(m) /\ UNCHANGED <<bundle, built, late>>
        /\ Hear(a, m) \/ UNCHANGED <<agent, spool>>
  BY DEF Call
<1>2. m \in Request /\ Served(m) /\ (m.op = "batch" => m.uuid # NoBundle)
  BY <1>0, <1>1, WaitingAt, ServeServed
<1>3. agent' \in [Agent -> AgentState] /\ spool' \in [Agent -> [JobId -> Directory]]
  BY <1>0, <1>1, <1>2, HearTypes DEF TypeOK
<1>4. Processes'
  BY <1>0, <1>1, HearSteady DEF Processes, Steady, Dir
<1>5. late' \subseteq Request
  BY <1>0, <1>1 DEF TypeOK
<1> QED
  BY <1>0, <1>1, <1>2, <1>3, <1>4, <1>5, ServedTypes DEF Sound

\* Only the agent and its directories change.
LEMMA LocalTypes ==
  ASSUME TypeOK, UNCHANGED server, late' \subseteq Request,
         bundle' \in [Bundle -> BundleRow], built' \in 0..MaxBundle,
         agent' \in [Agent -> AgentState], spool' \in [Agent -> [JobId -> Directory]]
  PROVE  TypeOK'
BY DEF TypeOK, server

LEMMA OffsetTypes ==
  ASSUME NEW offset \in Thread
  PROVE  /\ NextOffset(offset) \in Thread
         /\ \A ps \in SUBSET (0..(Window - 1)) : Threaded(offset, ps) \in SUBSET Thread
<1>1. \A n \in Nat : n % Threads \in Thread
  BY BoundsAssumption DEF Thread
<1>2. offset \in Nat /\ Window \in Nat
  BY BoundsAssumption DEF Thread
<1>3. NextOffset(offset) \in Thread
  BY <1>1, <1>2 DEF NextOffset
<1>4. \A q \in 0..(Window - 1) : (offset + q) % Threads \in Thread
  BY <1>1, <1>2
<1> QED
  BY <1>3, <1>4 DEF Threaded

LEMMA ReadSound ==
  ASSUME Sound, NEW a \in Agent, Read(a)
  PROVE  Sound'
<1>0. /\ TypeOK /\ Processes /\ agent[a] \in AgentState /\ agent[a].pc = "read"
      /\ agent[a].offset \in Thread /\ Dir(a) \in Directory
  <2>1. agent[a].job # 0
    BY Constants DEF Sound, Processes, Steady, InJob, Read
  <2> QED
    BY <2>1, AgentUpdates DEF Sound, TypeOK, AgentState, Read
<1>1. built + 1 \in Bundle /\ built' = built + 1 /\ built' \in 0..MaxBundle
  BY <1>0, BoundsAssumption DEF Read, TypeOK, Bundle
<1>2. PICK p \in Previews :
        bundle' = [bundle EXCEPT ![built + 1] =
          [base |-> agent[a].offset, items |-> Threaded(agent[a].offset, p.items),
           invalid |-> Threaded(agent[a].offset, p.invalid), gaps |-> p.gaps]]
  BY DEF Read
<1>3. bundle' \in [Bundle -> BundleRow]
  <2>1. /\ p.items \in SUBSET (0..(Window - 1)) /\ p.invalid \in SUBSET (0..(Window - 1))
        /\ p.gaps \in Gaps
    BY PreviewsAssumption DEF Gaps
  <2>2. [base |-> agent[a].offset, items |-> Threaded(agent[a].offset, p.items),
         invalid |-> Threaded(agent[a].offset, p.invalid), gaps |-> p.gaps] \in BundleRow
    BY <1>0, <2>1, OffsetTypes DEF BundleRow
  <2> QED
    BY <1>0, <1>1, <1>2, <2>2 DEF TypeOK
<1> DEFINE d == [Dir(a) EXCEPT !.preparing = built + 1]
           row == At(a, "rename")
<1>4. d \in Directory /\ d.bundle = Dir(a).bundle /\ d.preparing = built + 1
  BY <1>0, <1>1 DEF Directory
<1>5. /\ row \in AgentState /\ row.pc = "rename" /\ row.job = agent[a].job
  BY <1>0, AgentUpdates, Fields DEF PC
<1>6. Keep(a, d) /\ Goto(a, row) /\ UNCHANGED server /\ UNCHANGED late
  BY DEF Read
<1>7. agent[a].job \in JobId /\ Dir(a).bundle = NoBundle
  BY <1>0 DEF Processes, Steady, InJob
<1>8. built + 1 # NoBundle
  BY <1>1 DEF Bundle, NoBundle
<1> HIDE DEF d, row
<1>9. TypeOK'
  <2>1. agent' \in [Agent -> AgentState] /\ spool' \in [Agent -> [JobId -> Directory]]
    BY <1>0, <1>4, <1>5, <1>6, AgentUpdates
  <2> QED
    BY <1>0, <1>1, <1>3, <1>6, <2>1, LocalTypes DEF TypeOK
<1>10. Processes'
  <2>1. \A b \in Agent \ {a} : spool'[b] = spool[b]
    BY <1>0, <1>6, KeepElsewhere
  <2>2. spool'[a][agent[a].job] = d
    BY <1>0, <1>6, <1>7, KeepElsewhere
  <2>3. Steady(row, spool'[a][row.job])
    BY <1>4, <1>5, <1>7, <1>8, <2>2 DEF Steady
  <2> QED
    BY <1>0, <1>6, <2>1, <2>3, AloneSteady DEF Goto
<1> QED
  BY <1>9, <1>10 DEF Sound

LEMMA OpenSound ==
  ASSUME Sound, NEW a \in Agent, Open(a)
  PROVE  Sound'
<1>0. /\ TypeOK /\ Processes /\ agent[a] \in AgentState /\ agent[a].pc = "open"
      /\ agent[a].offset \in Thread /\ agent[a].job \in JobId /\ Dir(a) \in Directory
      /\ UNCHANGED server /\ UNCHANGED <<bundle, built, late>>
      /\ \A x \in {"failure", "batch", "rename", "read"} : x \in PC
  <2>1. agent[a].job # 0 /\ agent[a].job \in JobId
    BY Constants DEF Sound, Processes, Steady, InJob, Open
  <2> QED
    BY <2>1, AgentUpdates DEF Sound, TypeOK, AgentState, Open, PC
<1>1. CASE Goto(a, At(a, "batch")) /\ UNCHANGED spool /\ Dir(a).bundle # NoBundle
  <2>1. Processes'
    BY <1>0, <1>1, Fields, UploadSteady
  <2>2. agent' \in [Agent -> AgentState]
    BY <1>0, <1>1, AgentUpdates
  <2> QED
    BY <1>0, <1>1, <2>1, <2>2 DEF Sound, TypeOK, server
<1>2. CASE Failing(a, "permanent") /\ UNCHANGED spool
  <2> DEFINE row == [At(a, "failure") EXCEPT !.code = "permanent"]
  <2>0. {"transient", "permanent"} \subseteq Code
    BY DEF Code
  <2>1. row \in AgentState /\ row.pc = "failure" /\ row.job = agent[a].job
    BY <1>0, <2>0, AgentUpdates, Fields
  <2>2. agent' = [agent EXCEPT ![a] = row]
    BY <1>2 DEF Failing, Goto
  <2> HIDE DEF row
  <2>3. Processes'
    BY <1>0, <1>2, <2>1, <2>2, FreeSteady
  <2> QED
    BY <1>0, <1>2, <2>1, <2>2, <2>3 DEF Sound, TypeOK, server
<1>3. CASE /\ Goto(a, At(a, "rename")) /\ UNCHANGED spool
           /\ Dir(a).bundle = NoBundle /\ Dir(a).preparing # NoBundle
  <2> DEFINE row == At(a, "rename")
  <2>1. row \in AgentState /\ row.pc = "rename" /\ row.job = agent[a].job
    BY <1>0, AgentUpdates, Fields
  <2>2. agent' = [agent EXCEPT ![a] = row]
    BY <1>3 DEF Goto
  <2> HIDE DEF row
  <2>3. Steady(row, spool'[a][row.job])
    BY <1>0, <1>3, <2>1 DEF Steady, Dir
  <2>4. Processes'
    BY <1>0, <1>3, <2>2, <2>3, AloneSteady
  <2> QED
    BY <1>0, <1>3, <2>1, <2>2, <2>4 DEF Sound, TypeOK, server
<1>4. CASE /\ Keep(a, [Dir(a) EXCEPT !.preparing = NoBundle,
                                     !.metadata = NextOffset(agent[a].offset)])
           /\ Goto(a, At(a, "read")) /\ Dir(a).bundle = NoBundle
  <2> DEFINE d == [Dir(a) EXCEPT !.preparing = NoBundle,
                                 !.metadata = NextOffset(agent[a].offset)]
             row == At(a, "read")
  <2>1. /\ d \in Directory /\ d.bundle = NoBundle /\ d.preparing = NoBundle
        /\ d.metadata = NextOffset(agent[a].offset)
    BY <1>0, <1>4, OffsetTypes DEF Directory
  <2>2. /\ row \in AgentState /\ row.pc = "read" /\ row.job = agent[a].job
        /\ row.offset = agent[a].offset
    BY <1>0, AgentUpdates, Fields
  <2>3. Keep(a, d) /\ agent' = [agent EXCEPT ![a] = row] /\ Goto(a, row)
    BY <1>4 DEF Goto
  <2> HIDE DEF d, row
  <2>4. spool'[a][agent[a].job] = d /\ \A b \in Agent \ {a} : spool'[b] = spool[b]
    BY <1>0, <2>3, KeepElsewhere
  <2>5. Steady(row, spool'[a][row.job])
    BY <1>0, <2>1, <2>2, <2>4 DEF Steady
  <2>6. Processes'
    BY <1>0, <2>3, <2>4, <2>5, AloneSteady
  <2>7. agent' \in [Agent -> AgentState] /\ spool' \in [Agent -> [JobId -> Directory]]
    BY <1>0, <2>1, <2>2, <2>3, AgentUpdates
  <2> QED
    BY <1>0, <2>6, <2>7, LocalTypes DEF Sound, TypeOK
<1> QED
  BY <1>1, <1>2, <1>3, <1>4 DEF Open

\* An agent goes to a point about which nothing is said, its directories as they are.
LEMMA FreeSound ==
  ASSUME Sound, NEW a \in Agent, NEW row \in AgentState, Goto(a, row), UNCHANGED spool,
         UNCHANGED server, UNCHANGED <<bundle, built>>, late' \subseteq Request,
         row.pc \notin {"read", "rename", "batch", "items"},
         row.pc \in InJob => row.job \in JobId
  PROVE  Sound'
<1>1. agent' = [agent EXCEPT ![a] = row] /\ row.pc \in PC
  BY DEF Goto, AgentState
<1>2. Processes'
  BY <1>1, FreeSteady DEF Sound
<1>3. agent' \in [Agent -> AgentState]
  BY <1>1 DEF Sound, TypeOK
<1> QED
  BY <1>2, <1>3, LocalTypes DEF Sound, TypeOK

LEMMA ProcessSound ==
  ASSUME Sound, NEW a \in Agent, Process(a)
  PROVE  Sound'
<1>0. /\ TypeOK /\ Processes /\ agent[a] \in AgentState /\ late \subseteq Request
      /\ sub.config \in Config
      /\ \A x \in {"off", "claim", "failure", "status"} : x \in PC
  BY DEF Sound, TypeOK, PC, Subscription
<1>1. ASSUME NEW c \in Credential, Install(a, c) PROVE Sound'
  <2> DEFINE row == [At(a, "off") EXCEPT !.config = sub.config, !.token = c]
  <2>1. At(a, "off") \in AgentState /\ At(a, "off").pc = "off"
    BY <1>0, AgentUpdates, Fields
  <2>2. row \in AgentState /\ row.pc = "off"
    BY <1>0, <2>1 DEF AgentState
  <2>3. Goto(a, row)
    BY <1>1 DEF Install
  <2> HIDE DEF row
  <2> QED
    BY <1>0, <1>1, <2>2, <2>3, FreeSound DEF Install, InJob
<1>2. ASSUME NEW c \in Credential, SetToken(a, c) PROVE Sound'
  <2> DEFINE row == [agent[a] EXCEPT !.token = c]
  <2>1. row \in AgentState /\ row.pc = "off"
    BY <1>0, <1>2 DEF AgentState, SetToken
  <2>2. Goto(a, row)
    BY <1>2 DEF SetToken
  <2> HIDE DEF row
  <2> QED
    BY <1>0, <1>2, <2>1, <2>2, FreeSound DEF SetToken, InJob
<1>3. ASSUME NEW code \in {"transient", "permanent"}, LocalError(a, code) PROVE Sound'
  <2> DEFINE row == [At(a, "failure") EXCEPT !.code = code]
  <2>0. {"transient", "permanent"} \subseteq Code
    BY DEF Code
  <2>1. row \in AgentState /\ row.pc = "failure" /\ row.job = agent[a].job
    BY <1>0, <2>0, AgentUpdates, Fields
  <2>2. Goto(a, row)
    BY <1>3 DEF LocalError, Failing
  <2>3. agent[a].job \in JobId
    BY <1>0, <1>3 DEF LocalError, Working, Processes, Steady, InJob
  <2> HIDE DEF row
  <2> QED
    BY <1>0, <1>3, <2>1, <2>2, <2>3, FreeSound DEF LocalError
<1>4. ASSUME NEW j \in JobId, Cleanup(a, j) PROVE Sound'
  <2>1. spool' \in [Agent -> [JobId -> Directory]]
    BY <1>0, <1>4, Constants DEF Cleanup, TypeOK
  <2>2. TypeOK'
    BY <1>0, <1>4, <2>1 DEF Cleanup, TypeOK, server
  <2>3. ASSUME NEW b \in Agent PROVE Steady(agent'[b], spool'[b][agent'[b].job])
    <3>1. CASE b = a
      BY <1>4, <3>1 DEF Cleanup, Steady, InJob
    <3>2. CASE b # a
      BY <1>0, <1>4, <3>2 DEF Cleanup, TypeOK, Processes, Dir
    <3> QED
      BY <3>1, <3>2
  <2> QED
    BY <2>2, <2>3 DEF Sound, Processes, Dir, Steady
<1>5. CASE Start(a)
  <2>1. At(a, "claim") \in AgentState /\ At(a, "claim").pc = "claim"
    BY <1>0, AgentUpdates, Fields
  <2> QED
    BY <1>0, <1>5, <2>1, FreeSound DEF Start, InJob
<1>6. CASE Call(a)
  BY <1>6, CallSound
<1>7. CASE Abandon(a)
  <2>1. late' \subseteq Request
    BY <1>0, <1>7, WaitingTypes DEF Abandon
  <2> QED
    BY <1>0, <1>7, <2>1 DEF Abandon, Sound, TypeOK, Processes, Steady, Dir, server
<1>8. CASE GiveUp(a)
  <2>1. CASE Goto(a, Back(a, "claim"))
    <3>1. Back(a, "claim") \in AgentState /\ Back(a, "claim").pc = "claim"
      BY <1>0, AgentUpdates, Fields
    <3> QED
      BY <1>0, <1>8, <2>1, <3>1, FreeSound DEF GiveUp, InJob
  <2>2. CASE Goto(a, At(a, "status")) /\ agent[a].pc \in InJob
    <3>1. /\ At(a, "status") \in AgentState /\ At(a, "status").pc = "status"
          /\ At(a, "status").job \in JobId
      BY <1>0, <2>2, AgentUpdates, Fields DEF Processes, Steady
    <3> QED
      BY <1>0, <1>8, <2>2, <3>1, FreeSound DEF GiveUp
  <2>3. agent[a].pc \in {"claim", "heartbeat", "batch", "items", "status", "failure"}
    BY <1>8 DEF GiveUp, Waiting
  <2> QED
    BY <1>8, <2>1, <2>2, <2>3 DEF GiveUp, InJob
<1>9. CASE Beat(a)
  <2>1. RequestFor(a, "heartbeat", 0) \in Request
    BY <1>0, Constants, RequestTypes DEF Op
  <2>2. Served(RequestFor(a, "heartbeat", 0))
    BY <1>0, <1>9, <2>1, ServeServed DEF Beat
  <2>3. TypeOK'
    BY <1>0, <1>9, <2>1, <2>2, ServedTypes DEF Beat, TypeOK
  <2> QED
    BY <1>0, <1>9, <2>3 DEF Beat, Sound, Processes, Steady, Dir
<1>10. CASE HeartbeatFailed(a)
  <2>1. /\ At(a, "status") \in AgentState /\ At(a, "status").pc = "status"
        /\ At(a, "status").job \in JobId
    BY <1>0, <1>10, AgentUpdates, Fields DEF HeartbeatFailed, Processes, Steady, InJob
  <2> QED
    BY <1>0, <1>10, <2>1, FreeSound DEF HeartbeatFailed
<1>11. CASE Open(a)
  BY <1>11, OpenSound
<1>12. CASE Read(a)
  BY <1>12, ReadSound
<1>13. CASE Rename(a)
  <2> DEFINE d == [Dir(a) EXCEPT !.preparing = NoBundle, !.bundle = Dir(a).preparing]
             row == At(a, "batch")
  <2>0. agent[a].job \in JobId /\ Dir(a).preparing # NoBundle /\ Dir(a) \in Directory
    <3>1. agent[a].job \in JobId /\ Dir(a).preparing # NoBundle
      BY <1>0, <1>13 DEF Rename, Processes, Steady, InJob
    <3> QED
      BY <1>0, <3>1, Constants, AgentUpdates
  <2>1. d \in Directory /\ d.bundle # NoBundle
    BY <2>0 DEF Directory
  <2>2. row \in AgentState /\ row.pc = "batch" /\ row.job = agent[a].job
    BY <1>0, AgentUpdates, Fields DEF PC
  <2>3. /\ Keep(a, d) /\ agent' = [agent EXCEPT ![a] = row] /\ Goto(a, row)
        /\ UNCHANGED server /\ UNCHANGED <<bundle, built, late>>
    BY <1>13 DEF Rename, Goto
  <2> HIDE DEF d, row
  <2>4. spool'[a][agent[a].job] = d /\ \A b \in Agent \ {a} : spool'[b] = spool[b]
    BY <1>0, <2>0, <2>3, KeepElsewhere
  <2>5. Steady(row, spool'[a][row.job])
    BY <2>0, <2>1, <2>2, <2>4 DEF Steady
  <2>6. Processes'
    BY <1>0, <2>3, <2>4, <2>5, AloneSteady
  <2>7. agent' \in [Agent -> AgentState] /\ spool' \in [Agent -> [JobId -> Directory]]
    BY <1>0, <2>1, <2>2, <2>3, AgentUpdates
  <2> QED
    BY <1>0, <2>3, <2>6, <2>7, LocalTypes DEF Sound, TypeOK
<1>14. CASE Crash(a)
  <2>1. Back(a, "off") \in AgentState /\ Back(a, "off").pc = "off"
    BY <1>0, AgentUpdates, Fields
  <2> QED
    BY <1>0, <1>14, <2>1, FreeSound DEF Crash, InJob
<1> QED
  BY <1>1, <1>2, <1>3, <1>4, <1>5, <1>6, <1>7, <1>8, <1>9, <1>10, <1>11, <1>12, <1>13, <1>14
     DEF Process

LEMMA SoundStep ==
  ASSUME Sound, [Next]_vars
  PROVE  Sound'
<1>0. TypeOK /\ Processes
  BY DEF Sound
<1>1. CASE Owner
  <2>1. UNCHANGED <<spool, agent>>
    BY <1>1 DEF Owner, Issue, Disconnect, ChangeSelection, CollectNow, CancelJob, SetSchedule,
       RetryFailed, SetPolicy, LocalUnchanged
  <2> QED
    BY <1>0, <1>1, <2>1, OwnerType DEF Sound, Processes, Steady, Dir
<1>2. ASSUME NEW a \in Agent, Process(a) PROVE Sound'
  BY <1>2, ProcessSound
<1>3. ASSUME NEW m \in late, Overtaken(m) PROVE Sound'
  <2>1. m \in Request /\ Served(m)
    BY <1>0, <1>3, ServeServed DEF TypeOK, Overtaken
  <2>2. TypeOK'
    BY <1>0, <1>3, <2>1, ServedTypes DEF Overtaken, TypeOK
  <2> QED
    BY <1>0, <1>3, <2>2 DEF Sound, Overtaken, Processes, Steady, Dir
<1>4. ASSUME NEW j \in JobId, LeaseEnds(j) PROVE Sound'
  <2>1. job' \in [JobId -> JobRow]
    BY <1>0, <1>4, JobUpdates DEF LeaseEnds, TypeOK
  <2> QED
    BY <1>0, <1>4, <2>1
       DEF Sound, LeaseEnds, LocalUnchanged, TypeOK, Processes, Steady, Dir
<1>5. ASSUME NEW c \in Credential, Expire(c) PROVE Sound'
  <2>1. cred' \in [Credential -> CredentialRow]
    BY <1>0, <1>5 DEF Expire, TypeOK, CredentialRow
  <2> QED
    BY <1>0, <1>5, <2>1
       DEF Sound, Expire, LocalUnchanged, TypeOK, Processes, Steady, Dir
<1>6. CASE UNCHANGED vars
  BY <1>0, <1>6 DEF Sound, vars, TypeOK, Processes, Steady, Dir
<1> QED
  BY <1>1, <1>2, <1>3, <1>4, <1>5, <1>6 DEF Next

LEMMA InitSound == Init => Sound
<1> SUFFICES ASSUME Init PROVE Sound
  OBVIOUS
<1>1. PICK k \in Config, c \in Credential :
        /\ sub = [config |-> k, revision |-> 1, enabled |-> FALSE, offset |-> 0]
        /\ agent = [a \in Agent |-> NotInstalled(k, c)]
  BY DEF Init
<1>2. NotInstalled(k, c) \in AgentState /\ NotInstalled(k, c).pc = "none"
  BY Constants DEF NotInstalled, AgentState, PC, Code
<1>3. sub \in Subscription
  BY <1>1, Constants DEF Subscription
<1>4. cred \in [Credential -> CredentialRow]
  BY DEF Init, CredentialRow
<1>5. 0 \in 0..MaxJobs /\ 0 \in 0..MaxBundle
  BY BoundsAssumption
<1>6. TypeOK
  BY <1>1, <1>2, <1>3, <1>4, <1>5, Constants DEF Init, TypeOK
<1>7. Processes
  BY <1>1, <1>2 DEF Processes, Steady, InJob
<1> QED
  BY <1>6, <1>7 DEF Sound

LEMMA SoundHolds == Spec => []Sound
<1>1. Init => Sound
  BY InitSound
<1>2. Sound /\ [Next]_vars => Sound'
  BY SoundStep
<1> QED
  BY <1>1, <1>2, PTL DEF Spec

\* Types are preserved by every step of the owner, the service and the agents.
THEOREM TypeCorrect == Spec => []TypeOK
<1>1. Sound => TypeOK
  BY DEF Sound
<1> QED
  BY <1>1, SoundHolds, PTL

(***************************************************************************)
(* What a step does to the jobs.                                           *)
(***************************************************************************)
RowStep(j) ==
  IF New(j)
  THEN /\ job'[j].revision = sub.revision /\ job'[j].checkpoint = NotYet
       /\ ActiveJobs = {} /\ sub'.revision = sub.revision
  ELSE /\ job'[j].revision = job[j].revision
       /\ \/ job'[j] = job[j]
          \/ Active(j)
          \/ j = count /\ Retryable(j) /\ job'[j].status = "pending"
             /\ job'[j].checkpoint = job[j].checkpoint /\ UNCHANGED <<sub, count>>

JobsStep ==
  /\ count' \in {count, count + 1}
  /\ \A j \in JobId : RowStep(j)
  /\ \A j \in JobId : run'[j] = run[j] \/ (Active(j) /\ count' = count)
  /\ \/ sub'.revision = sub.revision
     \/ /\ sub'.revision = sub.revision + 1 /\ count' = count
        /\ \A j \in JobId : job'[j].status \notin ACTIVE

LEMMA ServeRuns ==
  ASSUME TypeOK, NEW m \in Request, Serve(m)
  PROVE  \A j \in JobId : run'[j] = run[j] \/ (Active(j) /\ count' = count)
<1>1. CASE run' = run
  BY <1>1
<1>2. CASE Leased(m) /\ count' = count /\
           \E r : run' = [run EXCEPT ![m.job] = r]
  BY <1>2, LeasedRow DEF TypeOK
<1>3. ASSUME Answer(m) = "ok", m.op = "batch" /\ ServeBatch(m)
      PROVE  Leased(m) /\ count' = count /\ \E r : run' = [run EXCEPT ![m.job] = r]
  BY <1>3 DEF Answer, Grants, ServeBatch
<1>4. ASSUME Answer(m) = "ok", m.op = "item" /\ ServeItem(m)
      PROVE  Leased(m) /\ count' = count /\ \E r : run' = [run EXCEPT ![m.job] = r]
  BY <1>4 DEF Answer, Grants, ServeItem
<1>5. ASSUME Answer(m) = "ok", m.op = "finish" /\ ServeFinish(m)
      PROVE  Leased(m) /\ count' = count /\ \E r : run' = [run EXCEPT ![m.job] = r]
  BY <1>5 DEF Answer, Grants, ServeFinish
<1>6. CASE \E due \in BOOLEAN : ServeClaim(m, due)
  <2>1. run' = run
    BY <1>6 DEF ServeClaim
  <2> QED
    BY <1>1, <2>1
<1>7. CASE ServeFailure(m)
  BY <1>1, <1>7 DEF ServeFailure
<1> QED
  BY <1>1, <1>2, <1>3, <1>4, <1>5, <1>6, <1>7 DEF Serve

LEMMA ServeJobs ==
  ASSUME TypeOK, NEW m \in Request, Serve(m)
  PROVE  JobsStep
<1>1. Served(m)
  BY ServeServed
<1>2. \A j \in JobId : RowStep(j)
  BY <1>1 DEF Served, RowServed, RowStep
<1> QED
  BY <1>1, <1>2, ServeRuns DEF JobsStep, Served

LEMMA OwnerJobs ==
  ASSUME TypeOK, Owner
  PROVE  JobsStep
<1>0. /\ job \in [JobId -> JobRow] /\ sub \in Subscription /\ count \in 0..MaxJobs
  BY DEF TypeOK
<1>1. run' = run
  BY DEF Owner, Issue, Disconnect, ChangeSelection, CollectNow, CancelJob, SetSchedule,
     RetryFailed, SetPolicy
<1>2. ASSUME job' = CancelledJobs, count' = count,
             sub'.revision \in {sub.revision, sub.revision + 1}
      PROVE  JobsStep
  <2>1. \A j \in JobId : RowStep(j)
    BY <1>2, CancelledJobsRows DEF RowStep, New
  <2> QED
    BY <1>1, <1>2, <2>1, CancelledJobsRows DEF JobsStep
<1>3. ASSUME job' = job, count' = count, sub'.revision = sub.revision PROVE JobsStep
  BY <1>1, <1>3 DEF JobsStep, RowStep, New
<1>4. /\ Paused.revision = sub.revision
      /\ \A k : [Paused EXCEPT !.config = k, !.revision = @ + 1, !.offset = 0].revision
                  = sub.revision + 1
      /\ \A e : [sub EXCEPT !.enabled = e].revision = sub.revision
  BY <1>0 DEF Paused, Subscription
<1>5. ASSUME NEW c \in Credential, Issue(c) PROVE JobsStep
  BY <1>2, <1>4, <1>5 DEF Issue, Disconnected
<1>6. CASE Disconnect
  BY <1>2, <1>4, <1>6 DEF Disconnect, Disconnected
<1>7. ASSUME NEW k \in Config, ChangeSelection(k) PROVE JobsStep
  BY <1>2, <1>4, <1>7 DEF ChangeSelection
<1>8. CASE CollectNow
  <2>1. count + 1 \in JobId /\ job' = [job EXCEPT ![count + 1] = NewJob] /\ count' = count + 1
    BY <1>0, <1>8, BoundsAssumption DEF CollectNow, JobId
  <2>2. NewJob.revision = sub.revision /\ NewJob.checkpoint = NotYet
    BY DEF NewJob, NoJob
  <2>3. ASSUME NEW j \in JobId PROVE RowStep(j)
    BY <1>0, <1>8, <2>1, <2>2 DEF RowStep, New, CollectNow
  <2> QED
    BY <1>1, <1>8, <2>1, <2>3 DEF JobsStep, CollectNow
<1>9. CASE CancelJob
  BY <1>2, <1>9 DEF CancelJob
<1>10. ASSUME NEW e \in BOOLEAN, SetSchedule(e) PROVE JobsStep
  BY <1>2, <1>3, <1>4, <1>10 DEF SetSchedule
<1>11. CASE RetryFailed
  <2>1. count \in JobId /\ job' = [job EXCEPT ![count] = Retried(job[count])]
    BY <1>0, <1>11 DEF RetryFailed, JobId
  <2>2. /\ Retried(job[count]).status = "pending"
        /\ Retried(job[count]).revision = job[count].revision
        /\ Retried(job[count]).checkpoint = job[count].checkpoint
    BY <1>0, <2>1 DEF Retried, JobRow
  <2>3. ASSUME NEW j \in JobId PROVE RowStep(j)
    BY <1>0, <1>11, <2>1, <2>2 DEF RowStep, New, RetryFailed
  <2> QED
    BY <1>1, <1>11, <2>3 DEF JobsStep, RetryFailed
<1>12. ASSUME NEW e \in BOOLEAN, SetPolicy(e) PROVE JobsStep
  BY <1>2, <1>3, <1>4, <1>12 DEF SetPolicy
<1> QED
  BY <1>5, <1>6, <1>7, <1>8, <1>9, <1>10, <1>11, <1>12 DEF Owner

\* The service is not touched by what an agent does alone.
LEMMA ProcessCases ==
  ASSUME Sound, NEW a \in Agent, Process(a)
  PROVE  \/ UNCHANGED server
         \/ \E m \in Waiting(a) : Serve(m) /\ Call(a)
         \/ Beat(a) /\ Serve(RequestFor(a, "heartbeat", 0))
                    /\ RequestFor(a, "heartbeat", 0) \in Request
<1>1. RequestFor(a, "heartbeat", 0) \in Request
  BY Constants, RequestTypes DEF Op, Sound
<1> QED
  BY <1>1 DEF Process, Install, SetToken, LocalError, Cleanup, Start, Call, Abandon, GiveUp, Beat,
     HeartbeatFailed, Open, Read, Rename, Crash

LEMMA QuietJobs ==
  ASSUME UNCHANGED server
  PROVE  JobsStep
BY DEF server, JobsStep, RowStep, New

LEMMA JobsSteps ==
  ASSUME Sound, [Next]_vars
  PROVE  JobsStep
<1>0. TypeOK
  BY DEF Sound
<1>1. CASE Owner
  BY <1>0, <1>1, OwnerJobs
<1>2. ASSUME NEW a \in Agent, Process(a) PROVE JobsStep
  BY <1>0, <1>2, ProcessCases, ServeJobs, QuietJobs, WaitingTypes
<1>3. ASSUME NEW m \in late, Overtaken(m) PROVE JobsStep
  BY <1>0, <1>3, ServeJobs DEF Overtaken, TypeOK
<1>4. ASSUME NEW j \in JobId, LeaseEnds(j) PROVE JobsStep
  <2>1. /\ job' = [job EXCEPT ![j].lease = FALSE] /\ UNCHANGED <<sub, count, run>>
        /\ Active(j)
    BY <1>4 DEF LeaseEnds, Active, ACTIVE
  <2>2. ASSUME NEW i \in JobId PROVE RowStep(i)
    <3>1. CASE i = j
      BY <1>0, <2>1, <3>1 DEF RowStep, New, TypeOK, JobRow
    <3>2. CASE i # j
      BY <1>0, <2>1, <3>2 DEF RowStep, New, TypeOK
    <3> QED
      BY <3>1, <3>2
  <2> QED
    BY <2>1, <2>2 DEF JobsStep
<1>5. ASSUME NEW c \in Credential, Expire(c) PROVE JobsStep
  BY <1>5 DEF Expire, JobsStep, RowStep, New
<1>6. CASE UNCHANGED vars
  BY <1>6, QuietJobs DEF vars, server
<1> QED
  BY <1>1, <1>2, <1>3, <1>4, <1>5, <1>6 DEF Next

(***************************************************************************)
(* The jobs: only the latest is active, and the ids above it are unused.   *)
(***************************************************************************)
Ordered ==
  \A j \in JobId :
    /\ Active(j) => j = count
    /\ job[j].revision <= sub.revision
    /\ j > count => job[j] = NoJob /\ run[j] = NoRun

LEMMA OrderedStep ==
  ASSUME Sound, Ordered, [Next]_vars
  PROVE  Ordered'
<1>0. /\ JobsStep /\ TypeOK /\ count \in Nat /\ sub.revision \in Nat
      /\ \A j \in JobId : j \in Nat /\ job[j].revision \in Nat
  BY JobsSteps DEF Sound, TypeOK, Subscription, JobRow, JobId
<1>1. ASSUME NEW j \in JobId, job'[j].status \in ACTIVE PROVE j = count'
  <2>1. CASE New(j)
    BY <2>1 DEF New
  <2>2. CASE ~New(j)
    <3>1. Active(j) \/ (j = count /\ Retryable(j))
      BY <1>0, <1>1, <2>2 DEF JobsStep, RowStep, Active
    <3>2. j = count
      BY <3>1 DEF Ordered
    <3>3. count' = count
      <4>1. CASE count' # count
        <5>1. count' = count + 1 /\ count' \in JobId
          BY <1>0, <4>1, SoundStep DEF JobsStep, Sound, TypeOK, JobId
        <5>2. RowStep(count') /\ New(count')
          BY <1>0, <4>1, <5>1 DEF JobsStep, New
        <5>3. ActiveJobs = {} /\ ~New(j)
          BY <5>2, <2>2 DEF RowStep
        <5>4. RowStep(j) /\ ~Active(j)
          BY <1>0, <5>3 DEF JobsStep, ActiveJobs
        <5>5. job'[j] # job[j]
          BY <1>1, <5>4 DEF Active
        <5> QED
          BY <4>1, <5>3, <5>4, <5>5 DEF RowStep
      <4> QED
        BY <4>1
    <3> QED
      BY <3>2, <3>3
  <2> QED
    BY <2>1, <2>2
<1>2. ASSUME NEW j \in JobId PROVE job'[j].revision <= sub'.revision
  BY <1>0 DEF JobsStep, RowStep, Ordered
<1>3. ASSUME NEW j \in JobId, j > count' PROVE job'[j] = NoJob /\ run'[j] = NoRun
  <2>1. ~New(j) /\ j > count /\ j # count
    BY <1>0, <1>3 DEF New, JobsStep
  <2>2. job[j] = NoJob /\ run[j] = NoRun /\ ~Active(j)
    BY <2>1 DEF Ordered
  <2> QED
    BY <1>0, <2>1, <2>2 DEF JobsStep, RowStep
<1> QED
  BY <1>1, <1>2, <1>3 DEF Ordered, Active

LEMMA OrderedHolds == Spec => [](Sound /\ Ordered)
<1>1. Init => Ordered
  BY BoundsAssumption DEF Init, Ordered, Active, NoJob, ACTIVE
<1>2. Sound /\ Ordered /\ [Next]_vars => Ordered'
  BY OrderedStep
<1> QED
  BY <1>1, <1>2, SoundHolds, PTL DEF Spec

(***************************************************************************)
(* Tokens.                                                                 *)
(***************************************************************************)
Tokens ==
  \A j \in JobId : job[j].status = "running" =>
    /\ policy /\ job[j].cred \in Credential
    /\ job[j].revision = sub.revision
    /\ cred[job[j].cred].state = "live"
    /\ cred[job[j].cred].revision = sub.revision

LEMMA ServedTokens ==
  ASSUME TypeOK, Tokens, NEW m \in Request, Served(m)
  PROVE  Tokens'
<1>1. ASSUME NEW j \in JobId, job'[j].status = "running"
      PROVE  /\ policy' /\ job'[j].cred \in Credential
             /\ job'[j].revision = sub'.revision
             /\ cred'[job'[j].cred].state = "live"
             /\ cred'[job'[j].cred].revision = sub'.revision
  <2>1. RowServed(j, m) /\ policy' = policy /\ cred' = cred /\ sub'.revision = sub.revision
    BY DEF Served
  <2>2. CASE KeepsRunning(j)
    <3>1. job[j].status = "running" /\ job'[j].cred = job[j].cred
      BY <2>2 DEF KeepsRunning
    <3>2. job'[j].revision = sub.revision
      BY <2>1, <3>1 DEF RowServed, Tokens
    <3> QED
      BY <2>1, <3>1, <3>2 DEF Tokens
  <2>3. CASE Gives(j, m)
    BY <2>1, <2>3 DEF Gives, Accepts, Request
  <2> QED
    BY <1>1, <2>1, <2>2, <2>3 DEF RowServed
<1> QED
  BY <1>1 DEF Tokens

LEMMA OwnerTokens ==
  ASSUME TypeOK, Tokens, Owner
  PROVE  Tokens'
<1>0. /\ job \in [JobId -> JobRow] /\ sub \in Subscription /\ count \in 0..MaxJobs
      /\ cred \in [Credential -> CredentialRow]
  BY DEF TypeOK
<1>1. ASSUME job' = CancelledJobs PROVE Tokens'
  BY <1>1, CancelledJobsRows DEF Tokens, ACTIVE
<1>2. ASSUME \A j \in JobId : job'[j].status = "running" => job'[j] = job[j],
             policy => policy', cred' = cred, sub'.revision = sub.revision
      PROVE  Tokens'
  BY <1>2 DEF Tokens
<1>3. ASSUME NEW c \in Credential, Issue(c) PROVE Tokens'
  BY <1>1, <1>3 DEF Issue, Disconnected
<1>4. CASE Disconnect
  BY <1>1, <1>4 DEF Disconnect, Disconnected
<1>5. ASSUME NEW k \in Config, ChangeSelection(k) PROVE Tokens'
  BY <1>1, <1>5 DEF ChangeSelection
<1>6. CASE CollectNow
  <2>1. NewJob.status = "pending"
    BY DEF NewJob, NoJob
  <2> QED
    BY <1>0, <1>2, <1>6, <2>1 DEF CollectNow
<1>7. CASE CancelJob
  BY <1>1, <1>7 DEF CancelJob
<1>8. ASSUME NEW e \in BOOLEAN, SetSchedule(e) PROVE Tokens'
  <2>1. [sub EXCEPT !.enabled = e].revision = sub.revision
    BY <1>0 DEF Subscription
  <2> QED
    BY <1>1, <1>2, <1>8, <2>1 DEF SetSchedule
<1>9. CASE RetryFailed
  <2>1. count \in JobId /\ Retried(job[count]).status = "pending"
    BY <1>0, <1>9 DEF RetryFailed, JobId, Retried, JobRow
  <2> QED
    BY <1>0, <1>2, <1>9, <2>1 DEF RetryFailed
<1>10. ASSUME NEW e \in BOOLEAN, SetPolicy(e) PROVE Tokens'
  BY <1>1, <1>2, <1>10 DEF SetPolicy
<1> QED
  BY <1>3, <1>4, <1>5, <1>6, <1>7, <1>8, <1>9, <1>10 DEF Owner

LEMMA QuietTokens ==
  ASSUME Tokens, UNCHANGED server
  PROVE  Tokens'
BY DEF Tokens, server

LEMMA TokensStep ==
  ASSUME Sound, Tokens, [Next]_vars
  PROVE  Tokens'
<1>0. TypeOK
  BY DEF Sound
<1>1. CASE Owner
  BY <1>0, <1>1, OwnerTokens
<1>2. ASSUME NEW a \in Agent, Process(a) PROVE Tokens'
  <2>1. CASE UNCHANGED server
    BY <2>1, QuietTokens
  <2>2. CASE \E m \in Request : Serve(m)
    BY <1>0, <2>2, ServeServed, ServedTokens
  <2> QED
    BY <1>0, <1>2, <2>1, <2>2, ProcessCases, WaitingTypes
<1>3. ASSUME NEW m \in late, Overtaken(m) PROVE Tokens'
  BY <1>0, <1>3, ServeServed, ServedTokens DEF Overtaken, TypeOK
<1>4. ASSUME NEW j \in JobId, LeaseEnds(j) PROVE Tokens'
  <2>1. \A i \in JobId : /\ job'[i].status = job[i].status /\ job'[i].cred = job[i].cred
                         /\ job'[i].revision = job[i].revision
    BY <1>0, <1>4 DEF LeaseEnds, TypeOK, JobRow
  <2> QED
    BY <1>4, <2>1 DEF LeaseEnds, Tokens
<1>5. ASSUME NEW c \in Credential, Expire(c) PROVE Tokens'
  <2>1. \A d \in Credential : /\ cred'[d].state = cred[d].state
                              /\ cred'[d].revision = cred[d].revision
    BY <1>0, <1>5 DEF Expire, TypeOK, CredentialRow
  <2> QED
    BY <1>5, <2>1 DEF Expire, Tokens
<1>6. CASE UNCHANGED vars
  BY <1>6, QuietTokens DEF vars, server
<1> QED
  BY <1>1, <1>2, <1>3, <1>4, <1>5, <1>6 DEF Next

\* A job only runs for a token that is still good, whatever requests come late.
THEOREM RunningIsAuthorised == Spec => []RunningJobHasLiveCredential
<1>1. Init => Tokens
  BY DEF Init, Tokens, NoJob
<1>2. Sound /\ Tokens /\ [Next]_vars => Tokens'
  BY TokensStep
<1>3. Tokens => RunningJobHasLiveCredential
  BY DEF Tokens, RunningJobHasLiveCredential
<1> QED
  BY <1>1, <1>2, <1>3, SoundHolds, PTL DEF Spec

(***************************************************************************)
(* What a step does to an agent and to its directories.                    *)
(***************************************************************************)
Early == {"heartbeat", "open", "read"}

AgentMove(a) ==
  \/ agent'[a].job = 0 /\ agent'[a].pc \notin InJob
  \/ /\ agent'[a].job = agent[a].job /\ agent'[a].offset = agent[a].offset
     /\ agent'[a].pc \in Early => agent[a].pc \in Early
  \/ LET j == agent'[a].job IN
     /\ j \in JobId /\ job'[j].status = "running"
     /\ agent'[a].offset = sub.offset /\ sub'.offset = sub.offset

\* The directory is written at one of the points of tick that do so.
Written(a, old, new) ==
  \/ /\ old.bundle = NoBundle
     /\ new = [old EXCEPT !.preparing = NoBundle, !.metadata = NextOffset(agent[a].offset)]
  \/ /\ agent[a].pc = "read" /\ old.bundle = NoBundle
     /\ old.metadata = NextOffset(agent[a].offset)
     /\ built + 1 \in Bundle /\ built' = built + 1
     /\ bundle'[built + 1].base = agent[a].offset
     /\ new = [old EXCEPT !.preparing = built + 1]
  \/ /\ old.bundle = NoBundle /\ old.preparing # NoBundle
     /\ new = [old EXCEPT !.preparing = NoBundle, !.bundle = old.preparing]

DirStep(a, j) ==
  LET old == spool[a][j]
      new == spool'[a][j]
  IN
  \/ new = old
  \/ Removable(old) /\ new = NoDirectory
  \/ /\ j = agent[a].job
     /\ \/ job'[j].status \in TERMINAL /\ new = [old EXCEPT !.terminal = job'[j].status]
        \/ Written(a, old, new)

LocalStep ==
  /\ \A a \in Agent : AgentMove(a)
  /\ \A a \in Agent, j \in JobId : DirStep(a, j)
  /\ built' \in Nat /\ built <= built'
  /\ \A u \in Bundle : u <= built => bundle'[u] = bundle[u]
  /\ \A m \in late' \ late : \E a \in Agent : m \in Waiting(a)

LEMMA StillLocal ==
  ASSUME TypeOK, UNCHANGED <<bundle, built, spool, agent>>, late' \subseteq late
  PROVE  LocalStep
<1>1. built \in Nat
  BY BoundsAssumption DEF TypeOK
<1> QED
  BY <1>1 DEF LocalStep, AgentMove, DirStep

\* One agent goes on, and only the directory of its job is written.
LEMMA AloneLocal ==
  ASSUME TypeOK, NEW a \in Agent, NEW row, Goto(a, row),
         \/ row.job = 0 /\ row.pc \notin InJob
         \/ /\ row.job = agent[a].job /\ row.offset = agent[a].offset
            /\ row.pc \in Early => agent[a].pc \in Early
         \/ /\ row.job \in JobId /\ job'[row.job].status = "running"
            /\ row.offset = sub.offset /\ sub'.offset = sub.offset,
         UNCHANGED <<bundle, built>>, late' \subseteq late,
         \/ UNCHANGED spool
         \/ \E d : /\ Keep(a, d)
                   /\ agent[a].job \in JobId =>
                        \/ /\ job'[agent[a].job].status \in TERMINAL
                           /\ d = [Dir(a) EXCEPT !.terminal = job'[agent[a].job].status]
                        \/ Written(a, Dir(a), d)
  PROVE  LocalStep
<1>1. built \in Nat
  BY BoundsAssumption DEF TypeOK
<1>2. ASSUME NEW b \in Agent PROVE AgentMove(b)
  BY DEF Goto, TypeOK, AgentMove
<1>3. ASSUME NEW b \in Agent, NEW j \in JobId PROVE DirStep(b, j)
  <2>1. CASE UNCHANGED spool
    BY <2>1 DEF DirStep
  <2>2. ASSUME NEW d, Keep(a, d),
               agent[a].job \in JobId =>
                        \/ /\ job'[agent[a].job].status \in TERMINAL
                           /\ d = [Dir(a) EXCEPT !.terminal = job'[agent[a].job].status]
                        \/ Written(a, Dir(a), d)
        PROVE  DirStep(b, j)
    <3>1. CASE b = a /\ j = agent[a].job
      BY <2>2, <3>1, KeepElsewhere DEF DirStep, Dir
    <3>2. CASE ~(b = a /\ j = agent[a].job)
      BY <2>2, <3>2, KeepElsewhere DEF DirStep
    <3> QED
      BY <3>1, <3>2
  <2> QED
    BY <2>1, <2>2
<1> QED
  BY <1>1, <1>2, <1>3 DEF LocalStep

LEMMA ClaimKeepsOffset ==
  ASSUME TypeOK, NEW m, Serve(m), m.op = "claim"
  PROVE  sub'.offset = sub.offset
<1>1. Paused.offset = sub.offset
  BY DEF Paused, TypeOK, Subscription
<1>2. ASSUME NEW due \in BOOLEAN, ServeClaim(m, due) PROVE sub' \in {sub, Paused}
  BY <1>2 DEF ServeClaim, Disconnected
<1> QED
  BY <1>1, <1>2 DEF Serve, Disconnected

LEMMA BackLocal ==
  ASSUME TypeOK, NEW a \in Agent, NEW pc \in {"off", "claim"}, Goto(a, Back(a, pc)),
         UNCHANGED <<bundle, built, spool>>, late' \subseteq late
  PROVE  LocalStep
<1> DEFINE row == Back(a, pc)
<1>1. row.job = 0 /\ row.pc \notin InJob
  BY Fields DEF InJob
<1>2. Goto(a, row)
  OBVIOUS
<1> HIDE DEF row
<1> QED
  BY <1>1, <1>2, AloneLocal

LEMMA AtLocal ==
  ASSUME TypeOK, NEW a \in Agent, NEW row, Goto(a, row),
         row.job = agent[a].job, row.offset = agent[a].offset,
         row.pc \in Early => agent[a].pc \in Early,
         UNCHANGED <<bundle, built, spool>>, late' \subseteq late
  PROVE  LocalStep
BY AloneLocal

LEMMA CodeFields ==
  ASSUME TypeOK, NEW a \in Agent, NEW pc
  PROVE  /\ \A code : [At(a, pc) EXCEPT !.code = code].offset = agent[a].offset
         /\ \A todo : [At(a, pc) EXCEPT !.todo = todo].offset = agent[a].offset
         /\ \A todo : [agent[a] EXCEPT !.todo = todo].offset = agent[a].offset
<1>1. agent[a] \in AgentState
  BY DEF TypeOK
<1> QED
  BY <1>1 DEF At, AgentState

LEMMA HearLocal ==
  ASSUME Sound, NEW a \in Agent, NEW m \in Waiting(a), Serve(m), Hear(a, m),
         UNCHANGED <<bundle, built, late>>
  PROVE  LocalStep
<1>0. TypeOK /\ Processes /\ agent[a] \in AgentState /\ late' \subseteq late
  BY DEF Sound, TypeOK
<1>1. CASE HearError(a, m)
  <2>1. spool' = spool
    BY <1>1 DEF HearError
  <2>2. CASE Goto(a, At(a, "status"))
    <3> DEFINE row == At(a, "status")
    <3>1. row.job = agent[a].job /\ row.offset = agent[a].offset /\ row.pc \notin Early
      BY <1>0, Fields DEF Early
    <3>2. Goto(a, row)
      BY <2>2
    <3> HIDE DEF row
    <3> QED
      BY <1>0, <2>1, <3>1, <3>2, AtLocal
  <2>3. CASE \E pc \in {"off", "claim"} : Goto(a, Back(a, pc))
    BY <1>0, <2>1, <2>3, BackLocal
  <2> QED
    BY <1>1, <2>2, <2>3 DEF HearError
<1>2. CASE m.op = "claim" /\ HearClaim(a, m)
  <2>1. spool' = spool
    BY <1>2 DEF HearClaim
  <2>2. CASE Goto(a, Back(a, "claim"))
    BY <1>0, <2>1, <2>2, BackLocal
  <2>3. CASE Given(m) # {}
    <3>1. PICK j \in Given(m) :
            Goto(a, [agent[a] EXCEPT !.pc = "heartbeat", !.job = j,
                                     !.generation = job'[j].generation, !.offset = sub.offset,
                                     !.bound = run[j].uuid # NoBundle])
      BY <1>2, <2>3 DEF HearClaim
    <3> DEFINE row == [agent[a] EXCEPT !.pc = "heartbeat", !.job = j,
                                     !.generation = job'[j].generation, !.offset = sub.offset,
                                     !.bound = run[j].uuid # NoBundle]
    <3>2. row.job = j /\ row.offset = sub.offset
      BY <1>0 DEF AgentState
    <3>3. Goto(a, row)
      BY <3>1
    <3>4. j \in JobId /\ job'[j].status = "running" /\ sub'.offset = sub.offset
      BY <1>0, <1>2, ClaimKeepsOffset DEF Given
    <3> HIDE DEF row
    <3> QED
      BY <1>0, <2>1, <3>2, <3>3, <3>4, AloneLocal
  <2> QED
    BY <1>2, <2>2, <2>3 DEF HearClaim
<1>3. CASE Mark(a)
  <2> DEFINE row == Back(a, "claim")
             d == [Dir(a) EXCEPT !.terminal = job'[agent[a].job].status]
  <2>1. row.job = 0 /\ row.pc \notin InJob
    BY <1>0, Fields DEF InJob
  <2>2. Goto(a, row)
    BY <1>3 DEF Mark
  <2>3. \/ UNCHANGED spool
        \/ Keep(a, d) /\ job'[agent[a].job].status \in TERMINAL
    BY <1>3 DEF Mark
  <2>4. d = [Dir(a) EXCEPT !.terminal = job'[agent[a].job].status]
    OBVIOUS
  <2> HIDE DEF row, d
  <2> QED
    BY <1>0, <2>1, <2>2, <2>3, <2>4, AloneLocal
<1>4. CASE Goto(a, Back(a, "claim")) /\ UNCHANGED spool
  BY <1>0, <1>4, BackLocal
<1>5. CASE m.op = "heartbeat" /\ Goto(a, At(a, "open")) /\ UNCHANGED spool
  <2> DEFINE row == At(a, "open")
  <2>1. /\ row.job = agent[a].job /\ row.offset = agent[a].offset
        /\ agent[a].pc \in Early
    BY <1>0, <1>5, Fields, WaitingAt DEF Early
  <2>2. Goto(a, row)
    BY <1>5
  <2> HIDE DEF row
  <2> QED
    BY <1>0, <1>5, <2>1, <2>2, AtLocal
<1>6. CASE /\ m.op = "batch" /\ UNCHANGED spool
           /\ Goto(a, [At(a, "items") EXCEPT !.todo = bundle[m.uuid].items])
  <2> DEFINE row == [At(a, "items") EXCEPT !.todo = bundle[m.uuid].items]
  <2>1. row.job = agent[a].job /\ row.offset = agent[a].offset /\ row.pc = "items"
    BY <1>0, Fields, CodeFields
  <2>2. Goto(a, row)
    BY <1>6
  <2> HIDE DEF row
  <2> QED
    BY <1>0, <1>6, <2>1, <2>2, AtLocal DEF Early
<1>7. CASE /\ m.op = "item" /\ UNCHANGED spool
           /\ Goto(a, [agent[a] EXCEPT !.todo = @ \ {m.item}])
  <2> DEFINE row == [agent[a] EXCEPT !.todo = @ \ {m.item}]
  <2>1. row.job = agent[a].job /\ row.offset = agent[a].offset /\ row.pc = agent[a].pc
    BY <1>0 DEF AgentState
  <2>2. Goto(a, row)
    BY <1>7
  <2> HIDE DEF row
  <2> QED
    BY <1>0, <1>7, <2>1, <2>2, AtLocal
<1> QED
  BY <1>1, <1>2, <1>3, <1>4, <1>5, <1>6, <1>7 DEF Hear

LEMMA ReadLocal ==
  ASSUME Sound, NEW a \in Agent, Read(a)
  PROVE  LocalStep
<1>0. /\ TypeOK /\ agent[a].job \in JobId /\ built \in Nat /\ built + 1 \in Bundle
      /\ Dir(a).bundle = NoBundle /\ Dir(a).metadata = NextOffset(agent[a].offset)
      /\ agent[a].pc = "read"
  BY BoundsAssumption DEF Sound, Processes, Steady, InJob, TypeOK, Read, Bundle
<1>1. PICK p \in Previews :
        bundle' = [bundle EXCEPT ![built + 1] =
          [base |-> agent[a].offset, items |-> Threaded(agent[a].offset, p.items),
           invalid |-> Threaded(agent[a].offset, p.invalid), gaps |-> p.gaps]]
  BY DEF Read
<1>2. /\ bundle'[built + 1].base = agent[a].offset
      /\ \A u \in Bundle : u <= built => bundle'[u] = bundle[u]
  BY <1>0, <1>1 DEF TypeOK, Bundle
<1> DEFINE d == [Dir(a) EXCEPT !.preparing = built + 1]
           row == At(a, "rename")
<1>3. Keep(a, d) /\ Goto(a, row) /\ built' = built + 1 /\ late' = late
  BY DEF Read
<1>4. Written(a, Dir(a), d)
  BY <1>0, <1>2, <1>3 DEF Written
<1>5. row.job = agent[a].job /\ row.offset = agent[a].offset /\ row.pc \notin Early
  BY <1>0, Fields DEF Early
<1> HIDE DEF d, row
<1>6. ASSUME NEW b \in Agent PROVE AgentMove(b)
  BY <1>0, <1>3, <1>5 DEF Goto, TypeOK, AgentMove
<1>7. ASSUME NEW b \in Agent, NEW j \in JobId PROVE DirStep(b, j)
  <2>1. CASE b = a /\ j = agent[a].job
    BY <1>0, <1>3, <1>4, <2>1, KeepElsewhere DEF DirStep, Dir
  <2>2. CASE ~(b = a /\ j = agent[a].job)
    BY <1>0, <1>3, <2>2, KeepElsewhere DEF DirStep
  <2> QED
    BY <2>1, <2>2
<1> QED
  BY <1>0, <1>2, <1>3, <1>6, <1>7 DEF LocalStep

LEMMA ProcessLocal ==
  ASSUME Sound, NEW a \in Agent, Process(a)
  PROVE  LocalStep
<1>0. TypeOK /\ Processes /\ agent[a] \in AgentState /\ built \in Nat
  BY BoundsAssumption DEF Sound, TypeOK
<1>1. ASSUME NEW c \in Credential, Install(a, c) PROVE LocalStep
  <2> DEFINE row == [At(a, "off") EXCEPT !.config = sub.config, !.token = c]
  <2>0. At(a, "off") \in AgentState
    BY <1>0, AgentUpdates DEF PC
  <2>1. row.job = agent[a].job /\ row.offset = agent[a].offset /\ row.pc \notin Early
    BY <1>0, <2>0, Fields DEF Early, AgentState
  <2>2. Goto(a, row)
    BY <1>1 DEF Install
  <2> HIDE DEF row
  <2> QED
    BY <1>0, <1>1, <2>1, <2>2, AtLocal DEF Install
<1>2. ASSUME NEW c \in Credential, SetToken(a, c) PROVE LocalStep
  <2> DEFINE row == [agent[a] EXCEPT !.token = c]
  <2>1. row.job = agent[a].job /\ row.offset = agent[a].offset /\ row.pc = agent[a].pc
    BY <1>0 DEF AgentState
  <2>2. Goto(a, row)
    BY <1>2 DEF SetToken
  <2> HIDE DEF row
  <2> QED
    BY <1>0, <1>2, <2>1, <2>2, AtLocal DEF SetToken
<1>3. ASSUME NEW code, Failing(a, code), UNCHANGED <<bundle, built, spool, late>>
      PROVE LocalStep
  <2> DEFINE row == [At(a, "failure") EXCEPT !.code = code]
  <2>1. row.job = agent[a].job /\ row.offset = agent[a].offset /\ row.pc \notin Early
    BY <1>0, Fields, CodeFields DEF Early
  <2>2. Goto(a, row)
    BY <1>3 DEF Failing
  <2> HIDE DEF row
  <2> QED
    BY <1>0, <1>3, <2>1, <2>2, AtLocal
<1>4. ASSUME NEW j \in JobId, Cleanup(a, j) PROVE LocalStep
  <2>1. ASSUME NEW b \in Agent, NEW i \in JobId PROVE DirStep(b, i)
    BY <1>0, <1>4 DEF Cleanup, DirStep, TypeOK
  <2> QED
    BY <1>0, <1>4, <2>1 DEF Cleanup, LocalStep, AgentMove
<1>5. ASSUME NEW pc \in {"claim", "status", "rename", "batch"}, Goto(a, At(a, pc)),
             UNCHANGED <<bundle, built, spool, late>>
      PROVE  LocalStep
  <2> DEFINE row == At(a, pc)
  <2>1. row.job = agent[a].job /\ row.offset = agent[a].offset /\ row.pc \notin Early
    BY <1>0, Fields DEF Early
  <2>2. Goto(a, row)
    BY <1>5
  <2> HIDE DEF row
  <2> QED
    BY <1>0, <1>5, <2>1, <2>2, AtLocal
<1>6. CASE Call(a)
  <2>1. PICK m \in Waiting(a) :
          /\ Serve(m) /\ UNCHANGED <<bundle, built, late>>
          /\ Hear(a, m) \/ UNCHANGED <<agent, spool>>
    BY <1>6 DEF Call
  <2> QED
    BY <1>0, <2>1, HearLocal, StillLocal
<1>7. CASE Abandon(a)
  BY <1>0, <1>7 DEF Abandon, LocalStep, AgentMove, DirStep
<1>8. CASE GiveUp(a)
  BY <1>0, <1>5, <1>8, BackLocal DEF GiveUp
<1>9. CASE Beat(a)
  BY <1>0, <1>9, StillLocal DEF Beat
<1>10. CASE HeartbeatFailed(a)
  BY <1>5, <1>10 DEF HeartbeatFailed
<1>11. CASE Open(a)
  <2>0. UNCHANGED <<bundle, built, late>> /\ agent[a].pc = "open"
    BY <1>11 DEF Open
  <2>1. CASE Goto(a, At(a, "batch")) /\ UNCHANGED spool
    BY <1>5, <2>0, <2>1
  <2>2. CASE Failing(a, "permanent") /\ UNCHANGED spool
    BY <1>3, <2>0, <2>2
  <2>3. CASE Goto(a, At(a, "rename")) /\ UNCHANGED spool
    BY <1>5, <2>0, <2>3
  <2>4. CASE /\ Keep(a, [Dir(a) EXCEPT !.preparing = NoBundle,
                                       !.metadata = NextOffset(agent[a].offset)])
             /\ Goto(a, At(a, "read")) /\ Dir(a).bundle = NoBundle
    <3> DEFINE d == [Dir(a) EXCEPT !.preparing = NoBundle,
                                   !.metadata = NextOffset(agent[a].offset)]
               row == At(a, "read")
    <3>1. /\ row.job = agent[a].job /\ row.offset = agent[a].offset
          /\ agent[a].pc \in Early
      BY <1>0, <2>0, Fields DEF Early
    <3>2. Goto(a, row) /\ Keep(a, d) /\ Written(a, Dir(a), d)
      BY <2>4 DEF Written
    <3> HIDE DEF d, row
    <3> QED
      BY <1>0, <2>0, <3>1, <3>2, AloneLocal
  <2> QED
    BY <1>11, <2>1, <2>2, <2>3, <2>4 DEF Open
<1>12. CASE Read(a)
  BY <1>12, ReadLocal
<1>13. CASE Rename(a)
  <2> DEFINE d == [Dir(a) EXCEPT !.preparing = NoBundle, !.bundle = Dir(a).preparing]
             row == At(a, "batch")
  <2>1. row.job = agent[a].job /\ row.offset = agent[a].offset /\ row.pc \notin Early
    BY <1>0, Fields DEF Early
  <2>2. Dir(a).bundle = NoBundle /\ Dir(a).preparing # NoBundle
    BY <1>0, <1>13 DEF Rename, Processes, Steady
  <2>3. Goto(a, row) /\ Keep(a, d) /\ Written(a, Dir(a), d)
    BY <1>13, <2>2 DEF Rename, Written
  <2>4. UNCHANGED <<bundle, built, late>>
    BY <1>13 DEF Rename
  <2> HIDE DEF d, row
  <2> QED
    BY <1>0, <2>1, <2>3, <2>4, AloneLocal
<1>14. CASE Crash(a)
  BY <1>0, <1>14, BackLocal DEF Crash
<1> QED
  BY <1>1, <1>2, <1>3, <1>4, <1>5, <1>6, <1>7, <1>8, <1>9, <1>10, <1>11, <1>12, <1>13, <1>14
     DEF Process, LocalError, Start

LEMMA LocalSteps ==
  ASSUME Sound, [Next]_vars
  PROVE  LocalStep
<1>0. TypeOK
  BY DEF Sound
<1>1. CASE Owner
  <2>1. LocalUnchanged
    BY <1>1 DEF Owner, Issue, Disconnect, ChangeSelection, CollectNow, CancelJob, SetSchedule,
       RetryFailed, SetPolicy
  <2> QED
    BY <1>0, <2>1, StillLocal DEF LocalUnchanged
<1>2. ASSUME NEW a \in Agent, Process(a) PROVE LocalStep
  BY <1>2, ProcessLocal
<1>3. ASSUME NEW m \in late, Overtaken(m) PROVE LocalStep
  BY <1>0, <1>3, StillLocal DEF Overtaken
<1>4. ASSUME NEW j \in JobId, LeaseEnds(j) PROVE LocalStep
  BY <1>0, <1>4, StillLocal DEF LeaseEnds, LocalUnchanged
<1>5. ASSUME NEW c \in Credential, Expire(c) PROVE LocalStep
  BY <1>0, <1>5, StillLocal DEF Expire, LocalUnchanged
<1>6. CASE UNCHANGED vars
  BY <1>0, <1>6, StillLocal DEF vars
<1> QED
  BY <1>1, <1>2, <1>3, <1>4, <1>5, <1>6 DEF Next

(***************************************************************************)
(* Which steps bind a batch, and which move the rotation.                  *)
(***************************************************************************)
Asked(m) == m \in late \/ \E a \in Agent : m \in Waiting(a) \/ m = RequestFor(a, "heartbeat", 0)

Binds(m) ==
  /\ m.op = "batch" /\ Leased(m) /\ BatchFits(m)
  /\ run'[m.job].uuid = m.uuid /\ job'[m.job].checkpoint = m.checkpoint
  /\ \A j \in JobId \ {m.job} :
       run'[j].uuid = run[j].uuid /\ (New(j) \/ job'[j].checkpoint = job[j].checkpoint)

Finishes(m) ==
  /\ m.op = "finish" /\ Leased(m) /\ run[m.job].uuid # NoBundle /\ Complete(m.job)
  /\ MayRotate(m.job) /\ job'[m.job].status = BatchStatus(m.job)
  /\ sub'.offset = job[m.job].checkpoint /\ sub'.revision = sub.revision

NothingBound ==
  \A j \in JobId : run'[j].uuid = run[j].uuid /\ (New(j) \/ job'[j].checkpoint = job[j].checkpoint)

BatchStep ==
  /\ NothingBound \/ \E m \in Request : Asked(m) /\ Binds(m)
  /\ \/ sub'.offset = sub.offset
     \/ sub'.revision # sub.revision
     \/ NothingBound /\ \E m \in Request : Asked(m) /\ Finishes(m)

LEMMA ServeBound ==
  ASSUME TypeOK, NEW m \in Request, Asked(m), Serve(m)
  PROVE  BatchStep
<1>0. /\ sub \in Subscription /\ job \in [JobId -> JobRow] /\ run \in [JobId -> RunRow]
      /\ Paused.offset = sub.offset
  BY DEF TypeOK, Paused, Subscription
<1>1. Served(m)
  BY ServeServed
<1>2. m.op # "batch" => \A j \in JobId : New(j) \/ job'[j].checkpoint = job[j].checkpoint
  BY <1>1 DEF Served, RowServed
<1>3. CASE Answer(m) = "ok" /\ m.op = "batch" /\ ServeBatch(m)
  <2>1. Leased(m) /\ BatchFits(m) /\ m.job \in JobId
    BY <1>3, LeasedRow DEF Answer, Grants
  <2>2. /\ Renewed(m.job) \in JobRow
        /\ job' = [job EXCEPT ![m.job] = [Renewed(m.job) EXCEPT !.checkpoint = m.checkpoint]]
        /\ run' = [run EXCEPT ![m.job].uuid = m.uuid] /\ sub' = sub
    BY <1>3, <2>1, RenewedRow DEF ServeBatch
  <2>3. [Renewed(m.job) EXCEPT !.checkpoint = m.checkpoint].checkpoint = m.checkpoint
    BY <2>2 DEF JobRow
  <2>4. [run[m.job] EXCEPT !.uuid = m.uuid].uuid = m.uuid
    BY <1>0, <2>1 DEF RunRow
  <2>5. Binds(m)
    BY <1>0, <1>3, <2>1, <2>2, <2>3, <2>4 DEF Binds
  <2> QED
    BY <2>2, <2>5 DEF BatchStep
<1>4. CASE Answer(m) = "ok" /\ m.op = "finish" /\ ServeFinish(m)
  <2>1. /\ Leased(m) /\ m.job \in JobId /\ run[m.job].uuid # NoBundle
        /\ job[m.job].checkpoint # NotYet /\ Complete(m.job)
    BY <1>4, LeasedRow DEF Answer, Grants
  <2>2. run' = [run EXCEPT ![m.job].done = TRUE]
    BY <1>4 DEF ServeFinish
  <2>3. \A j \in JobId : run'[j].uuid = run[j].uuid
    BY <1>0, <2>1, <2>2 DEF RunRow
  <2>4. job'[m.job].status = BatchStatus(m.job)
    BY <1>0, <1>4, <2>1, RenewedRow DEF ServeFinish, JobRow
  <2>5. NothingBound
    BY <1>2, <1>4, <2>3 DEF NothingBound
  <2>6. CASE MayRotate(m.job)
    <3>1. sub'.offset = job[m.job].checkpoint /\ sub'.revision = sub.revision
      BY <1>0, <1>4, <2>6 DEF ServeFinish, Subscription
    <3> QED
      BY <1>4, <2>1, <2>4, <2>5, <2>6, <3>1 DEF BatchStep, Finishes
  <2>7. CASE ~MayRotate(m.job)
    BY <1>0, <1>4, <2>5, <2>7 DEF ServeFinish, BatchStep
  <2> QED
    BY <2>6, <2>7
<1>5. ASSUME m.op # "batch" \/ UNCHANGED job, \A j \in JobId : run'[j].uuid = run[j].uuid,
             sub'.offset = sub.offset
      PROVE  BatchStep
  BY <1>2, <1>5 DEF BatchStep, NothingBound
<1>6. CASE Answer(m) = "ok" /\ m.op = "item" /\ ServeItem(m)
  <2>1. PICK o : run' = [run EXCEPT ![m.job].receipt[m.item] = o]
    BY <1>6 DEF ServeItem
  <2>2. m.job \in JobId /\ sub' = sub
    BY <1>6, LeasedRow DEF Answer, Grants, ServeItem
  <2>3. \A j \in JobId : run'[j].uuid = run[j].uuid
    BY <1>0, <2>1, <2>2 DEF RunRow
  <2> QED
    BY <1>5, <1>6, <2>2, <2>3
<1>7. CASE m.op = "claim"
  <2>1. run' = run
    BY <1>7 DEF Serve, ServeClaim
  <2> QED
    BY <1>5, <1>7, <2>1, ClaimKeepsOffset
<1>8. CASE m.op \in {"failure", "heartbeat", "status"}
  <2>1. run' = run /\ sub'.offset = sub.offset
    BY <1>0, <1>8 DEF Serve, ServeFailure, Disconnected
  <2> QED
    BY <1>5, <1>8, <2>1
<1>9. CASE Answer(m) # "ok"
  <2>1. run' = run /\ count' = count /\ sub'.offset = sub.offset
    BY <1>0, <1>9 DEF Serve, Disconnected
  <2>2. \A j \in JobId : job'[j].checkpoint = job[j].checkpoint
    BY <1>0, <1>9, CancelledJobsRows DEF Serve, Disconnected
  <2> QED
    BY <2>1, <2>2 DEF BatchStep, NothingBound
<1>10. m.op \in Op
  BY DEF Request
<1> QED
  BY <1>3, <1>4, <1>6, <1>7, <1>8, <1>9, <1>10 DEF Serve, Op

LEMMA OwnerBound ==
  ASSUME TypeOK, Owner
  PROVE  BatchStep
<1>0. /\ job \in [JobId -> JobRow] /\ sub \in Subscription /\ count \in 0..MaxJobs
      /\ Paused.offset = sub.offset /\ Paused.revision = sub.revision
      /\ sub.revision \in Nat
  BY DEF TypeOK, Paused, Subscription
<1>1. run' = run
  BY DEF Owner, Issue, Disconnect, ChangeSelection, CollectNow, CancelJob, SetSchedule,
     RetryFailed, SetPolicy
<1>2. ASSUME job' = CancelledJobs \/ job' = job,
             sub'.offset = sub.offset \/ sub'.revision # sub.revision
      PROVE  BatchStep
  BY <1>1, <1>2, CancelledJobsRows DEF BatchStep, NothingBound
<1>3. ASSUME NEW c \in Credential, Issue(c) PROVE BatchStep
  BY <1>0, <1>2, <1>3 DEF Issue, Disconnected
<1>4. CASE Disconnect
  BY <1>0, <1>2, <1>4 DEF Disconnect, Disconnected
<1>5. ASSUME NEW k \in Config, ChangeSelection(k) PROVE BatchStep
  <2>1. Paused \in Subscription
    BY SubUpdates
  <2>2. sub'.revision = sub.revision + 1
    BY <1>0, <1>5, <2>1 DEF ChangeSelection, Subscription
  <2> QED
    BY <1>0, <1>2, <1>5, <2>2 DEF ChangeSelection
<1>6. CASE CollectNow
  <2>1. \A j \in JobId : New(j) \/ job'[j] = job[j]
    BY <1>0, <1>6 DEF CollectNow, New
  <2> QED
    BY <1>1, <1>6, <2>1 DEF CollectNow, BatchStep, NothingBound
<1>7. CASE CancelJob
  BY <1>2, <1>7 DEF CancelJob
<1>8. ASSUME NEW e \in BOOLEAN, SetSchedule(e) PROVE BatchStep
  <2>1. [sub EXCEPT !.enabled = e].offset = sub.offset
    BY <1>0 DEF Subscription
  <2> QED
    BY <1>2, <1>8, <2>1 DEF SetSchedule
<1>9. CASE RetryFailed
  <2>1. count \in JobId /\ Retried(job[count]).checkpoint = job[count].checkpoint
    BY <1>0, <1>9 DEF RetryFailed, JobId, Retried, JobRow
  <2>2. \A j \in JobId : job'[j].checkpoint = job[j].checkpoint
    BY <1>0, <1>9, <2>1 DEF RetryFailed
  <2> QED
    BY <1>1, <1>9, <2>2 DEF RetryFailed, BatchStep, NothingBound
<1>10. ASSUME NEW e \in BOOLEAN, SetPolicy(e) PROVE BatchStep
  BY <1>0, <1>2, <1>10 DEF SetPolicy
<1> QED
  BY <1>3, <1>4, <1>5, <1>6, <1>7, <1>8, <1>9, <1>10 DEF Owner

LEMMA QuietBound ==
  ASSUME UNCHANGED server
  PROVE  BatchStep
BY DEF server, BatchStep, NothingBound

LEMMA BatchSteps ==
  ASSUME Sound, [Next]_vars
  PROVE  BatchStep
<1>0. TypeOK
  BY DEF Sound
<1>1. CASE Owner
  BY <1>0, <1>1, OwnerBound
<1>2. ASSUME NEW a \in Agent, Process(a) PROVE BatchStep
  <2>1. CASE UNCHANGED server
    BY <2>1, QuietBound
  <2>2. CASE \E m \in Waiting(a) : Serve(m)
    BY <1>0, <2>2, ServeBound, WaitingTypes DEF Asked
  <2>3. CASE /\ Serve(RequestFor(a, "heartbeat", 0))
             /\ RequestFor(a, "heartbeat", 0) \in Request
    BY <1>0, <2>3, ServeBound DEF Asked
  <2> QED
    BY <1>2, <2>1, <2>2, <2>3, ProcessCases
<1>3. ASSUME NEW m \in late, Overtaken(m) PROVE BatchStep
  BY <1>0, <1>3, ServeBound DEF Overtaken, TypeOK, Asked
<1>4. ASSUME NEW j \in JobId, LeaseEnds(j) PROVE BatchStep
  <2>1. \A i \in JobId : job'[i].checkpoint = job[i].checkpoint
    BY <1>0, <1>4 DEF LeaseEnds, TypeOK, JobRow
  <2> QED
    BY <1>4, <2>1 DEF LeaseEnds, BatchStep, NothingBound
<1>5. ASSUME NEW c \in Credential, Expire(c) PROVE BatchStep
  BY <1>5 DEF Expire, BatchStep, NothingBound
<1>6. CASE UNCHANGED vars
  BY <1>6, QuietBound DEF vars, server
<1> QED
  BY <1>1, <1>2, <1>3, <1>4, <1>5, <1>6 DEF Next

(***************************************************************************)
(* The spools.                                                             *)
(***************************************************************************)
\* Nothing is kept, asked or done for a job that is not there yet.
Young ==
  /\ \A a \in Agent : agent[a].job <= count
  /\ \A a \in Agent, j \in JobId : j > count => spool[a][j] = NoDirectory
  /\ \A m \in late : m.job <= count

\* A bundle, once made, stands for one window and the checkpoint after it.
Made ==
  /\ \A a \in Agent, j \in JobId :
       \A u \in {spool[a][j].bundle, spool[a][j].preparing} \ {NoBundle} :
         u <= built /\ spool[a][j].metadata = NextOffset(bundle[u].base)
  /\ \A j \in JobId : run[j].uuid <= built

\* While a job can go on, whatever is prepared for it starts where the rotation
\* stands; its bound batch may also have moved the rotation already.
Windows ==
  \A j \in JobId : Recoverable(j) =>
    IF run[j].uuid = NoBundle
    THEN /\ job[j].checkpoint = NotYet
         /\ \A a \in Agent :
              /\ agent[a].job = j /\ agent[a].pc \in Early => agent[a].offset = sub.offset
              /\ \A u \in {spool[a][j].bundle, spool[a][j].preparing} \ {NoBundle} :
                   bundle[u].base = sub.offset
    ELSE /\ job[j].checkpoint = NextOffset(Manifest(j).base)
         /\ sub.offset \in {Manifest(j).base, job[j].checkpoint}

\* An upload still under way is of a batch its agent still has.
LateBatches ==
  \A m \in late : m.op = "batch" =>
    /\ m.job \in JobId /\ m.uuid # NoBundle
    /\ Recoverable(m.job) => /\ spool[m.agent][m.job].bundle = m.uuid
                             /\ spool[m.agent][m.job].metadata = m.checkpoint

Kept == Young /\ MarkersAreTrue /\ Made /\ Windows /\ LateBatches /\ BoundBatchHasSpool

LEMMA Numbers ==
  ASSUME Sound
  PROVE  /\ count \in Nat /\ built \in Nat /\ sub.revision \in Nat /\ sub.offset \in Thread
         /\ \A j \in JobId : j \in Nat /\ job[j] \in JobRow /\ job[j].revision \in Nat
                             /\ run[j].uuid \in Bundle \cup {NoBundle}
         /\ \A a \in Agent : agent[a].job \in Nat
         /\ \A a \in Agent, j \in JobId :
              /\ spool[a][j] \in Directory
              /\ spool[a][j].bundle \in Bundle \cup {NoBundle}
              /\ spool[a][j].preparing \in Bundle \cup {NoBundle}
         /\ \A u \in Bundle : u \in Nat /\ u # NoBundle
         /\ NoBundle = 0
<1>1. TypeOK
  BY DEF Sound
<1>2. /\ count \in Nat /\ built \in Nat /\ sub.revision \in Nat /\ sub.offset \in Thread
  BY <1>1, BoundsAssumption DEF TypeOK, Subscription
<1>3. \A j \in JobId : j \in Nat /\ job[j] \in JobRow /\ job[j].revision \in Nat
                       /\ run[j].uuid \in Bundle \cup {NoBundle}
  BY <1>1 DEF TypeOK, JobId, JobRow, RunRow
<1>4. \A a \in Agent : agent[a].job \in Nat
  BY <1>1 DEF TypeOK, AgentState, JobId
<1>5. \A a \in Agent, j \in JobId :
              /\ spool[a][j] \in Directory
              /\ spool[a][j].bundle \in Bundle \cup {NoBundle}
              /\ spool[a][j].preparing \in Bundle \cup {NoBundle}
  BY <1>1 DEF TypeOK, Directory
<1> QED
  BY <1>2, <1>3, <1>4, <1>5 DEF Bundle, NoBundle

LEMMA RecoverableIsLatest ==
  ASSUME Ordered, NEW j \in JobId, Recoverable(j)
  PROVE  j = count /\ job[j].status \notin Lasting
BY DEF Recoverable, Ordered, Active, Retryable, ACTIVE, Lasting

\* A job that can go on after a step could before, unless it is new.
LEMMA RecoverableStays ==
  ASSUME Sound, Ordered, [Next]_vars, NEW j \in JobId, Recoverable(j)', ~New(j)
  PROVE  /\ Recoverable(j) /\ count' = count /\ sub'.revision = sub.revision
<1>0. /\ JobsStep /\ RowStep(j) /\ Ordered' /\ count' \in {count, count + 1}
  BY JobsSteps, OrderedStep DEF JobsStep
<1>1. j = count'
  BY <1>0 DEF Recoverable, Retryable, Ordered, Active
<1>2. count' = count
  BY <1>1 DEF New
<1>3. job'[j].status \in ACTIVE \/ (job'[j].status = "failed" /\ job'[j].revision = sub'.revision)
  BY DEF Recoverable, Retryable
<1>4. job[j].revision <= sub.revision /\ job'[j].revision = job[j].revision
      /\ job[j].revision \in Nat /\ sub.revision \in Nat
  BY <1>0, Numbers DEF Ordered, RowStep
<1>5. sub'.revision = sub.revision
  BY <1>0, <1>3, <1>4 DEF JobsStep
<1>6. Recoverable(j)
  <2>1. CASE job'[j] = job[j]
    BY <1>1, <1>2, <1>3, <1>5, <2>1 DEF Recoverable, Retryable
  <2>2. CASE Active(j) \/ (j = count /\ Retryable(j))
    BY <2>2 DEF Recoverable, Active
  <2> QED
    BY <1>0, <2>1, <2>2 DEF RowStep
<1> QED
  BY <1>2, <1>5, <1>6

LEMMA LastingStays ==
  ASSUME Sound, Ordered, [Next]_vars, NEW j \in JobId, job[j].status \in Lasting
  PROVE  job'[j] = job[j] /\ ~New(j)
<1>1. RowStep(j) /\ count' \in {count, count + 1} /\ count \in Nat /\ j \in Nat
  BY JobsSteps, Numbers DEF JobsStep
<1>2. ~Active(j) /\ ~Retryable(j)
  BY DEF Active, Retryable, ACTIVE, Lasting
<1>3. ~New(j)
  <2>1. SUFFICES ASSUME New(j) PROVE FALSE
    OBVIOUS
  <2>2. j > count
    BY <1>1, <2>1 DEF New
  <2>3. job[j] = NoJob
    BY <2>2 DEF Ordered
  <2> QED
    BY <2>3 DEF NoJob, Lasting
<1> QED
  BY <1>1, <1>2, <1>3 DEF RowStep

\* A batch of a job that can go on stays in its spool as it was frozen.
LEMMA HeldStays ==
  ASSUME Sound, Ordered, MarkersAreTrue, [Next]_vars, NEW a \in Agent, NEW j \in JobId,
         Recoverable(j), spool[a][j].bundle # NoBundle
  PROVE  /\ spool'[a][j].bundle = spool[a][j].bundle
         /\ spool'[a][j].metadata = spool[a][j].metadata
<1>1. DirStep(a, j) /\ spool[a][j] \in Directory
  BY LocalSteps, Numbers DEF LocalStep
<1>2. ~Removable(spool[a][j])
  BY RecoverableIsLatest DEF MarkersAreTrue, Removable
<1>3. ~Written(a, spool[a][j], spool'[a][j])
  BY DEF Written
<1> QED
  BY <1>1, <1>2, <1>3 DEF DirStep, Directory

LEMMA YoungStep ==
  ASSUME Sound, Ordered, Young, [Next]_vars
  PROVE  Young'
<1>0. /\ LocalStep /\ JobsStep /\ Ordered' /\ TypeOK /\ Processes
      /\ count' \in {count, count + 1} /\ count \in Nat
      /\ \A j \in JobId : j \in Nat
  BY LocalSteps, JobsSteps, OrderedStep, Numbers DEF JobsStep, Sound
<1>1. ASSUME NEW a \in Agent PROVE agent'[a].job <= count'
  <2>1. AgentMove(a) /\ agent[a].job <= count /\ agent[a].job \in Nat
    BY <1>0, Numbers DEF LocalStep, Young
  <2>2. CASE agent'[a].job \in JobId /\ job'[agent'[a].job].status = "running"
    BY <1>0, <2>2 DEF Ordered, Active, ACTIVE
  <2>3. CASE agent'[a].job \in {0, agent[a].job}
    BY <1>0, <2>1, <2>3
  <2> QED
    BY <2>1, <2>2, <2>3 DEF AgentMove
<1>2. ASSUME NEW a \in Agent, NEW j \in JobId, j > count' PROVE spool'[a][j] = NoDirectory
  <2>1. DirStep(a, j) /\ j > count /\ agent[a].job <= count /\ agent[a].job \in Nat
    BY <1>0, <1>2, Numbers DEF LocalStep, Young
  <2>2. j # agent[a].job /\ spool[a][j] = NoDirectory
    BY <1>0, <2>1 DEF Young
  <2> QED
    BY <2>1, <2>2 DEF DirStep
<1>3. ASSUME NEW m \in late' PROVE m.job <= count'
  <2>1. CASE m \in late
    <3>1. m.job \in Nat /\ m.job <= count
      BY <1>0, <2>1 DEF TypeOK, Request, JobId, Young
    <3> QED
      BY <1>0, <3>1
  <2>2. CASE m \notin late
    <3>1. PICK a \in Agent : m \in Waiting(a)
      BY <1>0, <2>2 DEF LocalStep
    <3>2. m.job = agent[a].job /\ agent[a].job <= count /\ agent[a].job \in Nat
      BY <1>0, <3>1, WaitingAt, Numbers DEF Young
    <3> QED
      BY <1>0, <3>2
  <2> QED
    BY <2>1, <2>2
<1> QED
  BY <1>1, <1>2, <1>3 DEF Young

LEMMA MarkersStep ==
  ASSUME Sound, Ordered, Young, MarkersAreTrue, [Next]_vars
  PROVE  MarkersAreTrue'
<1>1. ASSUME NEW a \in Agent, NEW j \in JobId, spool'[a][j].terminal \in Lasting
      PROVE  job'[j].status = spool'[a][j].terminal
  <2>1. DirStep(a, j) /\ spool[a][j] \in Directory
    BY LocalSteps, Numbers DEF LocalStep
  <2>2. CASE spool'[a][j].terminal = spool[a][j].terminal
    BY <1>1, <2>2, LastingStays DEF MarkersAreTrue
  <2>3. CASE spool'[a][j] = NoDirectory
    BY <1>1, <2>3 DEF NoDirectory, Lasting
  <2>4. CASE spool'[a][j] = [spool[a][j] EXCEPT !.terminal = job'[j].status]
    BY <2>1, <2>4 DEF Directory
  <2>5. CASE Written(a, spool[a][j], spool'[a][j])
    BY <2>1, <2>2, <2>5 DEF Written, Directory
  <2> QED
    BY <2>1, <2>2, <2>3, <2>4, <2>5 DEF DirStep
<1> QED
  BY <1>1 DEF MarkersAreTrue

\* Who asks for a batch to be bound to a job has it.
LEMMA BinderHolds ==
  ASSUME Sound, Ordered, LateBatches, NEW m \in Request, Asked(m), Binds(m)
  PROVE  /\ m.job \in JobId /\ Recoverable(m.job) /\ m.agent \in Agent
         /\ m.uuid \in Bundle
         /\ spool[m.agent][m.job].bundle = m.uuid
         /\ spool[m.agent][m.job].metadata = m.checkpoint
<1>0. /\ TypeOK /\ Processes /\ m.op = "batch" /\ m.job \in JobId /\ Recoverable(m.job)
      /\ m.agent \in Agent /\ m.uuid \in Bundle \cup {NoBundle}
  BY LeasedRow DEF Sound, Binds, Request, Recoverable, Active
<1>1. CASE m \in late
  BY <1>0, <1>1 DEF LateBatches
<1>2. ASSUME NEW a \in Agent, m \in Waiting(a)
      PROVE  m.uuid # NoBundle /\ spool[m.agent][m.job].bundle = m.uuid
             /\ spool[m.agent][m.job].metadata = m.checkpoint
  BY <1>0, <1>2, WaitingAt DEF Dir
<1>3. ASSUME NEW a \in Agent, m = RequestFor(a, "heartbeat", 0) PROVE FALSE
  BY <1>0, <1>3 DEF RequestFor
<1> QED
  BY <1>0, <1>1, <1>2, <1>3 DEF Asked, LateBatches

LEMMA MadeStep ==
  ASSUME Sound, Ordered, Made, LateBatches, [Next]_vars
  PROVE  Made'
<1>0. LocalStep /\ BatchStep /\ built \in Nat /\ built' \in Nat /\ built <= built'
  BY LocalSteps, BatchSteps, Numbers DEF LocalStep
<1>1. ASSUME NEW a \in Agent, NEW j \in JobId, NEW u,
             u \in {spool'[a][j].bundle, spool'[a][j].preparing} \ {NoBundle}
      PROVE  u <= built' /\ spool'[a][j].metadata = NextOffset(bundle'[u].base)
  <2>0. /\ DirStep(a, j) /\ spool[a][j] \in Directory
        /\ spool[a][j].bundle \in Bundle \cup {NoBundle}
        /\ spool[a][j].preparing \in Bundle \cup {NoBundle}
        /\ \A v \in Bundle : v \in Nat
    BY <1>0, Numbers DEF LocalStep
  <2>1. CASE /\ u \in {spool[a][j].bundle, spool[a][j].preparing}
             /\ spool'[a][j].metadata = spool[a][j].metadata
    <3>1. u \in Bundle /\ u <= built /\ spool[a][j].metadata = NextOffset(bundle[u].base)
      BY <1>1, <2>0, <2>1 DEF Made
    <3>2. bundle'[u] = bundle[u]
      BY <1>0, <3>1 DEF LocalStep
    <3> QED
      BY <1>0, <2>0, <2>1, <3>1, <3>2
  <2>2. CASE spool'[a][j] = NoDirectory
    BY <1>1, <2>2 DEF NoDirectory
  <2>3. CASE spool'[a][j] = [spool[a][j] EXCEPT !.terminal = job'[j].status]
    BY <1>1, <2>0, <2>1, <2>3 DEF Directory
  <2>4. CASE Written(a, spool[a][j], spool'[a][j])
    <3>1. CASE /\ spool[a][j].bundle = NoBundle
               /\ spool'[a][j] = [spool[a][j] EXCEPT !.preparing = NoBundle,
                                                     !.metadata = NextOffset(agent[a].offset)]
      BY <1>1, <2>0, <3>1 DEF Directory
    <3>2. CASE /\ spool[a][j].bundle = NoBundle
               /\ spool[a][j].metadata = NextOffset(agent[a].offset)
               /\ built' = built + 1 /\ bundle'[built + 1].base = agent[a].offset
               /\ spool'[a][j] = [spool[a][j] EXCEPT !.preparing = built + 1]
      <4>1. u = built + 1
        BY <1>1, <2>0, <3>2 DEF Directory
      <4>2. spool'[a][j].metadata = spool[a][j].metadata
        BY <2>0, <3>2 DEF Directory
      <4> QED
        BY <1>0, <3>2, <4>1, <4>2
    <3>3. CASE spool'[a][j] = [spool[a][j] EXCEPT !.preparing = NoBundle,
                                                  !.bundle = spool[a][j].preparing]
      BY <1>1, <2>0, <2>1, <3>3 DEF Directory
    <3> QED
      BY <2>4, <3>1, <3>2, <3>3 DEF Written
  <2> QED
    BY <2>0, <2>1, <1>1, <2>2, <2>3, <2>4 DEF DirStep
<1>2. ASSUME NEW j \in JobId PROVE run'[j].uuid <= built'
  <2>0. run[j].uuid <= built /\ run[j].uuid \in Nat
    BY Numbers DEF Made
  <2>1. CASE run'[j].uuid = run[j].uuid
    BY <1>0, <2>0, <2>1
  <2>2. CASE run'[j].uuid # run[j].uuid
    <3>1. PICK m \in Request : Asked(m) /\ Binds(m)
      BY <1>0, <2>2 DEF BatchStep, NothingBound
    <3>2. j = m.job /\ run'[j].uuid = m.uuid
      BY <2>2, <3>1 DEF Binds
    <3>3. m.agent \in Agent /\ m.uuid \in Bundle /\ spool[m.agent][j].bundle = m.uuid
      BY <3>1, <3>2, BinderHolds
    <3>4. m.uuid <= built /\ m.uuid \in Nat
      BY <3>3, Numbers DEF Made
    <3> QED
      BY <1>0, <3>2, <3>4
  <2> QED
    BY <2>1, <2>2
<1> QED
  BY <1>1, <1>2 DEF Made

LEMMA LateStep ==
  ASSUME Sound, Ordered, Young, MarkersAreTrue, LateBatches, [Next]_vars
  PROVE  LateBatches'
<1>0. LocalStep /\ TypeOK /\ Processes /\ count \in Nat /\ count' \in {count, count + 1}
  BY LocalSteps, JobsSteps, Numbers DEF Sound, JobsStep
<1>1. ASSUME NEW m \in late', m.op = "batch"
      PROVE  /\ m.job \in JobId /\ m.uuid # NoBundle
             /\ Recoverable(m.job)' => /\ spool'[m.agent][m.job].bundle = m.uuid
                                       /\ spool'[m.agent][m.job].metadata = m.checkpoint
  <2>1. /\ m.job \in JobId /\ m.uuid # NoBundle /\ m.agent \in Agent /\ m.job <= count
        /\ Recoverable(m.job) => /\ spool[m.agent][m.job].bundle = m.uuid
                                 /\ spool[m.agent][m.job].metadata = m.checkpoint
    <3>1. CASE m \in late
      BY <1>0, <1>1, <3>1 DEF LateBatches, Young, TypeOK, Request
    <3>2. CASE m \notin late
      <4>1. PICK a \in Agent : m \in Waiting(a)
        BY <1>0, <3>2 DEF LocalStep
      <4>2. m.job = agent[a].job /\ agent[a].job <= count
        BY <1>0, <4>1, WaitingAt DEF Young
      <4> QED
        BY <1>0, <1>1, <4>1, <4>2, WaitingAt DEF Dir
    <3> QED
      BY <3>1, <3>2
  <2>2. ASSUME Recoverable(m.job)' PROVE Recoverable(m.job)
    <3>1. ~New(m.job)
      BY <1>0, <2>1, Numbers DEF New
    <3> QED
      BY <2>1, <2>2, <3>1, RecoverableStays
  <2> QED
    BY <2>1, <2>2, HeldStays
<1> QED
  BY <1>1 DEF LateBatches

LEMMA CustodyStep ==
  ASSUME Sound, Ordered, MarkersAreTrue, LateBatches, BoundBatchHasSpool, Windows, [Next]_vars
  PROVE  BoundBatchHasSpool'
<1>0. BatchStep /\ JobsStep /\ count \in Nat
  BY BatchSteps, JobsSteps, Numbers
<1>1. ASSUME NEW j \in JobId, Recoverable(j)', run'[j].uuid # NoBundle
      PROVE  \E a \in Agent : /\ spool'[a][j].bundle = run'[j].uuid
                              /\ spool'[a][j].metadata = job'[j].checkpoint
  <2>1. ~New(j)
    <3>1. SUFFICES ASSUME New(j) PROVE FALSE
      OBVIOUS
    <3>2. j > count
      BY <1>0, <3>1 DEF New, JobsStep
    <3>3. job[j] = NoJob /\ run[j] = NoRun
      BY <3>2 DEF Ordered
    <3>4. run'[j] = NoRun
      BY <1>0, <3>3 DEF JobsStep, Active, NoJob, ACTIVE
    <3> QED
      BY <1>1, <3>4 DEF NoRun
  <2>2. Recoverable(j)
    BY <1>1, <2>1, RecoverableStays
  <2>3. CASE run'[j].uuid = run[j].uuid /\ job'[j].checkpoint = job[j].checkpoint
    <3>1. PICK a \in Agent : /\ spool[a][j].bundle = run[j].uuid
                             /\ spool[a][j].metadata = job[j].checkpoint
      BY <1>1, <2>2, <2>3 DEF BoundBatchHasSpool
    <3> QED
      BY <1>1, <2>2, <2>3, <3>1, HeldStays
  <2>4. CASE ~(run'[j].uuid = run[j].uuid /\ job'[j].checkpoint = job[j].checkpoint)
    <3>1. PICK m \in Request : Asked(m) /\ Binds(m)
      BY <1>0, <2>1, <2>4 DEF BatchStep, NothingBound
    <3>2. j = m.job
      BY <2>1, <2>4, <3>1 DEF Binds
    <3>3. run'[j].uuid = m.uuid /\ job'[j].checkpoint = m.checkpoint
      BY <3>1, <3>2 DEF Binds
    <3>4. /\ m.agent \in Agent /\ spool[m.agent][j].bundle = m.uuid /\ m.uuid # NoBundle
          /\ spool[m.agent][j].metadata = m.checkpoint
      BY <1>1, <3>1, <3>2, <3>3, BinderHolds
    <3> QED
      BY <2>2, <3>3, <3>4, HeldStays
  <2> QED
    BY <2>3, <2>4
<1> QED
  BY <1>1 DEF BoundBatchHasSpool

LEMMA NextOffsetIsThread ==
  ASSUME NEW o \in Thread
  PROVE  NextOffset(o) \in Thread /\ NextOffset(o) # NotYet
BY OffsetTypes, Constants

\* A finish that moves the rotation is of the batch the rotation waits for.
LEMMA FinishMoves ==
  ASSUME Sound, Ordered, Windows, NEW m \in Request, Finishes(m)
  PROVE  /\ m.job \in JobId /\ Recoverable(m.job) /\ run[m.job].uuid # NoBundle
         /\ job[m.job].status = "running"
         /\ job[m.job].checkpoint = NextOffset(Manifest(m.job).base)
         /\ sub'.offset = job[m.job].checkpoint
         /\ sub.offset \in {Manifest(m.job).base, job[m.job].checkpoint}
BY LeasedRow DEF Sound, Finishes, Recoverable, Active, Windows

\* What a directory may come to hold for a job that has no batch yet.
LEMMA PreparedStay ==
  ASSUME Sound, Ordered, Windows, Made, [Next]_vars, NEW j \in JobId, Recoverable(j),
         run[j].uuid = NoBundle, NEW a \in Agent,
         NEW u \in {spool'[a][j].bundle, spool'[a][j].preparing} \ {NoBundle}
  PROVE  bundle'[u].base = sub.offset
<1>0. /\ DirStep(a, j) /\ spool[a][j] \in Directory /\ LocalStep
      /\ spool[a][j].bundle \in Bundle \cup {NoBundle}
      /\ spool[a][j].preparing \in Bundle \cup {NoBundle}
  BY LocalSteps, Numbers DEF LocalStep
<1>1. CASE u \in {spool[a][j].bundle, spool[a][j].preparing}
  <2>1. u \in Bundle /\ u <= built /\ bundle[u].base = sub.offset
    BY <1>0, <1>1 DEF Made, Windows
  <2> QED
    BY <1>0, <2>1 DEF LocalStep
<1>2. CASE spool'[a][j] = NoDirectory
  BY <1>2 DEF NoDirectory
<1>3. CASE spool'[a][j] = [spool[a][j] EXCEPT !.terminal = job'[j].status]
  BY <1>0, <1>1, <1>3 DEF Directory
<1>4. CASE j = agent[a].job /\ Written(a, spool[a][j], spool'[a][j])
  <2>1. CASE spool'[a][j] = [spool[a][j] EXCEPT !.preparing = NoBundle,
                                                 !.metadata = NextOffset(agent[a].offset)]
    BY <1>0, <1>1, <2>1 DEF Directory
  <2>2. CASE /\ agent[a].pc = "read" /\ bundle'[built + 1].base = agent[a].offset
             /\ spool'[a][j] = [spool[a][j] EXCEPT !.preparing = built + 1]
    <3>1. u = built + 1 \/ u = spool[a][j].bundle
      BY <1>0, <2>2 DEF Directory
    <3>2. agent[a].offset = sub.offset
      BY <1>4, <2>2 DEF Windows, Early
    <3> QED
      BY <1>1, <2>2, <3>1, <3>2
  <2>3. CASE spool'[a][j] = [spool[a][j] EXCEPT !.preparing = NoBundle,
                                                 !.bundle = spool[a][j].preparing]
    BY <1>0, <1>1, <2>3 DEF Directory
  <2> QED
    BY <1>4, <2>1, <2>2, <2>3 DEF Written
<1> QED
  BY <1>0, <1>1, <1>2, <1>3, <1>4 DEF DirStep

LEMMA WindowsStep ==
  ASSUME Sound, Ordered, Young, Made, LateBatches, Windows, [Next]_vars
  PROVE  Windows'
<1>0. /\ BatchStep /\ JobsStep /\ LocalStep /\ count \in Nat /\ sub.offset \in Thread
      /\ \A a \in Agent : AgentMove(a)
      /\ count' \in {count, count + 1}
  BY BatchSteps, JobsSteps, LocalSteps, Numbers DEF LocalStep, JobsStep
<1> DEFINE Window1(j) ==
      IF run'[j].uuid = NoBundle
      THEN /\ job'[j].checkpoint = NotYet
           /\ \A a \in Agent :
                /\ agent'[a].job = j /\ agent'[a].pc \in Early => agent'[a].offset = sub'.offset
                /\ \A u \in {spool'[a][j].bundle, spool'[a][j].preparing} \ {NoBundle} :
                     bundle'[u].base = sub'.offset
      ELSE /\ job'[j].checkpoint = NextOffset(bundle'[run'[j].uuid].base)
           /\ sub'.offset \in {bundle'[run'[j].uuid].base, job'[j].checkpoint}
<1>1. ASSUME NEW j \in JobId, New(j) PROVE Window1(j)
  <2>1. j > count /\ job[j] = NoJob /\ run[j] = NoRun /\ j # 0
    BY <1>0, <1>1, Constants DEF New, Ordered
  <2>2. run'[j] = NoRun /\ job'[j].checkpoint = NotYet
    BY <1>0, <1>1, <2>1 DEF JobsStep, RowStep, Active, NoJob, ACTIVE
  <2>3. ASSUME NEW a \in Agent, agent'[a].job = j, agent'[a].pc \in Early
        PROVE  agent'[a].offset = sub'.offset
    <3>1. agent[a].job # j
      BY <2>1, Numbers DEF Young
    <3>2. agent'[a].pc \in InJob
      BY <2>3 DEF Early, InJob
    <3> QED
      BY <1>0, <2>1, <2>3, <3>1, <3>2 DEF AgentMove
  <2>4. ASSUME NEW a \in Agent PROVE spool'[a][j] = NoDirectory
    <3>1. DirStep(a, j) /\ spool[a][j] = NoDirectory /\ j # agent[a].job
      BY <1>0, <2>1, Numbers DEF LocalStep, Young
    <3> QED
      BY <3>1 DEF DirStep
  <2> QED
    BY <2>2, <2>3, <2>4 DEF NoRun, NoDirectory
<1>2. ASSUME NEW j \in JobId, Recoverable(j)', ~New(j) PROVE Window1(j)
  <2>0. /\ Recoverable(j) /\ sub'.revision = sub.revision /\ j # 0
        /\ run[j].uuid \in Bundle \cup {NoBundle} /\ run[j].uuid <= built
    BY <1>2, RecoverableStays, Constants, Numbers DEF Made
  <2>1. run[j].uuid # NoBundle => bundle'[run[j].uuid] = bundle[run[j].uuid]
    BY <1>0, <2>0 DEF LocalStep
  <2>2. CASE sub'.offset # sub.offset
    <3>1. PICK m \in Request : Finishes(m)
      BY <1>0, <2>0, <2>2 DEF BatchStep
    <3>2. NothingBound
      BY <1>0, <2>0, <2>2 DEF BatchStep
    <3>3. m.job = j
      BY <2>0, <3>1, FinishMoves, RecoverableIsLatest
    <3>4. run'[j].uuid = run[j].uuid /\ job'[j].checkpoint = job[j].checkpoint
      BY <1>2, <3>2 DEF NothingBound
    <3> QED
      BY <2>1, <3>1, <3>3, <3>4, FinishMoves DEF Manifest
  <2>3. CASE /\ sub'.offset = sub.offset
             /\ run'[j].uuid = run[j].uuid /\ job'[j].checkpoint = job[j].checkpoint
    <3>1. CASE run[j].uuid # NoBundle
      BY <2>0, <2>1, <2>3, <3>1 DEF Windows, Manifest
    <3>2. CASE run[j].uuid = NoBundle
      <4>1. job'[j].checkpoint = NotYet
        BY <2>0, <2>3, <3>2 DEF Windows
      <4>2. ASSUME NEW a \in Agent, agent'[a].job = j, agent'[a].pc \in Early
            PROVE  agent'[a].offset = sub'.offset
        <5>1. agent'[a].pc \in InJob
          BY <4>2 DEF Early, InJob
        <5> QED
          BY <1>0, <2>0, <2>3, <3>2, <4>2, <5>1 DEF AgentMove, Windows
      <4>3. ASSUME NEW a \in Agent,
                   NEW u \in {spool'[a][j].bundle, spool'[a][j].preparing} \ {NoBundle}
            PROVE  bundle'[u].base = sub'.offset
        BY <2>0, <2>3, <3>2, PreparedStay
      <4> QED
        BY <2>3, <3>2, <4>1, <4>2, <4>3
    <3> QED
      BY <3>1, <3>2
  <2>4. CASE /\ sub'.offset = sub.offset
             /\ ~(run'[j].uuid = run[j].uuid /\ job'[j].checkpoint = job[j].checkpoint)
    <3>1. PICK m \in Request : Asked(m) /\ Binds(m)
      BY <1>0, <1>2, <2>4 DEF BatchStep, NothingBound
    <3>2. j = m.job /\ run'[j].uuid = m.uuid /\ job'[j].checkpoint = m.checkpoint
      BY <1>2, <2>4, <3>1 DEF Binds
    <3>3. /\ m.uuid \in Bundle /\ m.uuid # NoBundle /\ m.agent \in Agent
          /\ spool[m.agent][j].bundle = m.uuid /\ spool[m.agent][j].metadata = m.checkpoint
      BY <3>1, <3>2, BinderHolds, Numbers
    <3>4. m.uuid <= built /\ m.checkpoint = NextOffset(bundle[m.uuid].base)
      BY <3>3 DEF Made
    <3>5. bundle'[m.uuid] = bundle[m.uuid]
      BY <1>0, <3>3, <3>4 DEF LocalStep
    <3>6. CASE run[j].uuid = NoBundle
      <4>1. bundle[m.uuid].base = sub.offset
        BY <2>0, <3>3, <3>6 DEF Windows
      <4> QED
        BY <2>4, <3>2, <3>3, <3>4, <3>5, <4>1
    <3>7. CASE run[j].uuid # NoBundle
      <4>1. run[j].uuid = m.uuid
        BY <3>1, <3>2, <3>7 DEF Binds, BatchFits
      <4> QED
        BY <2>0, <2>4, <3>2, <3>3, <3>4, <3>5, <3>7, <4>1 DEF Windows, Manifest
    <3> QED
      BY <3>6, <3>7
  <2> QED
    BY <2>2, <2>3, <2>4
<1>3. \A j \in JobId : Recoverable(j)' => Window1(j)
  BY <1>1, <1>2
<1> QED
  BY <1>3 DEF Windows, Manifest

LEMMA KeptHolds == Spec => [](Sound /\ Ordered /\ Kept)
<1>1. Init => Kept
  <2> SUFFICES ASSUME Init PROVE Kept
    OBVIOUS
  <2>1. /\ count = 0 /\ built = 0 /\ late = {}
        /\ \A a \in Agent : agent[a].job = 0 /\ agent[a].pc = "none"
        /\ \A a \in Agent, j \in JobId : spool[a][j] = NoDirectory
        /\ \A j \in JobId : job[j] = NoJob /\ run[j] = NoRun
    BY DEF Init, NotInstalled
  <2>2. \A j \in JobId : ~Recoverable(j)
    BY <2>1 DEF Recoverable, Retryable, NoJob, ACTIVE
  <2>3. 0 <= 0
    OBVIOUS
  <2>4. Young /\ LateBatches /\ Windows /\ BoundBatchHasSpool
    BY <2>1, <2>2, <2>3 DEF Young, LateBatches, Windows, BoundBatchHasSpool
  <2>5. MarkersAreTrue /\ Made
    BY <2>1, <2>3 DEF MarkersAreTrue, Made, NoDirectory, NoRun, NoBundle, Lasting
  <2> QED
    BY <2>4, <2>5 DEF Kept
<1>2. Sound /\ Ordered /\ Kept /\ [Next]_vars => Kept'
  BY YoungStep, MarkersStep, MadeStep, LateStep, CustodyStep, WindowsStep DEF Kept
<1> QED
  BY <1>1, <1>2, OrderedHolds, PTL DEF Spec

\* Of a batch that can be continued there is a spool that holds it, unchanged.
THEOREM BatchesKept == Spec => []BoundBatchHasSpool
<1>1. Kept => BoundBatchHasSpool
  BY DEF Kept
<1> QED
  BY <1>1, KeptHolds, PTL

\* No agent believes that a job ended in a way it did not.
THEOREM MarkersTrue == Spec => []MarkersAreTrue
<1>1. Kept => MarkersAreTrue
  BY DEF Kept
<1> QED
  BY <1>1, KeptHolds, PTL

\* What a finished batch must have come to for the rotation to move.
LEMMA RotatedIsSaved ==
  ASSUME Sound, NEW j \in JobId, Complete(j), MayRotate(j)
  PROVE  \A i \in Manifest(j).items : i \in Thread => run[j].receipt[i] = "saved"
<1>1. ~Spoiled(j)
  BY DEF MayRotate, BatchStatus
<1>2. ASSUME NEW i \in Manifest(j).items, i \in Thread PROVE run[j].receipt[i] = "saved"
  <2>1. run[j].receipt[i] \in {"none", "saved", "blocked", "failed"}
    BY <1>2 DEF Sound, TypeOK, RunRow
  <2> QED
    BY <1>1, <1>2, <2>1 DEF Spoiled, Received, Complete
<1> QED
  BY <1>2

\* Threads are never left out of a rotation, nor is one counted that failed.
THEOREM NothingSkipped == Spec => RotationSkipsNothing
<1>1. ASSUME Sound, Ordered, Kept, [Next]_vars, sub'.offset # sub.offset,
             sub'.revision = sub.revision
      PROVE  \E j \in JobId :
               /\ job[j].status = "running" /\ job'[j].status \in Lasting \cup {"failed"}
               /\ Manifest(j).base = sub.offset
               /\ sub'.offset = NextOffset(sub.offset)
               /\ \A i \in Manifest(j).items : run[j].receipt[i] = "saved"
  <2>1. PICK m \in Request : Finishes(m)
    BY <1>1, BatchSteps DEF BatchStep
  <2>2. /\ m.job \in JobId /\ job[m.job].status = "running"
        /\ job[m.job].checkpoint = NextOffset(Manifest(m.job).base)
        /\ sub'.offset = job[m.job].checkpoint
        /\ sub.offset \in {Manifest(m.job).base, job[m.job].checkpoint}
        /\ run[m.job].uuid # NoBundle
    BY <1>1, <2>1, FinishMoves DEF Kept
  <2>3. Manifest(m.job).base = sub.offset
    BY <1>1, <2>2
  <2>4. job'[m.job].status \in Lasting \cup {"failed"}
    BY <2>1 DEF Finishes, BatchStatus, Lasting
  <2>5. Manifest(m.job).items \subseteq Thread
    BY <1>1, <2>2 DEF Sound, TypeOK, RunRow, BundleRow, Manifest
  <2>6. \A i \in Manifest(m.job).items : run[m.job].receipt[i] = "saved"
    BY <1>1, <2>1, <2>2, <2>5, RotatedIsSaved DEF Finishes
  <2> QED
    BY <2>2, <2>3, <2>4, <2>6
<1>2. Sound /\ Ordered /\ Kept /\ [Next]_vars =>
        [sub'.offset # sub.offset /\ sub'.revision = sub.revision =>
           \E j \in JobId :
             /\ job[j].status = "running" /\ job'[j].status \in Lasting \cup {"failed"}
             /\ Manifest(j).base = sub.offset
             /\ sub'.offset = NextOffset(sub.offset)
             /\ \A i \in Manifest(j).items : run[j].receipt[i] = "saved"]_vars
  BY <1>1
<1> QED
  BY <1>2, KeptHolds, PTL DEF Spec, RotationSkipsNothing
=============================================================================
