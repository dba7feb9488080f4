------------------------------ MODULE CodexAgent ------------------------------
(***************************************************************************)
(* Collection from one device by the Codex agent: a process on the owner's *)
(* machine that claims the jobs of its source over HTTP with a credential  *)
(* of that source, freezes a batch in a private spool, uploads it and      *)
(* finishes it.  The owner issues and revokes credentials, changes the     *)
(* selection, schedules, cancels and retries; agents crash and are started *)
(* again; requests are executed and their answers lost, or executed long   *)
(* after the agent has given them up.                                      *)
(*                                                                         *)
(* A transaction of the service holds the owner lock through commit, and   *)
(* so is an action: Serve, on a request.  The agent does nothing while it  *)
(* waits, so an answer that arrives belongs to the same step; an answer    *)
(* that is lost leaves the agent where it was, and it sends the request    *)
(* again (client.request) or gives up.                                     *)
(*                                                                         *)
(* Abstractions.  Deadlines are only compared with now: a lease holds or   *)
(* has run out, a schedule is due or not whenever it is enabled, and a job *)
(* that waits for its retry time is one no agent has asked for yet.  The   *)
(* selected threads are 0..Threads-1, and a thread of a window yields one  *)
(* item.  Manual backfills are those of CollectionJobs.                    *)
(***************************************************************************)
EXTENDS Integers, FiniteSets

CONSTANTS
  Agent,          \* spool roots, each with its worker_id and private settings
  Credential,     \* source tokens
  None,           \* no agent, no credential
  Config,         \* selections of threads
  Threads,        \* how many threads a selection names
  Window,         \* threads_per_cycle
  Previews,       \* what reading a window may yield: the positions that gave a
                  \* record, those whose record is invalid, and the gaps
  MAX_ATTEMPTS,   \* 4
  MaxJobs,        \* bound: jobs ever created
  MaxRevision,    \* bound: revisions of the subscription
  MaxGeneration,  \* bound: generation up to which the owner may retry
  MaxBundle,      \* bound: bundles ever prepared
  MaxLate         \* bound: abandoned requests under way at one time

ASSUME NoneAssumption == None \notin Agent \cup Credential
ASSUME BoundsAssumption ==
  /\ Config # {}
  /\ Threads \in Nat \ {0} /\ Window \in 1..Threads
  /\ MAX_ATTEMPTS \in Nat /\ MaxJobs \in Nat /\ MaxRevision \in Nat
  /\ MaxGeneration \in Nat /\ MaxBundle \in Nat /\ MaxLate \in Nat
ASSUME PreviewsAssumption ==
  \A p \in Previews :
    /\ p \in [items : SUBSET (0..(Window - 1)), invalid : SUBSET (0..(Window - 1)),
              gaps : {"none", "deferred", "other"}]
    /\ p.invalid \subseteq p.items
    /\ p.invalid # {} => p.gaps = "other"

VARIABLES
  policy,   \* SourcePolicy.collection_enabled
  sub,      \* the CollectionSubscription row
  cred,     \* CollectorCredential rows
  count,    \* the id of the latest job
  job,      \* CollectionJob rows
  run,      \* the CollectionRun bound to each job, with its receipts
  bundle,   \* what each client_run_uuid ever made stands for
  built,    \* how many were made
  spool,    \* the directory job-<id> of each agent's spool root
  agent,    \* the agent processes
  late      \* requests whose agent has given them up, not executed yet

server == <<policy, sub, cred, count, job, run>>
vars == <<policy, sub, cred, count, job, run, bundle, built, spool, agent, late>>

JobId == 1..MaxJobs
Thread == 0..(Threads - 1)
Bundle == 1..MaxBundle
NoBundle == 0
NotYet == -1     \* no checkpoint

ACTIVE == {"pending", "running"}
Lasting == {"completed", "empty", "partial", "cancelled"}
TERMINAL == Lasting \cup {"failed"}
Gaps == {"none", "deferred", "other"}

Subscription == [config : Config, revision : Nat, enabled : BOOLEAN, offset : Thread]
CredentialRow == [state : {"unissued", "live", "revoked"}, revision : Nat, expired : BOOLEAN]
JobRow == [status : {"absent"} \cup ACTIVE \cup TERMINAL, revision : Nat,
           generation : Nat, attempts : Nat, owner : Agent \cup {None},
           cred : Credential \cup {None}, lease : BOOLEAN, checkpoint : Thread \cup {NotYet}]
RunRow == [uuid : Bundle \cup {NoBundle}, done : BOOLEAN,
           receipt : [Thread -> {"none", "saved", "blocked", "failed"}]]
BundleRow == [base : Thread, items : SUBSET Thread, invalid : SUBSET Thread, gaps : Gaps]
\* The checkpoint, the preparation once its manifest is written, the frozen batch
\* and what the job was reported to have come to.
Directory == [metadata : Thread \cup {NotYet}, preparing : Bundle \cup {NoBundle},
              bundle : Bundle \cup {NoBundle}, terminal : TERMINAL \cup {"none"}]
PC == {"none", "off", "claim", "heartbeat", "open", "read", "rename", "batch",
       "items", "status", "failure"}
Code == {"none", "transient", "permanent"}
AgentState == [pc : PC, config : Config, token : Credential, job : JobId \cup {0},
               generation : Nat, offset : Thread, bound : BOOLEAN,
               todo : SUBSET Thread, code : Code]
Op == {"claim", "heartbeat", "batch", "item", "finish", "status", "failure"}
Request == [op : Op, agent : Agent, config : Config, token : Credential,
            job : JobId \cup {0}, generation : Nat, uuid : Bundle \cup {NoBundle},
            checkpoint : Thread \cup {NotYet}, item : Thread, code : Code]

NoJob == [status |-> "absent", revision |-> 0, generation |-> 0, attempts |-> 0,
          owner |-> None, cred |-> None, lease |-> FALSE, checkpoint |-> NotYet]
NoRun == [uuid |-> NoBundle, done |-> FALSE, receipt |-> [i \in Thread |-> "none"]]
Unbuilt == [base |-> 0, items |-> {}, invalid |-> {}, gaps |-> "none"]
NoDirectory == [metadata |-> NotYet, preparing |-> NoBundle, bundle |-> NoBundle,
                terminal |-> "none"]

TypeOK ==
  /\ policy \in BOOLEAN
  /\ sub \in Subscription
  /\ cred \in [Credential -> CredentialRow]
  /\ count \in 0..MaxJobs
  /\ job \in [JobId -> JobRow]
  /\ run \in [JobId -> RunRow]
  /\ bundle \in [Bundle -> BundleRow]
  /\ built \in 0..MaxBundle
  /\ spool \in [Agent -> [JobId -> Directory]]
  /\ agent \in [Agent -> AgentState]
  /\ late \subseteq Request

NotInstalled(k, c) ==
  [pc |-> "none", config |-> k, token |-> c, job |-> 0, generation |-> 0,
   offset |-> 0, bound |-> FALSE, todo |-> {}, code |-> "none"]

Init ==
  /\ policy = TRUE
  /\ \E k \in Config, c \in Credential :
       /\ sub = [config |-> k, revision |-> 1, enabled |-> FALSE, offset |-> 0]
       /\ agent = [a \in Agent |-> NotInstalled(k, c)]
  /\ cred = [c \in Credential |-> [state |-> "unissued", revision |-> 0, expired |-> FALSE]]
  /\ count = 0
  /\ job = [j \in JobId |-> NoJob]
  /\ run = [j \in JobId |-> NoRun]
  /\ bundle = [u \in Bundle |-> Unbuilt]
  /\ built = 0
  /\ spool = [a \in Agent |-> [j \in JobId |-> NoDirectory]]
  /\ late = {}

-----------------------------------------------------------------------------
(***************************************************************************)
(* Row updates (services/collection_jobs).                                 *)
(***************************************************************************)
Active(j) == job[j].status \in ACTIVE
ActiveJobs == {j \in JobId : Active(j)}
Paused == [sub EXCEPT !.enabled = FALSE]
Cancelled(row) == [row EXCEPT !.status = "cancelled", !.generation = @ + 1]
Retried(row) == [row EXCEPT !.status = "pending", !.attempts = 0, !.generation = @ + 1]
Requeued(row) == [row EXCEPT !.status = "pending", !.owner = None, !.lease = FALSE]
ClaimedBy(row, m) ==
  [row EXCEPT !.status = "running", !.owner = m.agent, !.cred = m.token,
              !.attempts = @ + 1, !.generation = @ + 1, !.lease = TRUE]
CancelledJobs == [j \in JobId |-> IF Active(j) THEN Cancelled(job[j]) ELSE job[j]]
NewJob == [NoJob EXCEPT !.status = "pending", !.revision = sub.revision]

Revoked == [c \in Credential |-> IF cred[c].state = "live"
                                 THEN [cred[c] EXCEPT !.state = "revoked"] ELSE cred[c]]

\* disconnect, but for the credentials.
Disconnected == job' = CancelledJobs /\ sub' = Paused

-----------------------------------------------------------------------------
(***************************************************************************)
(* The owner.                                                              *)
(***************************************************************************)
LocalUnchanged == UNCHANGED <<bundle, built, spool, agent, late>>

\* POST /credentials: the new token replaces every other one.
Issue(c) ==
  /\ cred[c].state = "unissued"
  /\ Disconnected
  /\ cred' = [Revoked EXCEPT ![c] = [state |-> "live", revision |-> sub.revision,
                                     expired |-> FALSE]]
  /\ UNCHANGED <<policy, count, run>> /\ LocalUnchanged

\* POST /disconnect, and DELETE /credentials/{id} of a token not revoked yet.
Disconnect ==
  /\ Disconnected
  /\ cred' = Revoked
  /\ UNCHANGED <<policy, count, run>> /\ LocalUnchanged

\* PATCH /selection with another selection.
ChangeSelection(k) ==
  /\ k # sub.config /\ sub.revision < MaxRevision
  /\ job' = CancelledJobs
  /\ sub' = [Paused EXCEPT !.config = k, !.revision = @ + 1, !.offset = 0]
  /\ cred' = Revoked
  /\ UNCHANGED <<policy, count, run>> /\ LocalUnchanged

\* POST /collect-now without an active job.
CollectNow ==
  /\ policy /\ ActiveJobs = {} /\ count < MaxJobs
  /\ count' = count + 1
  /\ job' = [job EXCEPT ![count + 1] = NewJob]
  /\ UNCHANGED <<policy, sub, cred, run>> /\ LocalUnchanged

CancelJob ==
  /\ ActiveJobs # {}
  /\ job' = CancelledJobs
  /\ UNCHANGED <<policy, sub, cred, count, run>> /\ LocalUnchanged

SetSchedule(enabled) ==
  /\ enabled # sub.enabled
  /\ enabled => policy
  /\ sub' = [sub EXCEPT !.enabled = enabled]
  /\ job' = IF enabled THEN job ELSE CancelledJobs
  /\ UNCHANGED <<policy, cred, count, run>> /\ LocalUnchanged

\* Only the latest job, if it failed under the current selection.
Retryable(j) == job[j].status = "failed" /\ job[j].revision = sub.revision

\* POST /retry
RetryFailed ==
  /\ policy /\ count > 0 /\ Retryable(count)
  /\ job[count].generation < MaxGeneration
  /\ job' = [job EXCEPT ![count] = Retried(@)]
  /\ UNCHANGED <<policy, sub, cred, count, run>> /\ LocalUnchanged

\* PATCH /sources/{id}
SetPolicy(enabled) ==
  /\ enabled # policy
  /\ policy' = enabled
  /\ IF enabled THEN UNCHANGED <<sub, job>> ELSE job' = CancelledJobs /\ sub' = Paused
  /\ UNCHANGED <<cred, count, run>> /\ LocalUnchanged

-----------------------------------------------------------------------------
(***************************************************************************)
(* The service: what it makes of a request m, with the answer.             *)
(***************************************************************************)
\* Mutant: a token is accepted as long as it has not expired.
AcceptsUnexpired(c) == cred[c].state # "unissued" /\ ~cred[c].expired

\* authenticate
Accepts(c) ==
  /\ cred[c].state = "live"
  /\ ~cred[c].expired
  /\ cred[c].revision = sub.revision

\* An expired token that would still be good stops its own source.
Lapsed(c) == cred[c].state = "live" /\ cred[c].expired /\ cred[c].revision = sub.revision

Leased(m) ==
  /\ m.job \in JobId
  /\ job[m.job].status = "running"
  /\ job[m.job].owner = m.agent
  /\ job[m.job].generation = m.generation
  /\ job[m.job].lease
  /\ job[m.job].revision = sub.revision
  /\ policy
  /\ job[m.job].cred = m.token

Renewed(j) == [job[j] EXCEPT !.lease = TRUE]

\* A lease this worker and token still hold is renewed, with its generation.
Resumes(row, m) ==
  row.status = "running" /\ row.owner = m.agent /\ row.cred = m.token /\ row.lease

\* POST /claim: a due schedule makes a job, then m.agent is given the active one.
ServeClaim(m, due) ==
  LET create == due /\ ActiveJobs = {}
      jobs == IF create THEN [job EXCEPT ![count + 1] = NewJob] ELSE job
      active == {j \in JobId : jobs[j].status \in ACTIVE}
  IN
  /\ due => sub.enabled /\ (create => count < MaxJobs)
  /\ count' = IF create /\ policy THEN count + 1 ELSE count
  /\ IF due /\ ~policy
     THEN Disconnected
     ELSE IF active = {}
     THEN UNCHANGED <<job, sub>>
     ELSE \E j \in active :
       IF Resumes(jobs[j], m)
       THEN job' = [jobs EXCEPT ![j].lease = TRUE] /\ UNCHANGED sub
       ELSE IF ~policy
       THEN job' = [jobs EXCEPT ![j] = Cancelled(@)] /\ UNCHANGED sub
       ELSE IF jobs[j].revision # sub.revision
       THEN Disconnected
       ELSE IF jobs[j].status = "running" /\ jobs[j].lease
       THEN UNCHANGED <<job, sub>>
       ELSE IF jobs[j].attempts >= MAX_ATTEMPTS
       THEN job' = [jobs EXCEPT ![j].status = "failed"] /\ sub' = Paused
       ELSE job' = [jobs EXCEPT ![j] = ClaimedBy(@, m)] /\ UNCHANGED sub
  /\ UNCHANGED run

\* check_batch: the batch the job is bound to, or one nobody has uploaded.
BatchFits(m) ==
  /\ \/ run[m.job].uuid = m.uuid
     \/ run[m.job].uuid = NoBundle /\ \A j \in JobId : run[j].uuid # m.uuid
  /\ job[m.job].checkpoint \in {NotYet, m.checkpoint}

ServeBatch(m) ==
  /\ job' = [job EXCEPT ![m.job] = [Renewed(m.job) EXCEPT !.checkpoint = m.checkpoint]]
  /\ run' = [run EXCEPT ![m.job].uuid = m.uuid]
  /\ UNCHANGED <<sub, count>>

Manifest(j) == bundle[run[j].uuid]

\* An item without a body is recorded as failed; a receipt other than failed is
\* kept; a record the owner deleted is blocked.
ReceiptOf(j, i) ==
  IF i \in Manifest(j).invalid THEN {"failed"}
  ELSE IF run[j].receipt[i] \in {"none", "failed"} THEN {"saved", "blocked"}
  ELSE {run[j].receipt[i]}

ServeItem(m) ==
  /\ job' = [job EXCEPT ![m.job] = Renewed(m.job)]
  /\ \E o \in ReceiptOf(m.job, m.item) : run' = [run EXCEPT ![m.job].receipt[m.item] = o]
  /\ UNCHANGED <<sub, count>>

Received(j, o) == {i \in Thread : run[j].receipt[i] = o}

\* Mutant: a blocked record does not spoil a batch of deferred threads.
SpoiledByFailureOnly(j) == Received(j, "failed") # {}

\* Some receipt says that a record is not in the archive.
Spoiled(j) == Received(j, "failed") # {} \/ Received(j, "blocked") # {}

BatchStatus(j) ==
  IF Manifest(j).gaps # "none" \/ Spoiled(j)
  THEN IF Received(j, "saved") # {} THEN "partial" ELSE "failed"
  ELSE IF Received(j, "saved") # {} THEN "completed" ELSE "empty"

\* The rotation moves on although threads were deferred, but not past a block.
MayRotate(j) ==
  \/ BatchStatus(j) \in {"completed", "empty"}
  \/ Manifest(j).gaps = "deferred" /\ ~Spoiled(j)

Complete(j) == Received(j, "none") \cap Manifest(j).items = {}

ServeFinish(m) ==
  /\ job' = [job EXCEPT ![m.job] = [Renewed(m.job) EXCEPT !.status = BatchStatus(m.job)]]
  /\ run' = [run EXCEPT ![m.job].done = TRUE]
  /\ sub' = IF MayRotate(m.job) THEN [sub EXCEPT !.offset = job[m.job].checkpoint] ELSE Paused
  /\ UNCHANGED count

\* POST /failure: fail_attempt.
ServeFailure(m) ==
  /\ IF m.code = "transient" /\ job[m.job].attempts < MAX_ATTEMPTS
     THEN job' = [job EXCEPT ![m.job] = Requeued(@)] /\ UNCHANGED sub
     ELSE /\ job' = [job EXCEPT ![m.job] = [Renewed(m.job) EXCEPT !.status = "failed"]]
          /\ sub' = Paused
  /\ UNCHANGED <<run, count>>

Grants(m) ==
  CASE m.op = "claim"  -> m.config = sub.config
    [] m.op = "status" -> TRUE
    [] m.op = "batch"  -> Leased(m) /\ BatchFits(m)
    [] m.op = "item"   -> Leased(m) /\ run[m.job].uuid # NoBundle
    [] m.op = "finish" -> /\ Leased(m) /\ run[m.job].uuid # NoBundle
                          /\ job[m.job].checkpoint # NotYet /\ Complete(m.job)
    [] m.op \in {"heartbeat", "failure"} -> Leased(m)

Answer(m) == IF ~Accepts(m.token) THEN "denied" ELSE IF Grants(m) THEN "ok" ELSE "refused"

\* A request takes effect when it is granted; a lapsed token stops its source.
Serve(m) ==
  /\ CASE Answer(m) = "ok" ->
            \/ m.op = "claim" /\ \E due \in BOOLEAN : ServeClaim(m, due)
            \/ m.op = "heartbeat" /\ job' = [job EXCEPT ![m.job] = Renewed(m.job)]
                                  /\ UNCHANGED <<sub, count, run>>
            \/ m.op = "batch" /\ ServeBatch(m)
            \/ m.op = "item" /\ ServeItem(m)
            \/ m.op = "finish" /\ ServeFinish(m)
            \/ m.op = "failure" /\ ServeFailure(m)
            \/ m.op = "status" /\ UNCHANGED <<sub, count, job, run>>
       [] Answer(m) # "ok" /\ Lapsed(m.token) -> Disconnected /\ UNCHANGED <<count, run>>
       [] OTHER -> UNCHANGED <<sub, count, job, run>>
  /\ UNCHANGED <<policy, cred>>

-----------------------------------------------------------------------------
(***************************************************************************)
(* The agent process (collectors/codex_agent.tick and its loop).           *)
(***************************************************************************)
Working == {"open", "read", "rename", "batch", "items"}

Back(a, pc) == [agent[a] EXCEPT !.pc = pc, !.job = 0, !.generation = 0, !.offset = 0,
                                !.bound = FALSE, !.todo = {}, !.code = "none"]
Goto(a, row) == agent' = [agent EXCEPT ![a] = row]
At(a, pc) == [agent[a] EXCEPT !.pc = pc]

Dir(a) == spool[a][agent[a].job]
Keep(a, d) == spool' = [spool EXCEPT ![a][agent[a].job] = d]

RequestFor(a, op, i) ==
  [op |-> op, agent |-> a, config |-> agent[a].config, token |-> agent[a].token,
   job |-> agent[a].job, generation |-> agent[a].generation,
   uuid |-> IF agent[a].job = 0 THEN NoBundle ELSE Dir(a).bundle,
   checkpoint |-> IF agent[a].job = 0 THEN NotYet ELSE Dir(a).metadata,
   item |-> i, code |-> agent[a].code]

\* The requests the process may be waiting on.
Waiting(a) ==
  CASE agent[a].pc \in {"claim", "heartbeat", "batch", "status", "failure"} ->
         {RequestFor(a, agent[a].pc, 0)}
    [] agent[a].pc = "items" /\ agent[a].todo # {} ->
         {RequestFor(a, "item", i) : i \in agent[a].todo}
    [] agent[a].pc = "items" /\ agent[a].todo = {} -> {RequestFor(a, "finish", 0)}
    [] OTHER -> {}

\* What the agent was given by a claim that was answered.
Given(m) == {j \in JobId : /\ job'[j].status = "running" /\ job'[j].lease
                           /\ job'[j].owner = m.agent /\ job'[j].cred = m.token}

\* mark_terminal: what the service said of the job.
Mark(a) ==
  LET status == job'[agent[a].job].status IN
  /\ IF status \in TERMINAL THEN Keep(a, [Dir(a) EXCEPT !.terminal = status])
                            ELSE UNCHANGED spool
  /\ Goto(a, Back(a, "claim"))

\* Mutant: an upload that is refused is taken for the end of the job.
HearErrorAsCancelled(a, m) ==
  /\ Goto(a, Back(a, IF m.op \in {"batch", "item", "finish"} THEN "claim" ELSE "off"))
  /\ IF m.op \in {"batch", "item", "finish"}
     THEN Keep(a, [Dir(a) EXCEPT !.terminal = "cancelled"]) ELSE UNCHANGED spool

\* A refused upload, or a rejected token during one, is looked into by GET status.
HearError(a, m) ==
  /\ Goto(a, IF m.op = "claim" \/ (m.op \in {"status", "failure"} /\ Answer(m) = "denied")
             THEN Back(a, "off")
             ELSE IF m.op = "failure" THEN Back(a, "claim") ELSE At(a, "status"))
  /\ UNCHANGED spool

HearClaim(a, m) ==
  /\ IF Given(m) = {}
     THEN Goto(a, Back(a, "claim"))
     ELSE \E j \in Given(m) :
       Goto(a, [agent[a] EXCEPT !.pc = "heartbeat", !.job = j,
                                !.generation = job'[j].generation, !.offset = sub.offset,
                                !.bound = run[j].uuid # NoBundle])
  /\ UNCHANGED spool

Hear(a, m) ==
  IF Answer(m) # "ok" THEN HearError(a, m)
  ELSE \/ m.op = "claim" /\ HearClaim(a, m)
       \/ m.op \in {"finish", "status"} /\ Mark(a)
       \/ m.op = "failure" /\ Goto(a, Back(a, "claim")) /\ UNCHANGED spool
       \/ m.op = "heartbeat" /\ Goto(a, At(a, "open")) /\ UNCHANGED spool
       \/ /\ m.op = "batch"
          /\ Goto(a, [At(a, "items") EXCEPT !.todo = bundle[m.uuid].items])
          /\ UNCHANGED spool
       \/ /\ m.op = "item"
          /\ Goto(a, [agent[a] EXCEPT !.todo = @ \ {m.item}])
          /\ UNCHANGED spool

\* A request is executed, and its answer heard or lost.
Call(a) ==
  \E m \in Waiting(a) :
    /\ Serve(m)
    /\ Hear(a, m) \/ UNCHANGED <<agent, spool>>
    /\ UNCHANGED <<bundle, built, late>>

\* A request is given up on while it is under way, and executed later.
Abandon(a) ==
  /\ Cardinality(late) < MaxLate
  /\ \E m \in Waiting(a) : late' = late \cup {m}
  /\ UNCHANGED server /\ UNCHANGED <<bundle, built, spool, agent>>

Overtaken(m) ==
  /\ m \in late
  /\ Serve(m)
  /\ late' = late \ {m}
  /\ UNCHANGED <<bundle, built, spool, agent>>

\* Three tries failed.
GiveUp(a) ==
  /\ Waiting(a) # {}
  /\ Goto(a, IF agent[a].pc \in {"claim", "status", "failure"} THEN Back(a, "claim")
             ELSE At(a, "status"))
  /\ UNCHANGED server /\ UNCHANGED <<bundle, built, spool, late>>

\* The heartbeat thread, every 20 s.
Beat(a) ==
  /\ agent[a].pc \in Working
  /\ Serve(RequestFor(a, "heartbeat", 0))
  /\ UNCHANGED <<bundle, built, spool, agent, late>>

\* check() finds that a heartbeat failed.
HeartbeatFailed(a) ==
  /\ agent[a].pc \in {"open", "read", "items"}
  /\ Goto(a, At(a, "status"))
  /\ UNCHANGED server /\ UNCHANGED <<bundle, built, spool, late>>

NextOffset(offset) == (offset + Window) % Threads
Threaded(offset, ps) == {(offset + p) % Threads : p \in ps}

Failing(a, code) == Goto(a, [At(a, "failure") EXCEPT !.code = code])

\* A bundle frozen before is resumed; a batch made by another spool cannot be;
\* an incomplete preparation is discarded and the checkpoint written first.
Open(a) ==
  /\ agent[a].pc = "open"
  /\ LET d == Dir(a) IN
     IF d.bundle # NoBundle
     THEN Goto(a, At(a, "batch")) /\ UNCHANGED spool
     ELSE IF agent[a].bound
     THEN Failing(a, "permanent") /\ UNCHANGED spool
     ELSE IF d.preparing # NoBundle /\ d.metadata # NotYet
     THEN Goto(a, At(a, "rename")) /\ UNCHANGED spool
     ELSE /\ Keep(a, [d EXCEPT !.preparing = NoBundle,
                               !.metadata = NextOffset(agent[a].offset)])
          /\ Goto(a, At(a, "read"))
  /\ UNCHANGED server /\ UNCHANGED <<bundle, built, late>>

\* preview: the threads of the window are read and the manifest written.
Read(a) ==
  /\ agent[a].pc = "read" /\ built < MaxBundle
  /\ built' = built + 1
  /\ \E p \in Previews :
       bundle' = [bundle EXCEPT ![built + 1] =
         [base |-> agent[a].offset, items |-> Threaded(agent[a].offset, p.items),
          invalid |-> Threaded(agent[a].offset, p.invalid), gaps |-> p.gaps]]
  /\ Keep(a, [Dir(a) EXCEPT !.preparing = built + 1])
  /\ Goto(a, At(a, "rename"))
  /\ UNCHANGED server /\ UNCHANGED late

Rename(a) ==
  /\ agent[a].pc = "rename"
  /\ Keep(a, [Dir(a) EXCEPT !.preparing = NoBundle, !.bundle = Dir(a).preparing])
  /\ Goto(a, At(a, "batch"))
  /\ UNCHANGED server /\ UNCHANGED <<bundle, built, late>>

\* A reading, quota or file error: reported, never with the spool removed.
LocalError(a, code) ==
  /\ agent[a].pc \in Working
  /\ Failing(a, code)
  /\ UNCHANGED server /\ UNCHANGED <<bundle, built, spool, late>>

\* Mutant: whatever ended is removed.
RemovableOnceTerminal(d) == d.terminal # "none"

\* cleanup: what can be needed again stays.
Removable(d) == d.terminal \in Lasting

Cleanup(a, j) ==
  /\ agent[a].pc = "claim"
  /\ Removable(spool[a][j])
  /\ spool' = [spool EXCEPT ![a][j] = NoDirectory]
  /\ UNCHANGED server /\ UNCHANGED <<bundle, built, agent, late>>

\* init, with the private settings of the selection as it is now.
Install(a, c) ==
  /\ agent[a].pc = "none" /\ cred[c].state # "unissued"
  /\ Goto(a, [At(a, "off") EXCEPT !.config = sub.config, !.token = c])
  /\ UNCHANGED server /\ UNCHANGED <<bundle, built, spool, late>>

SetToken(a, c) ==
  /\ agent[a].pc = "off" /\ cred[c].state # "unissued" /\ agent[a].token # c
  /\ Goto(a, [agent[a] EXCEPT !.token = c])
  /\ UNCHANGED server /\ UNCHANGED <<bundle, built, spool, late>>

Start(a) ==
  /\ agent[a].pc = "off"
  /\ Goto(a, At(a, "claim"))
  /\ UNCHANGED server /\ UNCHANGED <<bundle, built, spool, late>>

Crash(a) ==
  /\ agent[a].pc \notin {"none", "off"}
  /\ Goto(a, Back(a, "off"))
  /\ UNCHANGED server /\ UNCHANGED <<bundle, built, spool, late>>

-----------------------------------------------------------------------------
LeaseEnds(j) ==
  /\ job[j].status = "running" /\ job[j].lease
  /\ job' = [job EXCEPT ![j].lease = FALSE]
  /\ UNCHANGED <<policy, sub, cred, count, run>> /\ LocalUnchanged

Expire(c) ==
  /\ cred[c].state # "unissued" /\ ~cred[c].expired
  /\ cred' = [cred EXCEPT ![c].expired = TRUE]
  /\ UNCHANGED <<policy, sub, count, job, run>> /\ LocalUnchanged

Owner ==
  \/ \E c \in Credential : Issue(c)
  \/ \E k \in Config : ChangeSelection(k)
  \/ \E b \in BOOLEAN : SetSchedule(b) \/ SetPolicy(b)
  \/ Disconnect \/ CollectNow \/ CancelJob \/ RetryFailed

Process(a) ==
  \/ \E c \in Credential : Install(a, c) \/ SetToken(a, c)
  \/ \E code \in {"transient", "permanent"} : LocalError(a, code)
  \/ \E j \in JobId : Cleanup(a, j)
  \/ Start(a) \/ Call(a) \/ Abandon(a) \/ GiveUp(a) \/ Beat(a) \/ HeartbeatFailed(a)
  \/ Open(a) \/ Read(a) \/ Rename(a) \/ Crash(a)

Next ==
  \/ Owner
  \/ \E a \in Agent : Process(a)
  \/ \E m \in late : Overtaken(m)
  \/ \E j \in JobId : LeaseEnds(j)
  \/ \E c \in Credential : Expire(c)

Spec == Init /\ [][Next]_vars

-----------------------------------------------------------------------------
(***************************************************************************)
(* Correctness.                                                            *)
(***************************************************************************)
\* What runs, runs for a token the owner has not revoked or replaced, under the
\* selection it was issued for, of a source that is allowed: no request that is
\* executed late gives a job to an agent the owner has shut out.
RunningJobHasLiveCredential ==
  \A j \in JobId : job[j].status = "running" =>
    /\ policy
    /\ job[j].revision = sub.revision
    /\ cred[job[j].cred].state = "live"
    /\ cred[job[j].cred].revision = sub.revision

\* A job that can still run, or be retried.
Recoverable(j) ==
  job[j].status \in ACTIVE \/ (j = count /\ Retryable(j))

\* A batch that can still be continued is whole in the spool that made it, with
\* the checkpoint the service froze: a lost acknowledgement, a crash or a cleanup
\* never removes what only that spool has.
BoundBatchHasSpool ==
  \A j \in JobId : Recoverable(j) /\ run[j].uuid # NoBundle =>
    \E a \in Agent : /\ spool[a][j].bundle = run[j].uuid
                     /\ spool[a][j].metadata = job[j].checkpoint

\* What an agent noted of a job's end is what became of it, but for a failed one,
\* which may be retried: an acknowledgement is not guessed.
MarkersAreTrue ==
  \A a \in Agent, j \in JobId :
    spool[a][j].terminal \in Lasting => job[j].status = spool[a][j].terminal

\* The rotation only moves from where it stands over the window of one finished
\* batch, of which every record it holds was archived.
RotationSkipsNothing ==
  [][sub'.offset # sub.offset /\ sub'.revision = sub.revision =>
       \E j \in JobId :
         /\ job[j].status = "running" /\ job'[j].status \in Lasting \cup {"failed"}
         /\ Manifest(j).base = sub.offset
         /\ sub'.offset = NextOffset(sub.offset)
         /\ \A i \in Manifest(j).items : run[j].receipt[i] = "saved"]_vars
=============================================================================
