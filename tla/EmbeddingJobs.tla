---------------------------- MODULE EmbeddingJobs ----------------------------
(***************************************************************************)
(* The vectors of one source: its records and their versions, the policy   *)
(* that allows or denies external AI, the indexing runs the owner          *)
(* activates, and the workers that pay a provider to embed what is queued. *)
(*                                                                         *)
(* A transaction holds the owner lock through commit, and so is an action. *)
(* The call itself is made under that lock too (send_passage_embeddings):  *)
(* from Send to Answer every other transaction of the owner waits.         *)
(*                                                                         *)
(* Abstractions.  A version is its text, and its body is one passage of    *)
(* one slice; a record's passage is known by how often the record's        *)
(* passages were rebuilt.  The policy revision is only compared for        *)
(* equality with the one a batch was claimed at, so a batch remembers      *)
(* whether that is still the revision.  A lease is the time left of it.    *)
(* The limits on paid calls are those of AiUsage: here a reservation may   *)
(* be refused at any time.                                                 *)
(***************************************************************************)
EXTENDS Naturals, FiniteSets

CONSTANTS
  Entry,       \* the records of the source, by external identity
  Text,        \* bodies a version may have
  Run,         \* indexing runs
  Worker,      \* embedding_worker processes
  Dispatch,    \* dispatch UUIDs
  None,        \* no text, no vector, nobody, no dispatch, no run
  LeaseTTL,    \* 60 s, in ticks
  Margin,      \* the 15 s that must be left of a lease, in ticks
  MaxBuild     \* bound: rebuilds of a record's passages

ASSUME NoneAssumption == None \notin Text \cup Run \cup Worker \cup Dispatch
ASSUME TicksAssumption ==
  /\ LeaseTTL \in Nat \ {0} /\ Margin \in 1..LeaseTTL /\ MaxBuild \in Nat

VARIABLES
  kind,     \* "manual": the owner's notes; "external": a collected source
  policy,   \* SourcePolicy.external_ai_allowed
  entry,    \* the Entry rows
  vector,   \* what the stored vector of a record's passage was made from
  run,      \* EmbeddingRun rows
  job,      \* EmbeddingJob rows, unique by run and passage
  attempt,  \* AiUsageAttempt rows, by dispatch
  slot,     \* the worker inside the paid-call slot
  wk,       \* the control state and the batch of each worker
  calls     \* how often the provider received a job's slice since the owner
            \* last answered for it, under attempts the owner had not settled
            \* before the call (kept nowhere in the program)

vars == <<kind, policy, entry, vector, run, job, attempt, slot, wk, calls>>

JobId == Run \X Entry \X (1..MaxBuild)
RunOf(j) == j[1]
EntryOf(j) == j[2]
BuildOf(j) == j[3]

Live == {"pending", "running", "ready"}
Resting == {"blocked", "stale", "failed", "uncertain"}
JobRow == [status : {"absent"} \cup Live \cup Resting, text : Text \cup {None},
           dispatch : Dispatch \cup {None}, lease : 0..LeaseTTL]
RunRow == [status : {"absent", "active", "paused", "completed"},
           follow : BOOLEAN, all : BOOLEAN, ids : SUBSET Entry]
EntryRow == [life : {"unseen", "live", "deleted"}, versions : SUBSET Text,
             current : Text \cup {None}, build : 0..MaxBuild,
             allowed : BOOLEAN, removed : BOOLEAN]
PC == {"idle", "claimed", "marked", "checked", "sending", "answered",
       "settled", "failing"}
Code == {"none", "pause", "busy", "context", "error"}
WorkerRow == [pc : PC, run : Run \cup {None}, jobs : SUBSET JobId,
              dispatch : Dispatch \cup {None}, fresh : BOOLEAN, code : Code]

NoJob == [status |-> "absent", text |-> None, dispatch |-> None, lease |-> 0]
NoRun == [status |-> "absent", follow |-> FALSE, all |-> FALSE, ids |-> {}]
Unseen == [life |-> "unseen", versions |-> {}, current |-> None, build |-> 0,
           allowed |-> FALSE, removed |-> FALSE]
Idle == [pc |-> "idle", run |-> None, jobs |-> {}, dispatch |-> None,
         fresh |-> FALSE, code |-> "none"]

TypeOK ==
  /\ kind \in {"manual", "external"}
  /\ policy \in BOOLEAN
  /\ entry \in [Entry -> EntryRow]
  /\ vector \in [Entry -> Text \cup {None}]
  /\ run \in [Run -> RunRow]
  /\ job \in [JobId -> JobRow]
  /\ attempt \in [Dispatch -> {"none", "open", "spent", "released"}]
  /\ slot \in Worker \cup {None}
  /\ wk \in [Worker -> WorkerRow]
  /\ calls \in [JobId -> Nat]

Init ==
  /\ kind \in {"manual", "external"}
  /\ policy = FALSE
  /\ entry = [e \in Entry |-> Unseen]
  /\ vector = [e \in Entry |-> None]
  /\ run = [r \in Run |-> NoRun]
  /\ job = [j \in JobId |-> NoJob]
  /\ attempt = [d \in Dispatch |-> "none"]
  /\ slot = None
  /\ wk = [w \in Worker |-> Idle]
  /\ calls = [j \in JobId |-> 0]

-----------------------------------------------------------------------------
(***************************************************************************)
(* Policy, passages and what one transaction does to them.  The arguments  *)
(* are the rows as the transaction leaves them.                            *)
(***************************************************************************)
\* No call is in flight, so the owner lock can be taken.
LockFree == \A w \in Worker : wk[w].pc # "sending"

\* External AI may have the record's body (allowed_selection, embedding_inputs).
Allowed(ent, pol, e) ==
  /\ pol
  /\ ent[e].life = "live"
  /\ ent[e].allowed
  /\ ~ent[e].removed

\* The passage the job was made for still exists.
Attached(ent, j) ==
  ent[EntryOf(j)].life = "live" /\ ent[EntryOf(j)].build = BuildOf(j)

Matches(rn, e) == rn.all \/ e \in rn.ids

\* sync_current_passages: the passages of the version that is now current.
Rebuilt(row, text) ==
  [row EXCEPT !.life = "live", !.versions = @ \cup {text}, !.current = text,
              !.build = @ + 1]

\* Mutant: the vectors of a denied record are kept.
PrunedVectorsKeepingDenied(ent, pol) ==
  [e \in Entry |-> IF ent[e].life = "live" /\ ent[e].build = entry[e].build
                   THEN vector[e] ELSE None]

\* prune_embeddings, and the cascade of a rebuild or a deletion.
PrunedVectors(ent, pol) ==
  [e \in Entry |-> IF Allowed(ent, pol, e) /\ ent[e].build = entry[e].build
                   THEN vector[e] ELSE None]

\* Mutant: only queued and running jobs are looked at.
InvalidatedJobsUnlessReady(ent, pol) ==
  [j \in JobId |->
     IF job[j].status \in {"pending", "running"}
        /\ ~(Attached(ent, j) /\ Allowed(ent, pol, EntryOf(j)))
     THEN [job[j] EXCEPT !.status = IF Attached(ent, j) THEN "blocked" ELSE "stale",
                         !.lease = 0]
     ELSE job[j]]

\* invalidate_jobs
InvalidatedJobs(ent, pol) ==
  [j \in JobId |->
     IF job[j].status \in Live /\ ~(Attached(ent, j) /\ Allowed(ent, pol, EntryOf(j)))
     THEN [job[j] EXCEPT !.status = IF Attached(ent, j) THEN "blocked" ELSE "stale",
                         !.lease = 0]
     ELSE job[j]]

\* enqueue_current of the records es: only activated follow scopes take them.
WithCurrent(jobs, runs, ent, pol, es) ==
  [j \in JobId |->
     IF /\ EntryOf(j) \in es
        /\ runs[RunOf(j)].status = "active"
        /\ runs[RunOf(j)].follow
        /\ Matches(runs[RunOf(j)], EntryOf(j))
        /\ Attached(ent, j)
        /\ Allowed(ent, pol, EntryOf(j))
        /\ jobs[j].status = "absent"
     THEN [NoJob EXCEPT !.status = "pending", !.text = ent[EntryOf(j)].current]
     ELSE jobs[j]]

\* invalidate_context moves the revision on: no batch may use what it holds.
Invalidate(ent, pol, es) ==
  /\ entry' = ent
  /\ policy' = pol
  /\ vector' = PrunedVectors(ent, pol)
  /\ job' = WithCurrent(InvalidatedJobs(ent, pol), run, ent, pol, es)
  /\ wk' = [w \in Worker |-> [wk[w] EXCEPT !.fresh = FALSE]]
  /\ UNCHANGED <<kind, attempt, slot, calls>>

-----------------------------------------------------------------------------
(***************************************************************************)
(* The owner's records and settings.                                       *)
(***************************************************************************)
\* POST /entries: no earlier context can hold the record, the revision stays.
CreateEntry(e, t) ==
  /\ LockFree
  /\ kind = "manual" /\ entry[e].life = "unseen" /\ entry[e].build < MaxBuild
  /\ entry' = [entry EXCEPT ![e] = Rebuilt(@, t)]
  /\ job' = WithCurrent(job, run, entry', policy, {e})
  /\ UNCHANGED <<kind, policy, vector, run, attempt, slot, wk, calls>>

\* PATCH /entries/{id} with another text.
UpdateEntry(e, t) ==
  /\ LockFree
  /\ kind = "manual" /\ entry[e].life = "live" /\ entry[e].current # t
  /\ entry[e].build < MaxBuild
  /\ Invalidate([entry EXCEPT ![e] = Rebuilt(@, t)], policy, {e})
  /\ UNCHANGED run

\* A collector or an import delivers the record (upsert_external_entry): a new
\* record, a newer observation that becomes current, or a candidate to review.
\* A text the record already had is a replay and changes nothing.
Observe(e, t, newer) ==
  /\ LockFree
  /\ kind = "external" /\ entry[e].life # "deleted" /\ t \notin entry[e].versions
  /\ IF newer \/ entry[e].life = "unseen"
     THEN /\ entry[e].build < MaxBuild
          /\ Invalidate([entry EXCEPT ![e] = Rebuilt(@, t)], policy, {e})
          /\ UNCHANGED run
     ELSE /\ entry' = [entry EXCEPT ![e].versions = @ \cup {t}]
          /\ UNCHANGED <<kind, policy, vector, run, job, attempt, slot, wk, calls>>

\* POST /entries/{id}/versions/{version}/select; the current one again only
\* moves the revision, its passages are kept and nothing is enqueued.  A PATCH of
\* the settings that leaves the permission alone does just that.
ChooseVersion(e, t) ==
  /\ LockFree
  /\ entry[e].life = "live" /\ t \in entry[e].versions
  /\ IF t = entry[e].current
     THEN Invalidate(entry, policy, {})
     ELSE /\ entry[e].build < MaxBuild
          /\ Invalidate([entry EXCEPT ![e] = Rebuilt(@, t)], policy, {e})
  /\ UNCHANGED run

\* PATCH /entries/{id}/settings
SetAllowed(e, allowed) ==
  /\ LockFree
  /\ entry[e].life = "live"
  /\ Invalidate([entry EXCEPT ![e].allowed = allowed], policy,
                IF allowed THEN {e} ELSE {})
  /\ UNCHANGED run

\* PATCH /entries/{id}/source-state
SetSourceState(e, removed) ==
  /\ LockFree
  /\ entry[e].life = "live"
  /\ Invalidate([entry EXCEPT ![e].removed = removed], policy,
                IF removed THEN {} ELSE {e})
  /\ UNCHANGED run

\* DELETE /entries/{id}: the identity is suppressed, the row and its passages go,
\* and no run's list of record ids can name a later row.
DeleteEntry(e) ==
  /\ LockFree
  /\ entry[e].life = "live"
  /\ Invalidate([entry EXCEPT ![e] = [Unseen EXCEPT !.life = "deleted",
                                                   !.build = entry[e].build]],
                policy, {})
  /\ run' = [r \in Run |-> [run[r] EXCEPT !.ids = @ \ {e}]]

\* POST /sources/suppressed/{id}/allow-reimport
AllowReimport(e) ==
  /\ LockFree
  /\ kind = "external" /\ entry[e].life = "deleted"
  /\ Invalidate([entry EXCEPT ![e].life = "unseen"], policy, {})
  /\ UNCHANGED run

\* PATCH /sources/{id}; collection_enabled is the concern of CollectionJobs.
UpdatePolicy(allowed) ==
  /\ LockFree
  /\ Invalidate(entry, allowed,
                IF allowed THEN Entry ELSE {})
  /\ UNCHANGED run

-----------------------------------------------------------------------------
(***************************************************************************)
(* The owner's indexing runs.                                              *)
(***************************************************************************)
\* What prepare_indexing lists: allowed passages of the selection without a vector.
Pending(es) == {e \in es : Allowed(entry, policy, e) /\ vector[e] = None}

\* A passage some run of the owner may still send, or may have sent.
Outstanding(e) ==
  \E j \in JobId : /\ EntryOf(j) = e
                   /\ Attached(entry, j)
                   /\ job[j].status \in {"pending", "running", "uncertain"}

Follows(r) == run[r].follow /\ run[r].status \in {"active", "paused"}

\* POST /indexing/activate with a manifest that a fresh preparation equals.
Activate(r, es, all, follow) ==
  LET items == Pending(es) IN
  /\ LockFree
  /\ run[r].status = "absent"
  /\ es \subseteq {e \in Entry : entry[e].life = "live"}
  /\ all => \A e \in Entry : entry[e].life = "live" => e \in es
  /\ ~all => es # {}
  /\ \A e \in items : ~Outstanding(e)
  /\ follow => \A q \in Run : Follows(q) => ~(run[q].all \/ all \/ run[q].ids \cap es # {})
  /\ run' = [run EXCEPT ![r] =
               [status |-> IF items # {} \/ follow THEN "active" ELSE "completed",
                follow |-> follow, all |-> all, ids |-> es]]
  /\ job' = [j \in JobId |->
               IF RunOf(j) = r /\ EntryOf(j) \in items /\ Attached(entry, j)
               THEN [NoJob EXCEPT !.status = "pending", !.text = entry[EntryOf(j)].current]
               ELSE job[j]]
  /\ UNCHANGED <<kind, policy, entry, vector, attempt, slot, wk, calls>>

\* change_run; a completed run can be paused, and a paused one activated.
PauseRun(r) ==
  /\ LockFree
  /\ run[r].status \in {"active", "completed"}
  /\ run' = [run EXCEPT ![r].status = "paused"]
  /\ UNCHANGED <<kind, policy, entry, vector, job, attempt, slot, wk, calls>>

ResumeRun(r) ==
  /\ LockFree
  /\ run[r].status \in {"active", "paused"}
  /\ run' = [run EXCEPT ![r].status = "active"]
  /\ job' = IF run[r].follow THEN WithCurrent(job, run', entry, policy, Entry) ELSE job
  /\ UNCHANGED <<kind, policy, entry, vector, attempt, slot, wk, calls>>

\* The provider may have charged for the job's dispatch and nobody has said.
Unsettled(j) == job[j].dispatch # None /\ attempt[job[j].dispatch] = "open"

\* retry_job: the owner answers for what was sent and has it queued again.
RetryJob(j) ==
  /\ LockFree
  /\ job[j].status \in Resting
  /\ ~Unsettled(j)
  /\ Attached(entry, j) /\ Allowed(entry, policy, EntryOf(j))
  /\ job' = [job EXCEPT ![j] = [NoJob EXCEPT !.status = "pending", !.text = job[j].text]]
  /\ run' = [run EXCEPT ![RunOf(j)].status = "active"]
  /\ calls' = [calls EXCEPT ![j] = 0]
  /\ UNCHANGED <<kind, policy, entry, vector, attempt, slot, wk>>

\* ai_usage.reconcile: the owner settles an open attempt; "released" says that
\* it was not charged.
Reconcile(d, as) ==
  /\ attempt[d] = "open"
  /\ attempt' = [attempt EXCEPT ![d] = as]
  /\ calls' = IF as = "released"
              THEN [j \in JobId |-> IF job[j].dispatch = d THEN 0 ELSE calls[j]]
              ELSE calls
  /\ UNCHANGED <<kind, policy, entry, vector, run, job, slot, wk>>

-----------------------------------------------------------------------------
(***************************************************************************)
(* The worker.                                                             *)
(***************************************************************************)
\* finish_run, for the rows as the transaction leaves them.
FinishedRun(runs, jobs, r) ==
  IF /\ runs[r].status = "active" /\ ~runs[r].follow
     /\ \A j \in JobId : RunOf(j) = r => jobs[j].status \notin {"pending", "running"}
  THEN [runs EXCEPT ![r].status = "completed"]
  ELSE runs

\* Mutant: only a job whose dispatch was settled as spent is not queued again.
RecoveredJobUnlessSpent(row) ==
  IF row.dispatch # None /\ attempt[row.dispatch] = "spent"
  THEN [row EXCEPT !.status = "failed"]
  ELSE [row EXCEPT !.status = "pending", !.dispatch = None]

\* recover_expired, for one owner's jobs whose lease ran out.
RecoveredJob(row) ==
  LET sent == IF row.dispatch = None THEN "none" ELSE attempt[row.dispatch] IN
  CASE sent = "open"  -> [row EXCEPT !.status = "uncertain"]
    [] sent = "spent" -> [row EXCEPT !.status = "failed"]
    [] OTHER          -> [row EXCEPT !.status = "pending", !.dispatch = None]

\* Mutant: a job is recovered only while its lease still runs.
ExpiredEarly == {j \in JobId : job[j].status = "running" /\ job[j].lease > 0}

Expired == {j \in JobId : job[j].status = "running" /\ job[j].lease = 0}

Recover(w) ==
  /\ LockFree
  /\ wk[w].pc = "idle"
  /\ Expired # {}
  /\ job' = [j \in JobId |-> IF j \in Expired THEN RecoveredJob(job[j]) ELSE job[j]]
  /\ UNCHANGED <<kind, policy, entry, vector, run, attempt, slot, wk, calls>>

\* What claim_batch makes of a pending job: send it, or why not.
Verdict(j) ==
  LET e == EntryOf(j) IN
  IF ~Attached(entry, j) \/ ~Matches(run[RunOf(j)], e) \/ entry[e].removed THEN "stale"
  ELSE IF ~Allowed(entry, policy, e) THEN "blocked"
  ELSE IF \E other \in Entry : vector[other] = job[j].text THEN "ready"
  ELSE "running"

\* publish_embeddings: a vector already stored for the slice is kept.
WithVectors(js) ==
  [e \in Entry |->
     IF vector[e] = None /\ \E j \in js : EntryOf(j) = e
     THEN CHOOSE t \in Text : \E j \in js : EntryOf(j) = e /\ job[j].text = t
     ELSE vector[e]]

Queued(r) == {j \in JobId : RunOf(j) = r /\ job[j].status = "pending"}

\* claim_batch: the oldest pending jobs of an active run, as many as fit a call.
ClaimBatch(w, r, js, d) ==
  LET chosen == {j \in js : Verdict(j) = "running"} IN
  /\ LockFree
  /\ wk[w].pc = "idle"
  /\ run[r].status = "active"
  /\ js \subseteq Queued(r) /\ js # {}
  /\ js # Queued(r) => chosen # {}
  /\ job' = [j \in JobId |->
               IF j \in chosen
               THEN [job[j] EXCEPT !.status = "running", !.dispatch = d, !.lease = LeaseTTL]
               ELSE IF j \in js THEN [job[j] EXCEPT !.status = Verdict(j)] ELSE job[j]]
  /\ vector' = WithVectors({j \in js : Verdict(j) = "ready"})
  /\ IF chosen = {}
     THEN /\ run' = FinishedRun(run, job', r)
          /\ d = None
          /\ UNCHANGED wk
     ELSE /\ d \in Dispatch /\ attempt[d] = "none"
          /\ \A j \in JobId : job[j].dispatch # d
          /\ \A v \in Worker : wk[v].dispatch # d
          /\ wk' = [wk EXCEPT ![w] = [pc |-> "claimed", run |-> r, jobs |-> chosen,
                                      dispatch |-> d, fresh |-> TRUE, code |-> "none"]]
          /\ UNCHANGED run
  /\ UNCHANGED <<kind, policy, entry, attempt, slot, calls>>

To(w, pc) == wk' = [wk EXCEPT ![w].pc = pc]
Fail(w, code) == wk' = [wk EXCEPT ![w].pc = "failing", ![w].code = code]

\* The call slot is taken, the reservation made, and marked uncertain before any
\* request leaves.
Reserve(w) ==
  /\ wk[w].pc = "claimed"
  /\ slot = None
  /\ slot' = w
  /\ attempt' = [attempt EXCEPT ![wk[w].dispatch] = "open"]
  /\ To(w, "marked")
  /\ UNCHANGED <<kind, policy, entry, vector, run, job, calls>>

\* Disabled, over a limit, or the slot is taken: nothing is reserved.
RefuseReservation(w, code) ==
  /\ wk[w].pc = "claimed"
  /\ code \in {"pause", "busy", "error"}
  /\ Fail(w, code)
  /\ UNCHANGED <<kind, policy, entry, vector, run, job, attempt, slot, calls>>

\* embed's failure path when nothing was sent: the attempt is released, which
\* is itself refused if the owner settled it meanwhile; the slot is left.
Withdraw(w, code) ==
  /\ slot' = None
  /\ IF attempt[wk[w].dispatch] = "open"
     THEN attempt' = [attempt EXCEPT ![wk[w].dispatch] = "released"] /\ Fail(w, code)
     ELSE Fail(w, "error") /\ UNCHANGED attempt

\* Mutant: the batch owns its jobs as long as they bear its dispatch.
OwnedByDispatch(w) == {j \in wk[w].jobs : job[j].dispatch = wk[w].dispatch}

\* The jobs of the batch that are still this dispatch's.
Owned(w) == {j \in wk[w].jobs : job[j].status = "running" /\ job[j].dispatch = wk[w].dispatch}

\* check_dispatch, the transaction before the one that sends.
CheckDispatch(w) ==
  /\ LockFree
  /\ wk[w].pc = "marked"
  /\ LET active == run[wk[w].run].status = "active"
         leased == \A j \in wk[w].jobs : j \in Owned(w) /\ job[j].lease >= Margin
     IN IF active /\ leased
        THEN To(w, "checked") /\ UNCHANGED <<attempt, slot>>
        ELSE Withdraw(w, IF active THEN "context" ELSE "pause")
  /\ UNCHANGED <<kind, policy, entry, vector, run, job, calls>>

\* A database error before anything was sent.
AbandonSend(w) ==
  /\ wk[w].pc \in {"marked", "checked"}
  /\ Withdraw(w, "error")
  /\ UNCHANGED <<kind, policy, entry, vector, run, job, calls>>

\* Mutant: only the passages are looked at, not the owner's permissions.
InputsHoldUnlessMoved(w) == \A j \in wk[w].jobs : Attached(entry, j)

\* embedding_inputs: the revision is the batch's, each passage current and allowed.
InputsHold(w) ==
  /\ wk[w].fresh
  /\ \A j \in wk[w].jobs : Attached(entry, j) /\ Allowed(entry, policy, EntryOf(j))

\* send_passage_embeddings: validated and sent under the owner lock.
Send(w) ==
  /\ LockFree
  /\ wk[w].pc = "checked"
  /\ IF InputsHold(w)
     THEN /\ To(w, "sending")
          /\ calls' = [j \in JobId |-> IF j \in Owned(w) /\ attempt[wk[w].dispatch] = "open"
                                       THEN calls[j] + 1 ELSE calls[j]]
          /\ UNCHANGED <<attempt, slot>>
     ELSE Withdraw(w, "context") /\ UNCHANGED calls
  /\ UNCHANGED <<kind, policy, entry, vector, run, job>>

\* The provider answers, or the call fails with the attempt left uncertain.
Answer(w, ok) ==
  /\ wk[w].pc = "sending"
  /\ IF ok THEN To(w, "answered") /\ UNCHANGED slot
     ELSE Fail(w, "error") /\ slot' = None
  /\ UNCHANGED <<kind, policy, entry, vector, run, job, attempt, calls>>

\* The attempt is settled as spent, unless the owner settled it meanwhile.
Settle(w) ==
  /\ wk[w].pc = "answered"
  /\ slot' = None
  /\ IF attempt[wk[w].dispatch] = "open"
     THEN attempt' = [attempt EXCEPT ![wk[w].dispatch] = "spent"] /\ To(w, "settled")
     ELSE Fail(w, "error") /\ UNCHANGED attempt
  /\ UNCHANGED <<kind, policy, entry, vector, run, job, calls>>

\* The result is published only for jobs this dispatch still runs, and only if
\* what was sent is still current and allowed.
Publish(w) ==
  /\ LockFree
  /\ wk[w].pc = "settled"
  /\ IF Owned(w) = wk[w].jobs /\ InputsHold(w)
     THEN /\ job' = [j \in JobId |-> IF j \in wk[w].jobs
                                     THEN [job[j] EXCEPT !.status = "ready", !.lease = 0]
                                     ELSE job[j]]
          /\ vector' = WithVectors(wk[w].jobs)
          /\ run' = FinishedRun(run, job', wk[w].run)
          /\ wk' = [wk EXCEPT ![w] = Idle]
     ELSE Fail(w, "context") /\ UNCHANGED <<run, job, vector>>
  /\ UNCHANGED <<kind, policy, entry, attempt, slot, calls>>

\* record_failure: an unknown charge is never queued again by itself.
FailedStatus(w) ==
  IF attempt[wk[w].dispatch] = "open" THEN "uncertain"
  ELSE IF wk[w].code \in {"pause", "busy"} THEN "pending"
  ELSE IF wk[w].code = "context" THEN "stale"
  ELSE "failed"

RecordFailure(w) ==
  /\ LockFree
  /\ wk[w].pc = "failing"
  /\ job' = [j \in JobId |-> IF j \in Owned(w)
                             THEN [job[j] EXCEPT !.status = FailedStatus(w), !.lease = 0]
                             ELSE job[j]]
  /\ run' = FinishedRun(IF wk[w].code = "pause"
                        THEN [run EXCEPT ![wk[w].run].status = "paused"] ELSE run,
                        job', wk[w].run)
  /\ wk' = [wk EXCEPT ![w] = Idle]
  /\ UNCHANGED <<kind, policy, entry, vector, attempt, slot, calls>>

\* The process dies: its batch is lost, its locks are freed.
Crash(w) ==
  /\ wk[w].pc # "idle"
  /\ wk' = [wk EXCEPT ![w] = Idle]
  /\ slot' = IF slot = w THEN None ELSE slot
  /\ UNCHANGED <<kind, policy, entry, vector, run, job, attempt, calls>>

Tick ==
  /\ \E j \in JobId : job[j].lease > 0
  /\ job' = [j \in JobId |-> [job[j] EXCEPT !.lease = IF @ > 0 THEN @ - 1 ELSE 0]]
  /\ UNCHANGED <<kind, policy, entry, vector, run, attempt, slot, wk, calls>>

-----------------------------------------------------------------------------
OwnerStep ==
  \/ \E e \in Entry, t \in Text :
       \/ CreateEntry(e, t) \/ UpdateEntry(e, t) \/ ChooseVersion(e, t)
       \/ \E newer \in BOOLEAN : Observe(e, t, newer)
  \/ \E e \in Entry :
       \/ DeleteEntry(e) \/ AllowReimport(e)
       \/ \E b \in BOOLEAN : SetAllowed(e, b) \/ SetSourceState(e, b)
  \/ \E b \in BOOLEAN : UpdatePolicy(b)
  \/ \E r \in Run :
       \/ PauseRun(r) \/ ResumeRun(r)
       \/ \E es \in SUBSET Entry, all, follow \in BOOLEAN : Activate(r, es, all, follow)
  \/ \E j \in JobId : RetryJob(j)
  \/ \E d \in Dispatch, as \in {"spent", "released"} : Reconcile(d, as)

WorkerStep(w) ==
  \/ \E r \in Run, d \in Dispatch \cup {None} :
       \E js \in SUBSET Queued(r) : ClaimBatch(w, r, js, d)
  \/ Reserve(w) \/ CheckDispatch(w) \/ AbandonSend(w) \/ Send(w)
  \/ \E code \in {"pause", "busy", "error"} : RefuseReservation(w, code)
  \/ \E ok \in BOOLEAN : Answer(w, ok)
  \/ Settle(w) \/ Publish(w) \/ RecordFailure(w)

Next ==
  \/ OwnerStep
  \/ \E w \in Worker : WorkerStep(w) \/ Recover(w) \/ Crash(w)
  \/ Tick

Spec == Init /\ [][Next]_vars

(***************************************************************************)
(* Time passes, a worker that has begun goes on (every call it makes has a *)
(* timeout), and every pass of a worker starts with recover_expired, so    *)
(* that claiming other work cannot keep it from recovering for ever.       *)
(***************************************************************************)
FairSpec ==
  /\ Spec
  /\ WF_vars(Tick)
  /\ \A w \in Worker : WF_vars(wk[w].pc # "idle" /\ WorkerStep(w))
  /\ \A w \in Worker : SF_vars(Recover(w))

-----------------------------------------------------------------------------
(***************************************************************************)
(* Correctness.                                                            *)
(***************************************************************************)
\* A stored vector is of the text that is current, of a record that external AI
\* may have: no answer that comes back late, and no change of text, policy or
\* state, leaves a vector of anything else behind.
VectorsAreCurrent ==
  \A e \in Entry : vector[e] # None => /\ vector[e] = entry[e].current
                                       /\ Allowed(entry, policy, e)

\* While a request is at the provider, everything in it is current and allowed:
\* a denial, an edit or a deletion cannot slip between the check and the call.
SendingIsPermitted ==
  \A w \in Worker : wk[w].pc = "sending" =>
    \A j \in wk[w].jobs : /\ Allowed(entry, policy, EntryOf(j))
                          /\ job[j].text = entry[EntryOf(j)].current

\* The provider receives a slice at most once until the owner answers for it, by
\* a retry or by settling the attempt as not charged: neither a crash, a lost
\* answer, an expired lease nor a second worker replays a call that may be paid.
NoBlindReplay == \A j \in JobId : calls[j] <= 1

\* A job is called ready only while its vector is stored.
ReadyHasVector ==
  \A j \in JobId : job[j].status = "ready" =>
    Attached(entry, j) /\ vector[EntryOf(j)] = job[j].text

\* A run is called completed only when nothing of it is queued or being sent.
CompletedRunsAreDone ==
  \A j \in JobId : run[RunOf(j)].status = "completed" =>
    job[j].status \notin {"pending", "running"}

\* A job that failed, went stale, was blocked or is uncertain stays that way until
\* the owner retries it: a worker whose answer is late does not revive it.
RestingJobsWaitForOwner ==
  [][\A j \in JobId : job[j].status \in Resting /\ job'[j].status # job[j].status =>
       job'[j].status = "pending" /\ RetryJob(j)]_vars

\* A job handed to a worker does not stay running for ever, whatever happens to
\* the worker.
RunningJobsReturn ==
  \A j \in JobId : job[j].status = "running" ~> job[j].status # "running"
=============================================================================
