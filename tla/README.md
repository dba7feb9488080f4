# Verification of the lifhop service

lifhop archives what its owner wrote and did elsewhere (ChatGPT conversations, GitHub
activity, Codex sessions, Markdown notes, browser captures), indexes it and answers
questions from it. The parts of it that are hard to get right are not the endpoints but
what goes on behind them for minutes or days: jobs that several worker processes claim,
lose and take over, imports that are resumed after a crash, paid calls whose outcome nobody
learns, and decisions of the owner (delete, disable, reconfigure) that must hold at once for
work that is already under way.
This directory models those parts in TLA+, checks them with TLC on small instances and
proves the safety properties with TLAPS for every value of the constants.

Contents: [inventory](#1-inventory), [modules](#2-modules-and-the-code),
[runs](#3-runs), [fairness](#4-fairness), [proofs](#5-proofs),
[not modelled](#6-what-is-not-modelled), [plan](#7-plan).

## 1. Inventory

All state of the service is in PostgreSQL, the object store (S3), an optional queue (SQS)
and, for the collectors, private spool directories on disk. Several processes
work on it: the HTTP API, the collection, import and embedding workers, and a Codex agent
on another machine that talks HTTP. The processes never call each other. They meet in
database rows, and the code orders them with

- the *owner lock* (`source_history.owner_lock`, `pg_advisory_xact_lock(12022, owner)`),
  which every transaction that touches an owner's records takes first and holds through
  its commit;
- *leases* on job rows (an owner token, an attempt or generation number, a deadline);
- dispatch rows written before a paid call, from which others tell what may have been charged;
- session locks and file locks that die with the process (`pg_advisory_lock(12012)` for
  imports, `flock` on the spool).

What happens *between* two transactions of a worker is what can go wrong.

| Component | State | Operations | Hard behaviour | Correct when |
|---|---|---|---|---|
| Incremental collection (`collection_jobs.py`, `collection_runs.py`, `collection_worker.py`) | policy, subscription (revision, schedule, cursor), jobs, request ids, runs and receipts, spool | enqueue, cancel, retry, schedule, reconfigure, disable; claim, heartbeat, prepare, seal, create batch, ingest, finish, fail | leases that expire under a stalled worker, takeover, crash at every step, late retries, a cursor that lags | one job at a time per source; a stale worker writes nothing; a batch keeps its manifest; success means all of it is archived; the cursor moves once per success |
| Archive imports (`import_jobs.py`, `import_worker.py`, `sqs.py`) | import jobs with counters and a cursor, archives, links to entries, suppressions, queue | upload, submit, retry; reconcile, receive, lock, walk in batches, close, fail; delete, allow, disable | lost and repeated messages, reports that come late, resume after a crash, deletions between batches | each position is judged once; completed means whole; deleted conversations leave no readable original; nothing is added against the owner's decision; every import ends |
| GitHub preparation (`github_incremental.py`, `github*.py`) | progress of branches and threads, rows of known commits, the preparation of a job | bounded reads, branch rotation, sealing, promotion | interruption between any two frames, walks of several branches over one history, force pushes, batches that fall short | a head called complete has its whole history archived; a declared batch is whole; no branch starves |
| Codex agent (`codex_agent.py` on both sides) | credential, subscription, jobs and runs at the service; checkpoint, manifest, batch and marker in the agent's spool | claim, prepare, upload, finish over HTTP; issue, revoke, change the selection, cancel, retry | lost answers, requests executed late, crashes between two writes, cleanup of a batch that is still needed | what runs has a token in force; a bound batch is whole in a spool; a marker is true; the rotation skips no thread whose record was not archived |
| AI usage ledger (`ai_usage.py`) and paid calls (`embedding_call.py`, `rerank_call.py`, `answer_call.py`, `paid` in `conversation_stages.py`) | attempts, three kinds of advisory lock | reserve, mark, send, settle, reconcile | concurrent calls at the budget, kills before settlement, late charges, lost connections, the change of month | a month is never charged more than its limit; every charge is on the ledger; a run keeps to its limits; nothing is settled twice |
| Embedding jobs (`embedding_jobs.py`, `embedding_worker.py`) | runs, jobs, passages, vectors | activate, pause, resume, retry; claim, reserve, check, send, publish, recover | calls that may have been charged, leases that expire at the provider, text and permissions that change meanwhile | no blind replay; no vector of an old or forbidden text; what rests waits for the owner; nothing stays running |
| Source history (`source_history.py`, `external_entries.py`) | entries, versions, suppressions | upsert, select version, delete, allow again | deletion against everything else | what is deleted leaves vectors, answers and originals, and stays away until it is allowed again |
| Stored objects (`attachments.py`, `imports.py`, `s3.py`, `process_purges`, `deletion_ledger.py`) | originals, attachments, upload links, the outbox of purges, backups, the ledger | upload, complete, delete, purge, back up, restore | links that outlive a record, removals that fail or die half way, a backup older than a deletion | nothing stored of a deleted record is forgotten; it is removed in the end; it does not return with a backup |
| Answer conversations (`answer_conversations.py`, `conversation_stages.py`, `conversation_context.py`) | conversation, questions, their stages and sources | ask, plan, search, select, answer, stop, close, delete; redact | a source deleted or withdrawn, a question stopped, while the provider answers; a stage requested twice | nothing made from a deleted record is stored; only what is permitted is sent; a settled question stays; a stage is paid once |
| Search, retrospectives, answer text, importers, accounts, evaluation tools, web client, migrations | none of their own that several actors change | reads, parsing, wiring | none of the kinds above | unit tests reach them |

`PROJECT.json` lists the same components with their files and status, and under `hazards`
every place where this code is hard to test, with the properties that watch it. A hazard no property
watches carries a note that says why.

## 2. Modules and the code

| Module | Role |
|---|---|
| `CollectionJobs` | the incremental collection of one source, in full detail |
| `MCCollectionJobs` | its instances for TLC (manifests, symmetry) |
| `SourceSync` | what the collection of a source promises, without jobs, leases, workers or spool |
| `CollectionRefinement` | maps a state of `CollectionJobs` to one of `SourceSync` |
| `ImportJobs` | the ChatGPT imports of one owner, in full detail |
| `ArchiveImport` | what an import promises, without queue, requests, workers, locks, attempts or batches |
| `ImportRefinement` | maps a state of `ImportJobs` to one of `ArchiveImport` |
| `MCImportJobs` | its instances for TLC (archives, symmetry) |
| `AiUsage` | the ledger of paid AI calls and the callers that spend from it |
| `MCAiUsage` | its instances for TLC (prices, limits, symmetry) |
| `EmbeddingJobs` | the vectors of one source: records, policy, indexing runs and the workers that pay for them |
| `CodexAgent` | collection by the Codex agent: the service, agents, their spools and the requests between them |
| `Conversation` | one saved conversation and the handlers that answer it |
| `GitHubWalk` | the discovery of commits by the incremental jobs of one GitHub source |
| `StoredObjects` | originals, attachments, the outbox of purges, backups and the deletion ledger |
| `MCEmbeddingJobs`, `MCCodexAgent`, `MCConversation`, `MCGitHubWalk`, `MCStoredObjects` | their instances for TLC |
| `CollectionJobsProofs`, `ImportJobsProofs`, `AiUsageProofs`, `EmbeddingJobsProofs`, `CodexAgentProofs`, `ConversationProofs`, `GitHubWalkProofs`, `StoredObjectsProofs` | theorems and their proofs; the first two end with the refinements |

**Grain.** Since each transaction holds the owner lock through its commit, a transaction is
one action, and an action ends where the code commits or leaves the database. A worker is a
program counter `wk[w].pc` with the locals it carries over a commit. Crash is an action at
every point of it. Operators that begin with the comment "Mutant:" are deliberate bugs in
the operator after them; nothing uses them, and each is what one property is shown to catch.

### CollectionJobs

One source, hence one `CollectionSubscription`, and the one spool root that
`docs/guides/PHASE41_COLLECTION.md` requires.

| Variable | Code |
|---|---|
| `policy` | `SourcePolicy.collection_enabled` |
| `sub` | `CollectionSubscription`: `configuration_revision`, schedule, `progress`; the progress is the number of batches it has absorbed since its last reset |
| `job`, `count` | `CollectionJob` rows in creation order |
| `request` | `CollectionRequest`: the job a request UUID was answered with |
| `manual` | an active manual backfill `CollectionRun` |
| `run` | the `CollectionRun` and `CollectionReceipt`s bound to each job; a receipt is none, saved, blocked or failed |
| `spool`, `lock` | the directory `job-<id>` and the `flock` that `client.bundle_lock` takes |
| `wk` | one execution of `collection_worker.run_once` per worker |

Deadlines (`lease_until`, `retry_at`, `next_due_at`) are kept as the time left, and `Tick`
counts all of them down at once; time passes at any point, so a worker may be arbitrarily
slow. The owner's actions are `Enqueue`, `Cancel`, `EnableSchedule`, `DisableSchedule`,
`UpdateDiscussions`, `RetryFailed`, `DisableSource`, `EnableSource`, `StartManual`,
`FinishManual`; the scheduler's is `ScheduleDue`; a worker's, in the order of the code, are
`Claim`, `TakeSpool` (or `SpoolBusy`), `OpenPreparation`, `Heartbeat`, `Prepared`, `Seal`,
`CreateBatch`, `IngestItem`, `Finish`, and the ways out `LoseLease`, `ProviderError`,
`SpoolError`, `ReportFailure`, `Crash`.

Abstractions: a worker's lease token is its name, which later executions reuse (the code
draws a new UUID each time, so the model allows more); request ids of the schedule are
always fresh; the seven days' retention of the spool cleanup is nondeterministic; the back-off is one constant; error
texts and `last_checked_at` are left out. Two branches of `claim` and `schedule_due`
(policy disabled, revision mismatch) turn out to be unreachable because every operation that
disables a source or changes its revision cancels its active job in the same transaction:
`DisabledSourceIsQuiet` and `ActiveIsLatest` say so.

A behaviour worth knowing, though no document promises otherwise: if a job is taken over
while the stalled worker still holds the spool's `flock`, the new claimant meets `SpoolBusy`,
which the code treats as a permanent failure: the job ends as failed and the schedule pauses
until the owner retries.

### SourceSync and CollectionRefinement

`SourceSync` is what the owner may rely on: synchronisations happen one at a time, each
declares its items once, records them one by one, and either succeeds (everything declared
is archived, the cursor moves by one), falls short, or is abandoned; a new configuration
resets the cursor. `CollectionRefinement` maps each job and its run to a synchronisation
(`SyncOf`) and states `ImplementsSourceSync == Source!Spec`. `CursorCountsJobs` is the
consequence for the code's own rows: `sub.progress` is the number of completed or empty jobs
of the revision in force. It fails as soon as one job could be finished twice or an old
preparation could write its progress back.

### ImportJobs

One owner. An archive is a sequence of conversations, and job `j` is also the id of its archive.

| Variable | Code |
|---|---|
| `policy` | `SourcePolicy.collection_enabled` of `chatgpt` |
| `suppression` | `EntrySuppression` of each external id: none, denied, or `reimport_allowed` |
| `material` | `EntryMaterial`: which archives stand behind each entry; empty when there is no entry |
| `blocked` | archives with `ImportArtifact.blocked_at` |
| `job`, `count` | `ImportJob` rows with counters, `item_errors` (positions), `entry_ids`, attempts; `fresh` is the time until `started_at` is stale |
| `submitting` | requests between their commit and the end of `enqueue_import_job`, with the `submitted_attempts` they remember |
| `queue` | jobs with a message that has not been acknowledged |
| `lock` | the owner's session lock 12012 |
| `wk` | one execution of `import_worker.process_one_message` per worker |

A request that has committed may be delivered (`Deliver`, at any time and any number of
times), answered or interrupted (`Answered`), or fail (`SendFails`, also after it was
delivered): that is loss, delay, repetition and a failure reported for a message that
arrived. A worker finds work by reconciliation (`PollDatabase`) or in the queue
(`PollQueue`), takes the session lock or meets `Busy`, then goes through `Redelivered`,
`StillFresh` or `Begin`, `Open`, one `ImportBatch` per commit of the walk, and `Finish`, or
through `Refuse`, `Reject`, `BreakDown` and `RecordFailure`. The owner's `DeleteRecord`,
`AllowReimport`, `SetPolicy`, `Upload` and `Retry` come between any two of these.

Abstractions: a conversation is malformed in every archive or in none; the grace of 60 s
before reconciliation looks at a new job is dropped (it only delays); `with_for_update(
skip_locked=True)` only refuses what another order of the same transactions gives; in the
error path of an import the row is written without the owner lock, but nobody else can
change a RUNNING row while the session lock is held; the purge of blocked objects is in
`StoredObjects`.

### ArchiveImport and ImportRefinement

`ArchiveImport` is an import as its owner sees it: submitted with an archive, walked once from
the first position to the last in stretches of any length (`Advance`, `Conclude`), interrupted
for any reason (`Fail`), tried again (`Reopen`). Each stretch is one step: it judges its
positions by what the owner allows at that moment, stores what is allowed, records the rest as
errors and, where it meets a deleted conversation, blocks the archive. A retry goes on where
the walk stands, unless the walk went through; then it starts over. `ImportRefinement` maps a
job row to such an import: PENDING and RUNNING are both "open", the counters become a position,
attempts and the known total disappear. `ImplementsArchiveImport == Archive!Spec` then says that
no message, crash, takeover, late report or redelivery does anything else to an import, and in
particular that a finished one moves only by the owner's retry.

### AiUsage

Every paid call goes through the same protocol, in `embed`, `rerank`, the answer call and
`conversation_stages.paid`, and the module models that protocol once.

| Variable | Code |
|---|---|
| `attempts` | the table `ai_usage_attempts`: status, scope, run, month, the request with its pinned prices and bounds, cost |
| `slot` | session lock 13033 of a billing scope (`call_slot`): one paid call at a time |
| `run_lock`, `billing_lock` | transaction locks 13034 (owner and run) and 13032 (scope) |
| `caller` | one execution of a paid call per thread or worker |
| `month` | the calendar, as `reserve` reads it |
| `bill` | the provider's own record: unsent, sent, charged for some usage, or free |

A call takes the slot (`EnterSlot`), may be given up while its payload is prepared
(`GiveUp`), takes the two locks of `reserve` one after the other (`LockRun`, `LockBilling`),
is assessed (`Assess` or `Exhausted`) and inserts its row (`Reserve`). The transaction is
split there because its waits, and not only its result, matter: two calls of one run in two
scopes meet in it. `Mark` records the attempt as uncertain *before* it is sent; then the
checks under the owner lock refuse (`Block`) or it is sent (`Send`) and ends with `Answer` or
`Fail`. `Crash` may come at every point and leaves the row as it is. `LoseConnection` and
`SendAdrift` are the one place where the slot can be lost by a call that is still sent:
`paid` prepares and sends on other sessions than the one that holds the lock.
`SettleMax` and `ConfirmNoCharge` are the operator's reconciliation, inside the call slot of
the scope (`check_semantic_retrieval.py`). `Provide` charges a call that was sent, at any
time, also long after the caller gave it up.

The charges of a set of rows are counted as the number of `Units` they consist of, one for
each micro-dollar: a sum that TLC evaluates, that needs no recursion, and about which the
provers can reason with the theorems on cardinality.

Abstractions: the provider charges within the bounds the call was sent with and at the
pinned prices (`input_bound` and `max_output_tokens` are what the code does about that);
the operator confirms no charge truthfully, which is what the option asks for; the clocks of
two processes agree on the month; a run has one limit of money and one of calls, 0 meaning
none; a payload is only its purpose, bounds and prices, and a change of prices is a request
with other prices; `INVALID_RESERVATION` and `INVALID_SETTLEMENT` refuse arguments that no
caller in the code passes; a failure between `Mark` and the end of the call that the code
cannot record, because the process or the connection is gone, is `Crash`. Rows are bounded
by `AttemptId`: `EnterSlot` waits until every reservation under way is sure of one.

### EmbeddingJobs

The vectors of one source, and the workers that pay a provider to make them.

| Variable | Code |
|---|---|
| `kind`, `policy` | whether the source is the owner's notes or collected; `SourcePolicy.external_ai_allowed` |
| `entry` | `Entry` rows with their versions, the current one, and how often the passages were rebuilt |
| `vector` | `PassageEmbedding`: what the stored vector of a record's passage was made from |
| `run`, `job` | `EmbeddingRun` and `EmbeddingJob` rows; a job is known by run, record and rebuild |
| `attempt` | `AiUsageAttempt` of each dispatch: none, open, spent or released |
| `slot` | the worker inside the paid-call slot |
| `wk` | one pass of `embedding_worker` per worker |
| `calls` | what the provider received of a job; kept nowhere in the program |

The records change by `CreateEntry`, `UpdateEntry`, `Observe` (a collected version),
`ChooseVersion`, `SetAllowed`, `SetSourceState`, `DeleteEntry`, `AllowReimport` and
`UpdatePolicy`, each with the whole of `invalidate_context`: vectors pruned, jobs
invalidated, passages queued for the runs that follow. The owner's other actions are
`Activate`, `PauseRun`, `ResumeRun`, `RetryJob` and `Reconcile`. A worker recovers what
expired (`Recover`), claims a batch (`ClaimBatch`), reserves (`Reserve`, or
`RefuseReservation`, `Withdraw`), checks (`CheckDispatch`, or `AbandonSend`), sends
(`Send`), hears (`Answer`), settles (`Settle`), and ends with `Publish` or
`RecordFailure`; `Crash` is possible everywhere. The call is made inside a transaction that
holds the owner lock (`send_passage_embeddings`), so the owner waits from `Send` to `Answer`;
before and after it anything may happen.

Abstractions: a version has one passage of one slice; the policy revision is a flag, whether
it is still the one the batch was claimed at; a reservation may be refused at any time (the
limits are those of `AiUsage`). Worth knowing: `recover_expired` and `invalidate_jobs` do not
call `finish_run`, so that a run with nothing left to do may be called active until its next
batch; a completed run may be paused and resumed; a blocked job is not queued again when its
record is allowed again, and a resumed run that follows may queue a passage another run
already has outstanding. None of these breaks a property below.

### CodexAgent

| Variable | Code |
|---|---|
| `policy`, `sub`, `cred`, `count`, `job`, `run` | the service's rows: policy, subscription with its rotation, credentials, jobs, and the run and receipts bound to each |
| `spool` | the directory `job-<id>` of each agent: checkpoint, preparation, frozen batch, terminal marker |
| `agent` | the agent processes, with the settings they were started with |
| `bundle`, `built` | what each `client_run_uuid` ever made stands for |
| `late` | requests whose agent gave up on them and which are not executed yet |

An agent's request is executed by `Serve` in one transaction. `Call` sends it and hears the
answer; the answer may be lost, in which case the agent is where it was and sends it again or
gives up (`GiveUp`); `Abandon` leaves the request on its way, and `Overtaken` executes it at
any later time. Between requests an agent opens its directory, reads the window, writes the
manifest and renames it (`Open`, `Read`, `Rename`), one write a step, with `Crash` in between;
`Cleanup` removes directories, `LocalError` is a failed read. The owner may `Issue` and
`Disconnect` tokens, `ChangeSelection`, `CollectNow`, `CancelJob`, `SetSchedule`,
`RetryFailed` and `SetPolicy`; `Install` and `SetToken` are the owner's work at the device.
Leases and tokens run out by `LeaseEnds` and `Expire`.

Abstractions: retry times, quotas, device registration, manual Codex backfills and the
reading inside a thread are left out; a thread of a window yields one item. Worth knowing,
and no contradiction of `docs/guides/CODEX_AGENT.md`, which asks for one spool per source:
an agent whose spool lacks the batch its job is bound to makes one of its own, is refused with
409 and claims the job again for ever, since a claim under a valid lease counts no
attempt. The owner sees it and can cancel. An agent that crashes and restarts within its
lease counts none either.

### Conversation

| Variable | Code |
|---|---|
| `present`, `offered` | records not deleted; those indexed and allowed to external AI at their current version |
| `conv`, `epoch` | `AnswerConversation`: its state and `context_epoch` |
| `turn` | `AnswerTurn` rows with their `AnswerTurnSource`s: state, stages begun and sent, context, sources, and what the stored texts were made from |
| `stale`, `time` | the policy revision moved since the unfinished question was claimed; its deadlines |
| `wk` | one handler of a stage request |

Questions are asked afresh, next, or about an earlier answer (`AskFirst`, `AskAfresh`,
`AskNext`, `AskAbout`); a stage goes through `Begin`, `Prepare`, `Dispatch`, `Respond` and one
of `PublishPlan`, `PublishSelection`, `PublishAnswer`, or `Raise` and `RecordFailure`;
`Crash` loses the handler. The owner may `Stop`, `Interrupt`, `CloseOrReopen` and `Delete`;
records change by `Change`, `Reindex` and `DeleteRecord` (`redact_sources`), for which the
shared owner lock matters: a handler keeps it while the provider is called.

Abstractions: a stored text is the set of records it was made from, which is what redaction
is about; a source is a record at its current version; request ids, revisions, payload
sizes and citation numbers only refuse a call, and any stage may fail. There is no liveness:
nothing resumes by itself, as `docs/guides/UNIFIED_ANSWER.md` says.

### GitHubWalk

| Variable | Code |
|---|---|
| `received` | commits with a good receipt |
| `cursor` | `GitHubCommitCursor` rows: entered, or with `ancestry_complete` |
| `progress` | `CollectionSubscription.progress`: a saved stack, its target and the completed head of each branch, and where the rotation starts |
| `prep` | the preparation of the job under way: its copy of the progress, the nodes it learned, what it stored |
| `proc` | what the process working on it does not save: branch, frames left |

The walk is `Preparation.walk`, one frame a step: `Skip` a known commit, `Leave` one whose
parents are covered, `Collect` one already stored, `Enter` one and push its parents; `EndWalk`,
`EndBranch` and `EndGraph` are the three loop ends, and each frame is saved before the
next. `Observe` reads a head, which may have moved or been forced anywhere. `Pause` and
`Crash` end an attempt, and the next one carries on from what was saved (`Open`, `Start`). A
preparation that is done is sealed (`Seal`), archived (`Ingest`) and promoted if its batch was
clean (`Finish`). `Abandon` and `Reconfigure` are the owner's.

Abstractions: parents are part of a commit, documents and discussion threads are left out.
So are the refusals of `walk` (a commit among its own ancestors, a stack that would pass
100,000 frames): they pause the source before the frame is saved, as `Pause` may anywhere.
From `CollectionJobs` it takes that one preparation lives at a time, and that a new
configuration leaves none behind. Worth knowing: one
unreadable commit makes each batch partial and so the progress never passes it, which the code
reports and pauses on; a selected branch that was removed pauses the whole attempt, the
other branches included; a commit that was deleted and allowed again is not fetched
again, as its ancestry is covered.

### StoredObjects

| Variable | Code |
|---|---|
| `db` | the rows: when each record was created, `ImportArtifact` and `Attachment` rows with the records they belong to, `ObjectPurge`, `EntrySuppression`; and, kept nowhere, what belonged to a record when it was deleted |
| `store`, `used` | objects in the store; keys ever drawn |
| `link` | how long the upload link of a key is good |
| `wk` | one pass of `process_purges` |
| `deleted` | how often the owner deleted each record, the clock of `created_at` and `deleted_at` |
| `backup`, `ledger`, `restores` | the latest backup, the export of the suppressions while a backup is being restored, how many were |

`Delete` does the whole of `delete_record`: tombstone, originals blocked and queued,
attachments queued for the end of their links. `ImportBatch` is one transaction of
`_process_locked_job`: a conversation that was deleted blocks the archive, the others of its
batch are imported all the same, and the next batch is refused. `Put` uses a link at any time while it lasts,
before or after anything. A pass is `BeginPass`, one `Remove` or `FailToRemove` per object, and
`CommitPass`; `Crash` comes in between, when what was removed is gone and the outbox does not
know. `TakeBackup`, `Restore` and `ApplyLedger` follow the procedure of
`docs/guides/HISTORY.md`, with the ledger exported after its last change.

Abstractions: what an archive holds is open; a pass takes all that is due in any order (the
code takes 20 by id, so twenty objects that can never be removed would hold up the rest); the
versions of an object are the object. Two are about time. An upload is one step while
its link lasts; a PUT begun just before the link runs out may end later, and all that covers it
is the 60 s between the link's 600 s (`s3.py:76`) and the 660 s of `queue_purge`. And the times that
`apply_ledger` compares are ordered as the owner lock let the transactions through, while in
the code `created_at` and a first `deleted_at` are when their transaction began and a later
`deleted_at` is the clock of the process (`source_history.py:109`): what follows when a
transaction waits for the lock, or when clocks differ, the model does not show.

Three things the model shows that the properties do not forbid, since the code does not
prevent them. A request that dies between storing an original and its commit leaves an object
no row names (`LoseUpload`). An object that was made *and* queued for removal after the
backup that is restored is in no row either: `gone`, what the database knows to have belonged
to deleted records, goes back with it, so that `NothingIsForgotten` says nothing of this object. And a deleted *manual note* has no identity,
so `delete_record` writes no suppression for it (`source_history.py:104`) and a restored backup
brings it back, while `docs/guides/HISTORY.md:162` says of the ledger that "an older backup
cannot restore pre-deletion content": with `Named = {}`, a note is created, backed up, deleted and
back after the ledger was applied, in five steps. `LedgerIsHonoured` is therefore about records
with an identity.

## 3. Runs

| Run | Instance | Shows |
|---|---|---|
| `takeover` | 2 workers, 1 job, 2 items, 2 attempts, 2 revisions; fairness | `BatchHasItsManifest`, `SuccessIsComplete`, `StaleWorkersAreFenced`, `JobsSettle`, `ImplementsSourceSync` |
| `sequence` | 1 worker, 2 jobs, 1 item, 2 revisions, 1 request id, whole and gappy manifests | `PreparedFromCurrentProgress`, `CursorCountsJobs` |
| `import_resume` | 2 workers, 1 job, 2 attempts, batches of 1, the archive `<<a, x>>` with `x` malformed; fairness | `CountersMatchCursor`, `AutomaticRetryIsKept`, `ImplementsArchiveImport`, `ImportsSettle` |
| `import_deletion` | 1 worker, 2 jobs, each of `<<a, b>>` or of `<<a, x>>` with `x` malformed, 1 attempt, batches of 1 | `OriginalsAreBlocked`, `CompletedIsWhole`, `OwnerDecisionsHold` |
| `ai_budget` | 2 callers, 2 scopes, 1 run, 2 attempts, requests of 1, 2 and 3 units, 2 months, limits of 3 (month), 4 and 2 calls (run); fairness | `BillWithinLimit`, `RunWithinLimits`, `LedgerCoversBill`, `SlotComesFree` |
| `embedding_workers` | 2 workers, 2 dispatches, 1 record, 1 text | `SendingIsPermitted`, `NoBlindReplay`, `RestingJobsWaitForOwner` |
| `embedding_edits` | 1 worker, 1 dispatch, 1 record, 2 texts, 2 rebuilds; fairness | `VectorsAreCurrent`, `ReadyHasVector`, `RunningJobsReturn` |
| `codex_late` | 1 agent, 2 tokens, 2 selections, 1 job, 1 request executed late | `RunningJobHasLiveCredential`, `MarkersAreTrue` |
| `codex_spools` | 2 agents with a spool each, 1 token, 2 bundles, generations up to 2; deferred threads, invalid records | `BoundBatchHasSpool`, `RotationSkipsNothing` |
| `conversation` | 1 record, 2 handlers, 2 questions | `NoTraceOfDeleted`, `SentIsPermitted`, `SettledTurnsStay`, `PaidOnce` |
| `github_walk` | a commit and its parent, 2 branches that may be at either, 1 frame a cycle; fairness | `CompletedIsArchived`, `DeclaredIsWhole`, `WalksAgree`, `NoBranchStarves` |
| `stored_objects` | 1 record, 2 objects, 1 worker, 2 deletions, 1 restored backup; links of 1 tick, purges after 2; fairness | `NothingIsForgotten`, `LedgerIsHonoured`, `LivingRecordsStay`, `PurgesHappen` |

**Why the bounds are enough.** *Collection.* A takeover needs two workers and one job; a third
worker repeats what the second does, since all that workers share is the rows. Whatever one
job can do to the next (the cursor, the schedule, a retry after a newer job) needs two jobs and
one change of the configuration, but only one worker. Deadlines are one tick: what matters is
on which side of a deadline a step falls, and `Tick` may come at any point. Two items show a
batch that is half done, and the manifests cover clean, gappy, empty and partly unreadable
ones. *Imports.* `<<a, x>>` in batches of 1 has a commit inside the walk and one at its end,
a good and a malformed conversation, and an attempt to spare after an interruption; deletions
need two archives that share conversations and one item per batch, so that a deletion
falls between any two positions. Only an archive without a malformed conversation can be
completed, so `CompletedIsWhole` is checked there, where `<<a, b>>` is completed and `<<a, x>>`
must not be. *Ledger.* It needs two scopes that one run spends from,
because the locks of a scope alone would not protect the run; a limit that two calls reach or
exceed (two attempts cannot pass the limit of 2 calls, which is left to the proof of
`RunWithinLimits`); two months, so that an unknown outcome outlives the month it belongs to; and calls
whose charge is less than their reservation. *Embedding.* A lease that expires at the provider
needs two workers and two dispatches but no edit; an edit or denial at any point of a call
needs a second text and a rebuild, but one worker. *Codex.* A request executed late
needs a token that was replaced meanwhile and a second selection; a cleanup of what
another needs, a second spool and a second bundle of one job. *Conversation.* A follow-up that
inherits a source needs two questions, a stage requested twice two handlers; two records with
one handler (1.06 million states) and a third question (8 million states, not exhausted) were
tried by hand and showed nothing else. *Walk.* One frame a cycle leaves a walk open after every frame, and
with a common parent each branch meets what the other has half walked. A line of three commits
(3.1 million states) and a merge of three (3.4 million) were checked by hand for safety.
*Objects.* One record that is made, deleted, allowed and made again is what a
backup can be wrong about; two objects are an original and an attachment, or one that
is removed and one that is not; a note beside the record (1.2 million states), and two
records that one batch of an archive may import together, deleted once each (2.3 million
states), were checked by hand for safety and add nothing. All safety properties and both refinements are also proved without the bounds
(section 5). `ImplementsArchiveImport` was checked by hand too in the instance of
`import_deletion` with `<<a, b>>` alone (1.2 million states) and with batches of 2 in an archive of 3.

Deadlock is checked in all runs but `ai_budget`, which stops when the bounded rows are used up
and settled. In the others time passes or somebody can always do something.

Every property has a mutant in `PROJECT.json`, a plausible bug in one operator that the run
must and does find: a lock of the run that does not exclude (`LockRunShared`), a preparation
that no longer remembers which progress it started from (`SealedWithoutBase`), an import that
counts as completed whatever failed (`ClosedIgnoringFailures`), a recovery that queues again
what may have been paid (`RecoveredJobUnlessSpent`), a cleanup that trusts any terminal marker
(`RemovableOnceTerminal`), a redaction that looks at selected sources only (`SelectedFrom`), a
walk that stops at any commit it knows (`KnownAlready`), a purge that does not wait for the
upload link (`DueAtOnce`), a ledger applied without a look at when a record was created
(`CoveredWheneverDeleted`).

Some proved invariants are not listed in a run, because they add nothing to show on a small
instance: the `TypeOK` of each proved module, `ActiveIsLatest`, `AttemptsBounded`,
`SpoolIsPrivate`, `ReceiptsAreDurable`, `DisabledSourceIsQuiet`, `ManualExcludesJobs`,
`SettledStays`, `CursorNeverRegresses`, `RequestsStayBound`, `PendingIsRunnable`, `FinishedStays`,
`ExposureWithinLimit`, `SettledForGood`, `CompletedRunsAreDone`, `PurgedIsRemoved`, and the two
promises of `SourceSync`.

## 4. Fairness

Safety assumes none. For `JobsSettle`, `FairSpec` of `CollectionJobs` has weak fairness of
`Tick` and of `Step(w)`: time passes, and a worker that can take its next step takes it, as
`main` does in its endless loop. Crashes, provider errors and stalls have no fairness and may
come at every step; that a job settles all the same is the attempt limit's doing.

For `ImportsSettle`, `FairSpec` of `ImportJobs` has weak fairness of `Tick` and `Step(w)` and
strong fairness of `PollDatabase(w)`, and of `TakeLock(w)` and `Begin(w)` for work found
there. The reason is `receive_import_job_message`: each cycle asks the database *before* the
queue, so a worker that again and again finds itself idle while an import waits does not
choose the queue for ever. No fairness is assumed of deliveries: the queue may lose
everything. Strong fairness of `Begin` rules out only that every worker dies for ever between
taking the lock and its first commit, an execution in which no attempt is counted. The run
has one job: with two, an owner who submits an older import again by hand for ever
keeps the oldest-first reconciliation from the newer one, which is not a schedule the code
controls.

For `SlotComesFree`, `FairSpec` of `AiUsage` has weak fairness of `Progress(c)`, the next step
of a call, since the code bounds its waits for the owner lock (`lock_timeout`,
`statement_timeout`) and for the provider (its timeout), and strong fairness of `LockRun(c)` and `LockBilling(c)`, since
PostgreSQL grants an advisory lock to those who wait for it in the order they came. There is
none of crashes, of the operator or of the provider, and none of `GiveUp`: the slot
comes free because every path through the call releases it.

For `RunningJobsReturn`, `FairSpec` of `EmbeddingJobs` has weak fairness of `Tick` and of the
steps of a worker that has begun a batch, since every call it makes has a timeout, and strong
fairness of `Recover(w)`: each pass of a worker starts with `recover_expired`, so that claiming
other work cannot keep it from recovering for ever. Crashes and expiries are free.

For `NoBranchStarves`, `FairSpec` of `GitHubWalk` has weak fairness of `Work`, the next step
of the worker, which polls for ever. The property excuses a branch that does not rest at one
head, and executions in which faults (failed attempts, crashes, short batches, decisions of
the owner) never end: each of these may lawfully undo a cycle.

For `PurgesHappen`, `FairSpec` of `StoredObjects` has weak fairness of `Tick`, of `ApplyLedger`
(a service whose backup was restored is started again) and of `Purge(w)`, the pass with which
each cycle of the import worker begins. It excuses executions in which removals or workers
fail for ever.

## 5. Proofs

Every theorem is checked by TLAPS without assumptions beyond the named `ASSUME`s of the
modules, which TLC evaluates in the runs: constants have the obvious types, limits are at
least one, `NoWorker` is not a worker, manifests and archives consist of items, an upload link
lives shorter than a purge waits (600 s in `s3.py`, 660 s in `queue_purge`),
and the value for "no export" is not an export.

**CollectionJobs.** `TypeOK` is inductive. The rest needs three strengthenings, each on top
of the one before:

- `RowInv` relates the rows: only the latest job can be active, it has the current revision,
  a disabled source has neither job nor schedule, jobs and manual backfills exclude each
  other, later ids are absent. It gives `ActiveIsLatest`, `DisabledSourceIsQuiet`,
  `ManualExcludesJobs`, `AttemptsBounded`.
- `SpoolInv` relates the spool, the lock and the workers: who is in the spool holds the lock
  alone, what a worker will do next agrees with the state of the directory of its job, a recoverable
  directory was opened from the cursor in force, a batch that can be continued has its
  manifest. It gives `PreparedFromCurrentProgress`, `BatchHasItsManifest`, `SpoolIsPrivate`.
- `ReceiptInv` relates runs, receipts and the items a worker still has to do. It gives
  `SuccessIsComplete`.

The action properties `StaleWorkersAreFenced`, `SettledStays`, `CursorNeverRegresses`,
`RequestsStayBound` and `ReceiptsAreDurable` follow from these, one step per action.

**Refinement of SourceSync.** The end of `CollectionJobsProofs` proves
`Spec => ImplementsSourceSync`: each action of the jobs is a step of `SourceSync` or a stutter
under the mapping, using the conjunction of the invariants above. From there the promises of
`SourceSync` are proved of the jobs themselves, through the mapping (`PromiseKept`): the abstract
cursor is the *cardinality* of the set of successes since the configuration in force
(`CursorStep` goes through what a step can do to that set), and each success archived all it
declared. `CursorCountsJobsAlways` is the same for the code's own rows.

**ImportJobs.** The inductive invariant `IInv` has six parts. `Rows`: counters, errors,
results and cursor of each row agree, and a completed row is whole. `Refs`: messages,
requests and workers only name jobs there are. `Requests`: what a request remembers is out
of date once its job was begun. `Control`: a worker inside an import holds the session
lock, its job is running and its loop index is the cursor. `Links`: each position up to the
cursor is malformed, linked to its record, or its archive is blocked. With `TypeOK`, none of
them is inductive alone: that a batch ends inside the archive needs `Control`, and that a
row stays consistent needs both. `RowsChange` lists once and for all what a step can do to
a row; the proofs about rows are case splits over that list. Eight theorems follow.
`JudgedCounts` and `BoundaryAhead` are the arithmetic of a batch, for every batch size.

**Refinement of ArchiveImport.** The end of `ImportJobsProofs` proves
`Spec => ImplementsArchiveImport` (`ImportsAreWalks`). A commit of the walk is an `Advance` and
the last one a `Conclude` (`BatchWalks`: the positions from the worker's loop to its next
boundary are those ahead of the import, and what the batch stores, records and blocks is what
the abstract step does); `ResultAgrees` shows that the code's counters decide the result as the
set of errors does. Every end of an attempt is a `Fail` or, if a retry is left, a stutter. One
more invariant is needed, `Totals`: the row's total is 0 until an attempt has opened the archive
and its length ever since the cursor left the start. `retry_import_job` tells a complete walk by
comparing the cursor with that total, so without `Totals` a retry could rewind a walk that was
only interrupted.

**AiUsage.** The inductive invariant `IInv` has, besides `TypeOK`, four parts. `LocksHeld`: who
is in a phase of a call holds the locks of that phase. `RowsHeld`: the row a caller holds is
its own alone, and open for as long as the caller can settle it; a row whose slot is free is
held only by a caller that is adrift. `RowsSound`: a charge is never above the reservation,
nor below what the provider charged, and as long as the provider has not charged, the row
stands for the whole reservation. `Budgets`: the limits hold, also for the rows *of* each
month (`BookedWithinLimit`), and what `Assess` found to fit still fits when the row is
inserted (`StillFits`). `StillFits` is the heart of the argument: between the two, other
calls may settle, reconcile, crash or move to the next month, and each of those only lowers
what is at stake (`BudgetsLower`), while a reservation that could raise it would need a lock
the caller holds. `BillLimited` follows since each unit the provider charged is a unit of a
row booked in that month. Six theorems follow;
`CostsBounded` is the arithmetic of prices and rounding.

**EmbeddingJobs.** The invariant is built in layers. `Rows`: a job's text is that of the
passage it was made for. With it `Vectors`, the conjunction of `VectorsAreCurrent` and
`ReadyHasVector`, is inductive: every change of records is shown to be a `Change`, an arbitrary
move of records and policy followed by `Invalidate`, so that the eight operations on records
share one proof. `SendingPermitted` needs that what was checked still holds while the owner
lock is held. `Charges` says of every dispatch that it is one worker's, that its attempt is
opened before the call, and that a job is queued again only when its attempt is known to be
free; `NoReplay` follows, for any number of workers and any interleaving of leases, answers and
recoveries.

**CodexAgent.** `Sound`: types, and what the directory of an agent holds at each point of its
program. `Ordered`: only the latest job is active. `Tokens`: what runs, runs for a token in
force; the proof is a case for each request the service may execute, early or late. `Kept` is
about the spools: a bundle stands for one window for ever (`Made`), what is prepared for a job
that can go on starts where the rotation stands, or stood before its own batch moved it
(`Windows`), an upload still under way is of a batch its agent still has (`LateBatches`), and
markers are true. That a batch is never lost needs all of them, since a cleanup goes by the
marker alone.

**Conversation.** `Lineage`: the sources of a question include those of the questions it refers
to and those of its own stored text, and a redacted question has no text. That is what makes
redaction by source reach every follow-up, however long the chain. `Duties`: a stage has one
handler at a time, and what the handler carries was made from sources of its question.

**GitHubWalk.** `WalksSound`, for the rows in force and for the preparation's view of them:
covered commits are closed under parents; a commit that is about to be left has each parent
covered or above it on the stack; a walk that is over covered its target. With `Held` (known
commits were stored or received), what is called complete is whole. The commit graph
need not be acyclic or finite.

**StoredObjects.** The inductive invariant has four parts besides `TypeOK`. `Accounted` says of a
database how its rows go with the store and the links: what is queued waits at least as long as
its link lasts, and what belongs to a deleted record and is in no queue is neither stored nor
linked. It is stated of the database in force *and* of the backup, against the same store, since
a restored backup must be true of a store that went on without it; `Delete`, `Put` and the
passes are shown to keep it for both. `Passes`: a pass holds rows that are due and that no other
holds, and what it removed is gone. `Suppressions`: the tombstones that count (the exported ones
while a backup is being restored) know every deletion, and a database has a record only if it
was created after the last deletion it knows of, again both for the rows in force and for the
backup. `Nameless`: a manual note has no tombstone anywhere. `NothingForgotten` and
`LedgerHonoured` follow, the first about what the database in force knows to be deleted. So does
`LivingRecordsRemain`: a record created after its last deletion is as old as the tombstone in the
ledger, so that `apply_ledger` leaves it alone. Its proof sorts the steps by what they do to
records and suppressions (`StepKinds`: nothing, create by leave, or one of the steps named), as
does that of `Suppressions`. And so does `RemovedForGood`, which no run
lists: what a pass removed, whether or not it lived to commit, is never stored again.

**Only model-checked.** Liveness (`JobsSettle`, `ImportsSettle`, `SlotComesFree`,
`RunningJobsReturn`, `NoBranchStarves`, `PurgesHappen`): fairness and ENABLED are outside the
prover's reach.

## 6. What is not modelled

- The contents of records, and which of two versions is the newer: `Observe` is told. A
  version frontier that goes back and forth (an observation equal to a retained version
  is a replay and keeps the owner's selection) is left out with it.
- GitHub issue and pull request threads: their paging, the reserve of frames for the thread
  that was checked longest ago, and the documents of a commit. A batch may fall short for
  any reason, which stands for what they can do to the walk.
- Availability that the code gives up on purpose: `SpoolBusy` at a takeover fails the job until
  the owner retries; only the owner's oldest import candidate is offered, so that a younger
  one waits for its attempts to run out (`ImportsSettle` is checked with one job for that
  reason); the two-spool refusals of the Codex agent.
- More than one spool root for GitHub. The guide forbids it.
- Storage upgrades of embeddings and the backfill of passages, limits on the number of jobs
  and runs, `review_required` entries, and passages of several slices.
- The texts that paid calls send and receive, and the checks of evidence in them: either
  outcome may happen.
- Downloads, the listing of object versions at S3, and the limit of 20 objects a pass.
- Presentations of Codex and other records (`codex_presentation`), search, retrospectives,
  accounts, evaluation and acquisition tools, the web client and the migrations: they hold no
  state that several actors change, or only through components listed above.

## 7. Plan

The first plan (jobs, imports, ledger, embedding, Codex agent, conversations, commit walk,
stored objects) is carried out. What would come next, in order:

1. Threads of the GitHub preparation: paging with a saved page, rotation and the oldest-checked
   reserve, beside the commit walk in one budget. To check: no thread starves, also one
   that changes in every cycle.
2. Versions: the frontier of `external_entries.py`, retained candidates and the owner's choice,
   on which `EmbeddingJobs` and `Conversation` both rest.
3. `EmbeddingJobs` composed with `AiUsage`, whose reservation it now takes as a choice.
