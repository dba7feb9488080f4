---------------------------- MODULE StoredObjects ----------------------------
(***************************************************************************)
(* What the object store keeps of one owner's records: the files they were *)
(* imported from and their attachments, the outbox that removes them once  *)
(* a record is deleted, upload links that outlive the deletion, and the    *)
(* database backups that know nothing of later deletions, with the ledger  *)
(* an operator applies after restoring one.                                *)
(*                                                                         *)
(* A transaction of the owner or of an import holds the owner lock through *)
(* commit, and so is an action.  A pass of the purge worker is one long    *)
(* transaction too, but what it removes from the store meanwhile stays     *)
(* removed when it dies.                                                   *)
(*                                                                         *)
(* Abstractions.  Times that are compared, created_at and deleted_at, are  *)
(* the number of times the owner had deleted the record by then: the order *)
(* in which the owner lock let the transactions through.  In the code      *)
(* created_at and a first deleted_at are when their transaction began, a   *)
(* later deleted_at is the clock of the process; a transaction that waited *)
(* for the lock, or a clock that differs, is outside the model.  Due times *)
(* and the life of upload links are the time left; an upload is one step   *)
(* while its link is good.  One begun before may end later: what the 660 s *)
(* of queue_purge leave of 600 s is all the code allows for it, and the    *)
(* model has no such upload.  What an archive holds, and whether its       *)
(* import goes on, is open (see ImportJobs); a pass takes all that is due, *)
(* in any order.                                                           *)
(***************************************************************************)
EXTENDS Naturals, FiniteSets

CONSTANTS
  Record,        \* the owner's records, by identity
  Named,         \* those whose identity outlives them: all but manual notes
  Object,        \* keys of the object store, each drawn once
  Worker,        \* processes that purge
  None,          \* no record, no row
  LinkLife,      \* 600 s, in ticks
  PurgeDelay,    \* 660 s
  RetryDelay,    \* 60 s
  MaxDeletions,  \* bound: deletions of a record
  MaxRestores    \* bound: restored backups

ASSUME NamesAssumption == Named \subseteq Record /\ None \notin Record \cup Nat
ASSUME DelaysAssumption ==
  /\ LinkLife \in Nat /\ PurgeDelay \in Nat /\ RetryDelay \in Nat
  /\ LinkLife < PurgeDelay /\ RetryDelay <= PurgeDelay
  /\ MaxDeletions \in Nat /\ MaxRestores \in Nat

VARIABLES
  db,        \* the rows about records, objects, purges and suppressions
  store,     \* the objects in the store
  used,      \* keys ever drawn
  link,      \* how long the upload link of a key is still good
  wk,        \* a worker's pass: the rows it locked, what it removed or could not
  deleted,   \* how often the owner has deleted each record
  backup,    \* the latest backup of the database
  ledger,    \* the latest export of the suppressions, while a backup is restored
  restores   \* how many backups were restored

vars == <<db, store, used, link, wk, deleted, backup, ledger, restores>>

Times == 0..MaxDeletions
\* entry: when a record was created.  object: attachments, pending or uploaded, and
\* originals, kept, blocked or purged, with the records they belong to.  purge: the time
\* until it is due.  gone: what belonged to a record when it was deleted, the deletions
\* before a restored backup was taken and those of apply_ledger (kept nowhere).
ObjectRow ==
  [kind : {"none", "pending", "uploaded", "kept", "blocked", "purged"}, of : SUBSET Record]
Suppression == [at : Times, allowed : BOOLEAN]
Database ==
  [entry : [Record -> Times \cup {None}], object : [Object -> ObjectRow],
   purge : [Object -> (0..PurgeDelay) \cup {None}],
   suppression : [Record -> Suppression], gone : SUBSET Object]
Pass == [batch : SUBSET Object, done : SUBSET Object, failed : SUBSET Object]

\* No export of the suppressions is taken for none.
ASSUME ExportAssumption == None \notin [Record -> Suppression]

NoRow == [kind |-> "none", of |-> {}]
Resting == [batch |-> {}, done |-> {}, failed |-> {}]
Empty ==
  [entry |-> [r \in Record |-> None], object |-> [o \in Object |-> NoRow],
   purge |-> [o \in Object |-> None],
   suppression |-> [r \in Record |-> [at |-> 0, allowed |-> FALSE]], gone |-> {}]

TypeOK ==
  /\ db \in Database /\ backup \in Database
  /\ store \subseteq Object /\ used \subseteq Object
  /\ link \in [Object -> 0..LinkLife]
  /\ wk \in [Worker -> Pass]
  /\ deleted \in [Record -> Times]
  /\ ledger \in [Record -> Suppression] \cup {None}
  /\ restores \in 0..MaxRestores

Init ==
  /\ db = Empty /\ backup = Empty
  /\ store = {} /\ used = {}
  /\ link = [o \in Object |-> 0]
  /\ wk = [w \in Worker |-> Resting]
  /\ deleted = [r \in Record |-> 0]
  /\ ledger = None
  /\ restores = 0

-----------------------------------------------------------------------------
(***************************************************************************)
(* Rows.                                                                   *)
(***************************************************************************)
Serving == ledger = None
Attachment(row) == row.kind \in {"pending", "uploaded"}

\* check_collection: a deleted identity is refused until the owner allows it again.
Denied(r) == db.suppression[r].at # 0 /\ ~db.suppression[r].allowed

\* Mutant: the purge of an attachment does not wait for its upload link.
DueAtOnce(row) == 0

\* queue_purge: an attachment may still be uploaded until its link runs out.
Due(row) == IF Attachment(row) THEN PurgeDelay ELSE 0

\* block_artifact, and what delete_record does to an original: blocked at once, and
\* queued unless it was blocked before.
Blocked(d, O) ==
  LET new == {o \in O : d.object[o].kind = "kept"}
  IN [d EXCEPT
        !.object = [o \in Object |-> IF o \in new THEN [@[o] EXCEPT !.kind = "blocked"] ELSE @[o]],
        !.purge = [o \in Object |-> IF o \in new THEN Due(d.object[o]) ELSE @[o]],
        !.gone = @ \cup O]

\* The rows of attachments go with their record.
Detached(d, R) ==
  LET own == {o \in Object : Attachment(d.object[o]) /\ d.object[o].of \subseteq R}
  IN [d EXCEPT
        !.object = [o \in Object |-> IF o \in own THEN NoRow
                                     ELSE [d.object[o] EXCEPT !.of = @ \ R]],
        !.purge = [o \in Object |-> IF o \in own THEN Due(d.object[o]) ELSE @[o]],
        !.gone = @ \cup own]

\* delete_record, for records R.
Deleted(d, R) ==
  LET originals == {o \in Object : ~Attachment(d.object[o]) /\ d.object[o].of \cap R # {}}
  IN [Detached(Blocked(d, originals), R) EXCEPT
        !.entry = [r \in Record |-> IF r \in R THEN None ELSE @[r]]]

\* Mutant: deleting a record again leaves its first tombstone as it was.
SuppressedOnce(r, at) ==
  IF db.suppression[r].at # 0 THEN [db.suppression[r] EXCEPT !.allowed = FALSE]
  ELSE [at |-> at, allowed |-> FALSE]

\* The tombstone of a record that is deleted, if it has an identity.
Suppressed(r, at) ==
  IF r \in Named THEN [at |-> at, allowed |-> FALSE] ELSE db.suppression[r]

-----------------------------------------------------------------------------
(***************************************************************************)
(* Records and their files.                                                *)
(***************************************************************************)
Elsewhere == UNCHANGED <<wk, deleted, backup, ledger, restores>>

\* capture_snapshot, by upsert_external_entry (and create_entry, for a manual note, which
\* nothing denies): a record without an original.
Create(r) ==
  /\ Serving /\ db.entry[r] = None /\ ~Denied(r)
  /\ db' = [db EXCEPT !.entry[r] = deleted[r]]
  /\ UNCHANGED <<store, used, link>> /\ Elsewhere

\* The record as of an import: found, or created.
Imported(r) == IF db.entry[r] = None THEN deleted[r] ELSE db.entry[r]

\* import_markdown: the file is stored first, its record and the link to it in one
\* transaction.
UploadMarkdown(r, o) ==
  /\ Serving /\ r \in Named /\ ~Denied(r) /\ o \notin used
  /\ store' = store \cup {o} /\ used' = used \cup {o}
  /\ db' = [db EXCEPT !.object[o] = [kind |-> "kept", of |-> {r}], !.entry[r] = Imported(r)]
  /\ UNCHANGED link /\ Elsewhere

\* import_chatgpt: an archive, whose records are imported later.
UploadArchive(o) ==
  /\ Serving /\ o \notin used
  /\ store' = store \cup {o} /\ used' = used \cup {o}
  /\ db' = [db EXCEPT !.object[o] = [kind |-> "kept", of |-> {}]]
  /\ UNCHANGED link /\ Elsewhere

\* The process dies, or the transaction fails, after the file was stored.
LoseUpload(o) ==
  /\ Serving /\ o \notin used
  /\ store' = store \cup {o} /\ used' = used \cup {o}
  /\ UNCHANGED <<db, link>> /\ Elsewhere

\* A batch of an archive that nothing blocked so far: conversations R are imported, and
\* if one of them is found to be deleted the archive is blocked, though not the others.
ImportBatch(R, o) ==
  /\ Serving /\ db.object[o].kind = "kept"
  /\ LET found == {r \in R : ~Denied(r)}
         d == IF found = R THEN db ELSE Blocked(db, {o})
     IN db' = [d EXCEPT !.object[o].of = @ \cup found,
                        !.entry = [r \in Record |-> IF r \in found THEN Imported(r) ELSE @[r]]]
  /\ UNCHANGED <<store, used, link>> /\ Elsewhere

\* create_attachment: the owner gets a link to upload it with.
CreateAttachment(r, o) ==
  /\ Serving /\ db.entry[r] # None /\ o \notin used
  /\ used' = used \cup {o}
  /\ link' = [link EXCEPT ![o] = LinkLife]
  /\ db' = [db EXCEPT !.object[o] = [kind |-> "pending", of |-> {r}]]
  /\ UNCHANGED store /\ Elsewhere

\* The link is used: once or again, before and after anything.
Put(o) ==
  /\ link[o] > 0 /\ store' = store \cup {o}
  /\ UNCHANGED <<db, used, link>> /\ Elsewhere

\* complete_attachment.
CompleteAttachment(o) ==
  /\ Serving /\ Attachment(db.object[o]) /\ o \in store
  /\ db' = [db EXCEPT !.object[o].kind = "uploaded"]
  /\ UNCHANGED <<store, used, link>> /\ Elsewhere

\* delete_entry.
Delete(r) ==
  /\ Serving /\ db.entry[r] # None /\ deleted[r] < MaxDeletions
  /\ deleted' = [deleted EXCEPT ![r] = @ + 1]
  /\ db' = [Deleted(db, {r}) EXCEPT !.suppression[r] = Suppressed(r, deleted[r] + 1)]
  /\ UNCHANGED <<store, used, link, wk, backup, ledger, restores>>

AllowReimport(r) ==
  /\ Serving /\ db.suppression[r].at # 0
  /\ db' = [db EXCEPT !.suppression[r].allowed = TRUE]
  /\ UNCHANGED <<store, used, link>> /\ Elsewhere

-----------------------------------------------------------------------------
(***************************************************************************)
(* The outbox.                                                             *)
(***************************************************************************)
Goto(w, pass) ==
  /\ wk' = [wk EXCEPT ![w] = pass]
  /\ UNCHANGED <<used, link, deleted, backup, ledger, restores>>

\* Mutant: the outbox is joined with the rows of the objects, which may be gone.
DueWithRow == {o \in Object : db.purge[o] = 0 /\ db.object[o] # NoRow}

DueNow == {o \in Object : db.purge[o] = 0}

\* A pass locks what is due and not locked by another (skip_locked).
BeginPass(w) ==
  /\ Serving /\ wk[w] = Resting
  /\ LET due == DueNow \ UNION {wk[v].batch : v \in Worker}
     IN due # {} /\ Goto(w, [Resting EXCEPT !.batch = due])
  /\ UNCHANGED <<db, store>>

Left(w) == wk[w].batch \ (wk[w].done \cup wk[w].failed)

Remove(w, o) ==
  /\ o \in Left(w)
  /\ store' = store \ {o}
  /\ Goto(w, [wk[w] EXCEPT !.done = @ \cup {o}])
  /\ UNCHANGED db

\* delete_object raises: the object may be there still, or the answer was lost.
FailToRemove(w, o) ==
  /\ o \in Left(w)
  /\ store' \in {store, store \ {o}}
  /\ Goto(w, [wk[w] EXCEPT !.failed = @ \cup {o}])
  /\ UNCHANGED db

\* What is removed leaves the outbox, what is not is tried again.
Retried(d, w) == [o \in Object |-> IF o \in wk[w].done THEN None
                                   ELSE IF o \in wk[w].failed THEN RetryDelay ELSE d.purge[o]]

\* The pass commits: the rows of removed originals are scrubbed.
CommitPass(w) ==
  /\ wk[w].batch # {} /\ Left(w) = {}
  /\ db' = [db EXCEPT
              !.purge = Retried(db, w),
              !.object = [o \in Object |-> IF o \in wk[w].done /\ @[o].kind = "blocked"
                                           THEN [@[o] EXCEPT !.kind = "purged"] ELSE @[o]]]
  /\ Goto(w, Resting)
  /\ UNCHANGED store

\* The worker dies, or its commit fails: its locks are released, what it removed is gone.
Crash(w) ==
  /\ wk[w] # Resting
  /\ Goto(w, Resting)
  /\ UNCHANGED <<db, store>>

-----------------------------------------------------------------------------
(***************************************************************************)
(* Backups.                                                                *)
(***************************************************************************)
TakeBackup ==
  /\ Serving /\ backup # db
  /\ backup' = db
  /\ UNCHANGED <<db, store, used, link, wk, deleted, ledger, restores>>

\* The service is stopped and the backup restored; what the operator still has of the
\* present is the ledger, exported after the last change of it (export_ledger).
Restore ==
  /\ Serving /\ restores < MaxRestores
  /\ restores' = restores + 1
  /\ ledger' = db.suppression
  /\ db' = backup
  /\ wk' = [w \in Worker |-> Resting]
  /\ UNCHANGED <<store, used, link, deleted, backup>>

\* Mutant: whoever is in the ledger was deleted, re-created or not.
CoveredWheneverDeleted(r) == ledger[r].at # 0 /\ db.entry[r] # None

\* A restored record the ledger tells us was deleted afterwards.
Covered(r) == ledger[r].at # 0 /\ db.entry[r] # None /\ db.entry[r] < ledger[r].at

\* apply_ledger, before the service starts again.
ApplyLedger ==
  /\ ~Serving
  /\ ledger' = None
  /\ db' = [Deleted(db, {r \in Record : Covered(r)}) EXCEPT
              !.suppression = [r \in Record |-> IF ledger[r].at # 0 THEN ledger[r] ELSE @[r]]]
  /\ UNCHANGED <<store, used, link, wk, deleted, backup, restores>>

\* Time passes, for the rows of a backup too.
Tick ==
  LET Sooner(n) == IF n = None \/ n = 0 THEN n ELSE n - 1
      Aged(d) == [d EXCEPT !.purge = [o \in Object |-> Sooner(@[o])]]
  IN /\ link' = [o \in Object |-> Sooner(link[o])]
     /\ db' = Aged(db) /\ backup' = Aged(backup)
     /\ UNCHANGED <<store, used, wk, deleted, ledger, restores>>

-----------------------------------------------------------------------------
Owner ==
  \/ \E r \in Record : Create(r) \/ Delete(r) \/ AllowReimport(r)
  \/ \E r \in Record, o \in Object :
       UploadMarkdown(r, o) \/ CreateAttachment(r, o)
  \/ \E R \in (SUBSET Named) \ {{}}, o \in Object : ImportBatch(R, o)
  \/ \E o \in Object : UploadArchive(o) \/ LoseUpload(o) \/ Put(o) \/ CompleteAttachment(o)

Purge(w) == BeginPass(w) \/ (\E o \in Object : Remove(w, o)) \/ CommitPass(w)
Fault == \E w \in Worker : Crash(w) \/ \E o \in Object : FailToRemove(w, o)
Operator == TakeBackup \/ Restore \/ ApplyLedger

Next == Owner \/ (\E w \in Worker : Purge(w)) \/ Fault \/ Operator \/ Tick
Spec == Init /\ [][Next]_vars

\* Time passes, a worker makes pass after pass, and a restored service is started again.
FairSpec ==
  /\ Spec
  /\ WF_vars(Tick) /\ WF_vars(ApplyLedger)
  /\ \A w \in Worker : WF_vars(Purge(w))

-----------------------------------------------------------------------------
(***************************************************************************)
(* Properties.                                                             *)
(***************************************************************************)
\* What is stored of a record the database in force knows to be deleted is in the outbox:
\* no upload by a link that is still good, no failure, crash or restored backup leaves an
\* object the outbox has done with (queue_purge, process_purges).  A restored backup knows
\* the deletions before it was taken and those of apply_ledger; an object that was made
\* and queued after it was taken is known to nobody any more, and not meant.
NothingIsForgotten ==
  Serving => \A o \in store \cap db.gone : db.purge[o] # None

\* After a restore, as ever, a record with an identity was created after the last time the
\* owner deleted it, and by leave of the owner (apply_ledger, check_collection).
LedgerIsHonoured ==
  Serving => \A r \in Named : db.entry[r] # None => db.entry[r] = deleted[r] /\ ~Denied(r)

\* A record created after the last time its owner deleted it goes when the owner deletes
\* it, or with a database that is replaced by a backup: applying the ledger to a backup
\* that has it takes it for the deleted one never (apply_ledger), and nothing else, no
\* import of it again, creates it anew (upsert_external_entry).
LivingRecordsStay ==
  [][\A r \in Record :
       db.entry[r] # None /\ db.entry[r] = deleted[r] /\ db'.entry[r] # db.entry[r]
         => deleted'[r] = deleted[r] + 1 \/ restores' = restores + 1]_vars

\* As long as removals and workers do not keep failing, what is stored of a deleted record
\* is removed (process_purges).
PurgesHappen ==
  \A o \in Object :
    \/ []<><<Fault>>_vars
    \/ []((o \in store /\ o \in db.gone) => <>(o \notin store \/ o \notin db.gone))
=============================================================================
