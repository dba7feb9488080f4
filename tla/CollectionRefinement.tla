------------------------ MODULE CollectionRefinement ------------------------
(***************************************************************************)
(* CollectionJobs implements SourceSync.  A job is a synchronisation; its  *)
(* run and receipts are what the synchronisation declared and recorded.    *)
(***************************************************************************)
EXTENDS CollectionJobs

SyncOf(j) ==
  [state    |-> IF Active(j) THEN "active" ELSE job[j].status,
   revision |-> job[j].revision,
   manifest |-> IF run[j].status = "none" THEN "none" ELSE "fixed",
   items    |-> run[j].expected,
   receipt  |-> run[j].receipt]

Source == INSTANCE SourceSync
  WITH cursor <- sub.progress, revision <- sub.revision, latest <- count,
       sync <- [j \in JobIds |-> SyncOf(j)], MaxSyncs <- MaxJobs

\* Through claims, takeovers, crashes, retries and cancellations the jobs of a
\* source behave as a sequence of synchronisations, each with one manifest,
\* and the cursor moves only when everything declared is archived.
ImplementsSourceSync == Source!Spec

\* The cursor has moved once for each job that ended completed or empty under
\* the configuration in force, never for a partial, failed or cancelled one.
Successful == {j \in JobIds : /\ job[j].status \in {"completed", "empty"}
                              /\ job[j].revision = sub.revision}

CursorCountsJobs == sub.progress = Cardinality(Successful)
=============================================================================
