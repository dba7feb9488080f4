-------------------------- MODULE ImportRefinement --------------------------
(***************************************************************************)
(* ImportJobs implements ArchiveImport.  An import is a job; queue,        *)
(* requests, workers, locks, attempts and batches disappear.               *)
(***************************************************************************)
EXTENDS ImportJobs

StateOf(status) ==
  CASE status \in {"PENDING", "RUNNING"} -> "open"
    [] status = "COMPLETED" -> "completed"
    [] status = "PARTIAL" -> "partial"
    [] status = "FAILED" -> "failed"
    [] OTHER -> "absent"

ImportOf(r) == [state |-> StateOf(r.status), archive |-> r.archive,
                done |-> Cursor(r), errors |-> r.errors]

Archive == INSTANCE ArchiveImport
  WITH import <- [j \in JobIds |-> ImportOf(job[j])], MaxImports <- MaxJobs

\* Through lost and repeated messages, crashes, takeovers and retries an import
\* is one walk over its archive: every step stores what the owner allows at that
\* moment from where the walk stands, and nothing else moves it.
ImplementsArchiveImport == Archive!Spec
=============================================================================
