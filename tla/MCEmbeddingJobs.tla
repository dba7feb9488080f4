--------------------------- MODULE MCEmbeddingJobs ---------------------------
(***************************************************************************)
(* Instances of EmbeddingJobs for TLC.                                     *)
(***************************************************************************)
EXTENDS EmbeddingJobs, TLC

\* Sound where no liveness is checked.
Symmetry == Permutations(Worker) \cup Permutations(Dispatch)
              \cup Permutations(Text) \cup Permutations(Run) \cup Permutations(Entry)
=============================================================================
