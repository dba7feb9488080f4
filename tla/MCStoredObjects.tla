--------------------------- MODULE MCStoredObjects ---------------------------
(***************************************************************************)
(* Instances of StoredObjects for TLC.                                     *)
(***************************************************************************)
EXTENDS StoredObjects, TLC

\* Sound where no liveness is checked.
Symmetry == Permutations(Object)
=============================================================================
