---------------------------- MODULE MCImportJobs ----------------------------
(***************************************************************************)
(* Instances of ImportJobs for TLC.                                        *)
(***************************************************************************)
EXTENDS ImportRefinement, TLC

CONSTANTS a, b, x

\* Uploads that share a conversation, also one whose second conversation has no valid form.
Overlapping == {<<a, b>>, <<a, x>>}

\* A boundary inside the archive and one at its end, the second conversation
\* without a valid form.
Mixed == {<<a, x>>}

Symmetry == Permutations(Worker)
=============================================================================
