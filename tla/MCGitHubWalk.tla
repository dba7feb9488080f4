---------------------------- MODULE MCGitHubWalk ----------------------------
(***************************************************************************)
(* Instances of GitHubWalk for TLC.                                        *)
(***************************************************************************)
EXTENDS GitHubWalk, TLC

CONSTANTS c1, c2

\* A commit and its parent: either branch may be at either, so that their histories are
\* shared, and one frame a cycle leaves walks open in between.
Chain == c1 :> <<>> @@ c2 :> <<c1>>
=============================================================================
