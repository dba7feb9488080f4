--------------------------- MODULE MCConversation ---------------------------
(***************************************************************************)
(* Instances of Conversation for TLC.                                      *)
(***************************************************************************)
EXTENDS Conversation, TLC

\* Sound: no liveness is checked.
Symmetry == Permutations(Record) \cup Permutations(Worker)
=============================================================================
