-------------------------- MODULE MCCollectionJobs --------------------------
(***************************************************************************)
(* Instances of CollectionJobs for TLC.                                    *)
(***************************************************************************)
EXTENDS CollectionRefinement, TLC

\* Workers, and items, are interchangeable: sound where no liveness is checked.
Symmetry == Permutations(Worker) \cup Permutations(Item)

Manifest(items, invalid, gaps) ==
  [items |-> items, invalid |-> invalid, gaps |-> gaps]

\* Everything readable, one unreadable item, nothing new, an incomplete walk.
MCManifests ==
  {Manifest(Item, {}, FALSE), Manifest({}, {}, FALSE), Manifest(Item, {}, TRUE)}
    \cup {Manifest(Item, {i}, FALSE) : i \in Item}

\* One manifest that moves the cursor, one that archives as much but may not.
WholeOrGappy == {Manifest(Item, {}, FALSE), Manifest(Item, {}, TRUE)}
=============================================================================
