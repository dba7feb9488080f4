--------------------------- MODULE ArchiveImport ---------------------------
(***************************************************************************)
(* What the archive imports of one owner promise, with none of the         *)
(* machinery that keeps the promise: no workers, session lock, queue,      *)
(* requests, attempts or batch size.                                       *)
(*                                                                         *)
(* An import walks its archive once, from the first position to the last.  *)
(* Each stretch of the walk judges its positions by what the owner allows  *)
(* at that moment and stores what is allowed, all in one step.  An import  *)
(* that was interrupted goes on where it stands; one that went through its *)
(* archive and is tried again starts over.                                 *)
(***************************************************************************)
EXTENDS Naturals, Sequences

CONSTANTS
  Item,       \* external ids of conversations
  Malformed,  \* those no archive holds in a valid form
  Archives,   \* what an upload may hold
  MaxImports  \* bound: imports ever submitted

VARIABLES
  policy,      \* the owner allows collection
  suppression, \* what became of each identity: nothing, denied, allowed again
  material,    \* the imports behind each record there is
  blocked,     \* imports whose archive may not be read any more
  import       \* every import: its state, archive, position and errors

vars == <<policy, suppression, material, blocked, import>>

ImportIds == 1..MaxImports

Absent == [state |-> "absent", archive |-> <<>>, done |-> 0, errors |-> {}]

Init ==
  /\ policy = TRUE
  /\ suppression = [i \in Item |-> "none"]
  /\ material = [i \in Item |-> {}]
  /\ blocked = {}
  /\ import = [j \in ImportIds |-> Absent]

Submit(j, a) ==
  /\ policy
  /\ import[j].state = "absent"
  /\ import' = [import EXCEPT ![j] = [Absent EXCEPT !.state = "open",
                                                    !.archive = a]]
  /\ UNCHANGED <<policy, suppression, material, blocked>>

Ahead(j, n) == (import[j].done + 1)..n

\* What is stored of the positions up to n; the others are errors.
Stored(j, n) ==
  {k \in Ahead(j, n) : /\ import[j].archive[k] \notin Malformed
                       /\ suppression[import[j].archive[k]] # "denied"}

ErrorsUpTo(j, n) == import[j].errors \cup (Ahead(j, n) \ Stored(j, n))

\* An archive that turns out to hold a deleted conversation is blocked.
MeetsDeleted(j, n) ==
  \E k \in Ahead(j, n) :
    /\ import[j].archive[k] \notin Malformed
    /\ suppression[import[j].archive[k]] = "denied"

WalkTo(j, n, state) ==
  /\ import[j].state = "open"
  /\ policy
  /\ j \notin blocked
  /\ import' = [import EXCEPT ![j] = [@ EXCEPT !.state = state, !.done = n,
                                               !.errors = ErrorsUpTo(j, n)]]
  /\ material' = [i \in Item |->
                    IF \E k \in Stored(j, n) : import[j].archive[k] = i
                    THEN material[i] \cup {j} ELSE material[i]]
  /\ blocked' = IF MeetsDeleted(j, n) THEN blocked \cup {j} ELSE blocked
  /\ UNCHANGED <<policy, suppression>>

Advance(j) ==
  \E n \in 1..Len(import[j].archive) :
    n > import[j].done /\ WalkTo(j, n, "open")

Result(errors, n) ==
  IF errors = 1..n THEN "failed" ELSE IF errors # {} THEN "partial" ELSE "completed"

Conclude(j) ==
  LET n == Len(import[j].archive) IN WalkTo(j, n, Result(ErrorsUpTo(j, n), n))

\* It may fail at any time, and keeps its place.
Fail(j) ==
  /\ import[j].state = "open"
  /\ import' = [import EXCEPT ![j].state = "failed"]
  /\ UNCHANGED <<policy, suppression, material, blocked>>

WalkedThrough(r) == r.done > 0 /\ r.done = Len(r.archive)

Reopen(j) ==
  /\ policy
  /\ j \notin blocked
  /\ import[j].state \in {"failed", "partial"}
  /\ import' = [import EXCEPT ![j] =
                  IF WalkedThrough(@)
                  THEN [@ EXCEPT !.state = "open", !.done = 0, !.errors = {}]
                  ELSE [@ EXCEPT !.state = "open"]]
  /\ UNCHANGED <<policy, suppression, material, blocked>>

\* The record goes and stays away, and every archive it came from is blocked.
Delete(i) ==
  /\ material[i] # {}
  /\ suppression' = [suppression EXCEPT ![i] = "denied"]
  /\ blocked' = blocked \cup material[i]
  /\ material' = [material EXCEPT ![i] = {}]
  /\ UNCHANGED <<policy, import>>

Allow(i) ==
  /\ suppression[i] = "denied"
  /\ suppression' = [suppression EXCEPT ![i] = "allowed"]
  /\ UNCHANGED <<policy, material, blocked, import>>

SetPolicy ==
  /\ policy' = ~policy
  /\ UNCHANGED <<suppression, material, blocked, import>>

Next ==
  \/ \E j \in ImportIds, a \in Archives : Submit(j, a)
  \/ \E j \in ImportIds : Advance(j) \/ Conclude(j) \/ Fail(j) \/ Reopen(j)
  \/ \E i \in Item : Delete(i) \/ Allow(i)
  \/ SetPolicy

Spec == Init /\ [][Next]_vars
=============================================================================
