----------------------------- MODULE SourceSync -----------------------------
(***************************************************************************)
(* What the incremental collection of one source promises, with none of    *)
(* the machinery that keeps the promise: no workers, leases, attempts,     *)
(* schedule, spool or requests.                                            *)
(*                                                                         *)
(* Synchronisations of the source happen one after the other.  Each        *)
(* declares once which items it will archive, then records what became of  *)
(* them.  It succeeds only when every declared item is archived, and only  *)
(* success moves the cursor, by one batch.  The latest one may be tried    *)
(* again after a failure, with the items it declared and the receipts it   *)
(* has, as long as the configuration is still the one it began under.      *)
(***************************************************************************)
EXTENDS Naturals, FiniteSets

CONSTANTS
  Item,        \* external ids
  MaxSyncs,    \* bound: synchronisations ever begun
  MaxRevision  \* bound: configurations

VARIABLES
  cursor,    \* how many batches the cursor has moved under this revision
  revision,  \* the configuration in force
  latest,    \* the number of the latest synchronisation
  sync       \* every synchronisation there was

vars == <<cursor, revision, latest, sync>>

SyncIds == 1..MaxSyncs

Fresh(state, rev) ==
  [state |-> state, revision |-> rev, manifest |-> "none", items |-> {},
   receipt |-> [i \in Item |-> "none"]]
Absent == Fresh("absent", 0)

Sync == [state : {"absent", "active", "completed", "empty", "partial",
                  "failed", "cancelled"},
         revision : Nat, manifest : {"none", "fixed"}, items : SUBSET Item,
         receipt : [Item -> {"none", "saved", "blocked", "failed"}]]

TypeOK ==
  /\ cursor \in Nat /\ revision \in Nat
  /\ latest \in 0..MaxSyncs
  /\ sync \in [SyncIds -> Sync]

Init ==
  /\ cursor = 0
  /\ revision = 1
  /\ latest = 0
  /\ sync = [s \in SyncIds |-> Absent]

Current == sync[latest]
Ongoing == latest > 0 /\ Current.state = "active"

Begin ==
  /\ ~Ongoing
  /\ latest < MaxSyncs
  /\ latest' = latest + 1
  /\ sync' = [sync EXCEPT ![latest + 1] = Fresh("active", revision)]
  /\ UNCHANGED <<cursor, revision>>

\* The manifest is fixed once.
Declare ==
  /\ Ongoing
  /\ Current.manifest = "none"
  /\ \E items \in SUBSET Item :
       sync' = [sync EXCEPT ![latest].manifest = "fixed", ![latest].items = items]
  /\ UNCHANGED <<cursor, revision, latest>>

\* What has been saved stays saved.
Record(i) ==
  /\ Ongoing
  /\ i \in Current.items
  /\ Current.receipt[i] # "saved"
  /\ \E o \in {"saved", "blocked", "failed"} :
       sync' = [sync EXCEPT ![latest].receipt[i] = o]
  /\ UNCHANGED <<cursor, revision, latest>>

Succeed ==
  /\ Ongoing
  /\ Current.manifest = "fixed"
  /\ \A i \in Current.items : Current.receipt[i] = "saved"
  /\ sync' = [sync EXCEPT ![latest].state =
                IF Current.items = {} THEN "empty" ELSE "completed"]
  /\ cursor' = cursor + 1
  /\ UNCHANGED <<revision, latest>>

\* The cursor stays where it is.
FallShort ==
  /\ Ongoing
  /\ \/ sync' = [sync EXCEPT ![latest].state = "failed"]
     \/ /\ \E i \in Current.items : Current.receipt[i] = "saved"
        /\ sync' = [sync EXCEPT ![latest].state = "partial"]
  /\ UNCHANGED <<cursor, revision, latest>>

Abandon ==
  /\ Ongoing
  /\ sync' = [sync EXCEPT ![latest].state = "cancelled"]
  /\ UNCHANGED <<cursor, revision, latest>>

Retry ==
  /\ latest > 0
  /\ Current.state = "failed"
  /\ Current.revision = revision
  /\ sync' = [sync EXCEPT ![latest].state = "active"]
  /\ UNCHANGED <<cursor, revision, latest>>

\* Another configuration starts from nothing and abandons what was under way.
Reconfigure ==
  /\ revision < MaxRevision
  /\ revision' = revision + 1
  /\ cursor' = 0
  /\ sync' = IF Ongoing
             THEN [sync EXCEPT ![latest].state = "cancelled"] ELSE sync
  /\ UNCHANGED latest

Next ==
  \/ Begin
  \/ Declare
  \/ \E i \in Item : Record(i)
  \/ Succeed
  \/ FallShort
  \/ Abandon
  \/ Retry
  \/ Reconfigure

Spec == Init /\ [][Next]_vars

-----------------------------------------------------------------------------
\* The cursor has moved once for every synchronisation that succeeded under
\* the configuration in force: no batch is counted twice after a retry, none
\* is skipped, and nothing that fell short is counted.
Successes == {s \in SyncIds : /\ sync[s].state \in {"completed", "empty"}
                             /\ sync[s].revision = revision}

CursorCountsSuccesses == cursor = Cardinality(Successes)

\* Nothing is archived that was not declared, and a success archived all of it.
SuccessArchivedEverything ==
  \A s \in SyncIds, i \in Item :
    /\ sync[s].receipt[i] # "none" => i \in sync[s].items
    /\ sync[s].state \in {"completed", "empty"} /\ i \in sync[s].items
         => sync[s].receipt[i] = "saved"
=============================================================================
