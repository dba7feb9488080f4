------------------------- MODULE EmbeddingJobsProofs -------------------------
(***************************************************************************)
(* Proofs about EmbeddingJobs, for any number of records, texts, runs,     *)
(* workers and dispatches, and for every lease.                            *)
(***************************************************************************)
EXTENDS EmbeddingJobs, TLAPS

(***************************************************************************)
(* Type correctness.                                                       *)
(***************************************************************************)
LEMMA JobParts ==
  ASSUME NEW j \in JobId
  PROVE  RunOf(j) \in Run /\ EntryOf(j) \in Entry /\ BuildOf(j) \in 1..MaxBuild
BY DEF JobId, RunOf, EntryOf, BuildOf

LEMMA ConstantTypes ==
  /\ NoJob \in JobRow /\ NoRun \in RunRow /\ Unseen \in EntryRow /\ Idle \in WorkerRow
  /\ LeaseTTL \in 0..LeaseTTL /\ 0 \in 0..LeaseTTL
BY TicksAssumption DEF NoJob, NoRun, Unseen, Idle, JobRow, RunRow, EntryRow,
   WorkerRow, PC, Code, Live, Resting

LEMMA RowUpdates ==
  /\ \A row \in JobRow, s \in Live \cup Resting :
       /\ [row EXCEPT !.status = s] \in JobRow
       /\ [row EXCEPT !.status = s, !.lease = 0] \in JobRow
       /\ [row EXCEPT !.status = s, !.dispatch = None] \in JobRow
       /\ \A d \in Dispatch :
            [row EXCEPT !.status = s, !.dispatch = d, !.lease = LeaseTTL] \in JobRow
  /\ \A t \in Text \cup {None} : [NoJob EXCEPT !.status = "pending", !.text = t] \in JobRow
  /\ \A row \in JobRow : [row EXCEPT !.lease = IF @ > 0 THEN @ - 1 ELSE 0] \in JobRow
<1>1. ASSUME NEW row \in JobRow
      PROVE  [row EXCEPT !.lease = IF @ > 0 THEN @ - 1 ELSE 0] \in JobRow
  <2>1. (IF row.lease > 0 THEN row.lease - 1 ELSE 0) \in 0..LeaseTTL
    BY TicksAssumption DEF JobRow
  <2> QED
    BY <2>1 DEF JobRow
<1>2. ASSUME NEW row \in JobRow, NEW s \in Live \cup Resting
      PROVE  /\ [row EXCEPT !.status = s] \in JobRow
             /\ [row EXCEPT !.status = s, !.lease = 0] \in JobRow
             /\ [row EXCEPT !.status = s, !.dispatch = None] \in JobRow
             /\ \A d \in Dispatch :
                  [row EXCEPT !.status = s, !.dispatch = d, !.lease = LeaseTTL] \in JobRow
  BY ConstantTypes DEF JobRow
<1>3. ASSUME NEW t \in Text \cup {None}
      PROVE  [NoJob EXCEPT !.status = "pending", !.text = t] \in JobRow
  BY ConstantTypes DEF JobRow, Live, NoJob
<1> QED
  BY <1>1, <1>2, <1>3

LEMMA InvalidatedTypes ==
  ASSUME TypeOK, NEW ent, NEW pol
  PROVE  InvalidatedJobs(ent, pol) \in [JobId -> JobRow]
BY RowUpdates DEF InvalidatedJobs, TypeOK, Live, Resting

LEMMA EnqueuedTypes ==
  ASSUME NEW jobs \in [JobId -> JobRow], NEW ent \in [Entry -> EntryRow],
         NEW runs, NEW pol, NEW es
  PROVE  WithCurrent(jobs, runs, ent, pol, es) \in [JobId -> JobRow]
<1>1. \A j \in JobId : ent[EntryOf(j)].current \in Text \cup {None}
  BY JobParts DEF EntryRow
<1> QED
  BY <1>1, RowUpdates DEF WithCurrent

LEMMA VectorTypes ==
  ASSUME TypeOK
  PROVE  /\ \A ent, pol : PrunedVectors(ent, pol) \in [Entry -> Text \cup {None}]
         /\ \A js : (\A j \in js : job[j].text \in Text)
                      => WithVectors(js) \in [Entry -> Text \cup {None}]
<1>1. \A ent, pol : PrunedVectors(ent, pol) \in [Entry -> Text \cup {None}]
  BY DEF PrunedVectors, TypeOK
<1>2. ASSUME NEW js, \A j \in js : job[j].text \in Text
      PROVE  WithVectors(js) \in [Entry -> Text \cup {None}]
  <2>1. ASSUME NEW e \in Entry, \E j \in js : EntryOf(j) = e
        PROVE  (CHOOSE t \in Text : \E j \in js : EntryOf(j) = e /\ job[j].text = t) \in Text
    BY <1>2, <2>1
  <2> QED
    BY <2>1 DEF WithVectors, TypeOK
<1> QED
  BY <1>1, <1>2

LEMMA InvalidateType ==
  ASSUME TypeOK, NEW ent \in [Entry -> EntryRow], NEW pol \in BOOLEAN, NEW es,
         Invalidate(ent, pol, es), run' \in [Run -> RunRow]
  PROVE  TypeOK'
<1>1. job' \in [JobId -> JobRow]
  BY InvalidatedTypes, EnqueuedTypes DEF Invalidate
<1>2. vector' \in [Entry -> Text \cup {None}]
  BY VectorTypes DEF Invalidate
<1>3. wk' \in [Worker -> WorkerRow]
  BY ZenonT(60) DEF Invalidate, TypeOK, WorkerRow
<1> QED
  BY <1>1, <1>2, <1>3 DEF Invalidate, TypeOK

LEMMA EntryUpdates ==
  ASSUME NEW row \in EntryRow
  PROVE  /\ \A t \in Text : row.build < MaxBuild => Rebuilt(row, t) \in EntryRow
         /\ \A t \in Text : [row EXCEPT !.versions = @ \cup {t}] \in EntryRow
         /\ \A b \in BOOLEAN : /\ [row EXCEPT !.allowed = b] \in EntryRow
                               /\ [row EXCEPT !.removed = b] \in EntryRow
         /\ [Unseen EXCEPT !.life = "deleted", !.build = row.build] \in EntryRow
         /\ [row EXCEPT !.life = "unseen"] \in EntryRow
<1>1. ASSUME NEW t \in Text, row.build < MaxBuild PROVE Rebuilt(row, t) \in EntryRow
  <2>1. row.build + 1 \in 0..MaxBuild
    BY <1>1, TicksAssumption DEF EntryRow
  <2> QED
    BY <2>1 DEF EntryRow, Rebuilt
<1> QED
  BY <1>1 DEF EntryRow, Unseen

(***************************************************************************)
(* What the owner's steps do to the records.  Moves says that a record     *)
(* gets other passages whenever it gets another text.                      *)
(***************************************************************************)
Moves(ent) ==
  \A e \in Entry :
    /\ ent[e].build >= entry[e].build
    /\ ent[e].life = "live" =>
         /\ ent[e].current \in Text
         /\ ent[e].build = entry[e].build =>
              entry[e].life = "live" /\ entry[e].current = ent[e].current

\* A step that changes records or policy and moves the revision on.
Change ==
  \E ent \in [Entry -> EntryRow], pol \in BOOLEAN, es \in SUBSET Entry :
    /\ LockFree
    /\ Moves(ent)
    /\ Invalidate(ent, pol, es)
    /\ run' \in [Run -> RunRow]
    /\ \A r \in Run : run'[r].status = run[r].status

\* A text to review is added and nothing else.
Candidate ==
  \E e \in Entry, t \in Text :
    /\ LockFree
    /\ entry' = [entry EXCEPT ![e].versions = @ \cup {t}]
    /\ UNCHANGED <<kind, policy, vector, run, job, attempt, slot, wk, calls>>

Lives == \A e \in Entry : entry[e].life = "live" => entry[e].current \in Text

LEMMA RebuildMoves ==
  ASSUME TypeOK, Lives, NEW e \in Entry, NEW t \in Text, entry[e].build < MaxBuild
  PROVE  /\ [entry EXCEPT ![e] = Rebuilt(@, t)] \in [Entry -> EntryRow]
         /\ Moves([entry EXCEPT ![e] = Rebuilt(@, t)])
<1>1. Rebuilt(entry[e], t) \in EntryRow
  BY EntryUpdates DEF TypeOK
<1>2. /\ Rebuilt(entry[e], t).build = entry[e].build + 1
      /\ Rebuilt(entry[e], t).current = t
  BY DEF Rebuilt, TypeOK, EntryRow
<1>3. \A x \in Entry : entry[x].build \in Nat
  BY TicksAssumption DEF TypeOK, EntryRow
<1> QED
  BY <1>1, <1>2, <1>3 DEF Moves, TypeOK, Lives

LEMMA SettingMoves ==
  ASSUME TypeOK, Lives, NEW e \in Entry
  PROVE  /\ entry \in [Entry -> EntryRow] /\ Moves(entry)
         /\ \A b \in BOOLEAN :
              /\ [entry EXCEPT ![e].allowed = b] \in [Entry -> EntryRow]
              /\ Moves([entry EXCEPT ![e].allowed = b])
              /\ [entry EXCEPT ![e].removed = b] \in [Entry -> EntryRow]
              /\ Moves([entry EXCEPT ![e].removed = b])
         /\ [entry EXCEPT ![e].life = "unseen"] \in [Entry -> EntryRow]
         /\ Moves([entry EXCEPT ![e].life = "unseen"])
         /\ [entry EXCEPT ![e] = [Unseen EXCEPT !.life = "deleted",
                                                !.build = entry[e].build]]
              \in [Entry -> EntryRow]
         /\ Moves([entry EXCEPT ![e] = [Unseen EXCEPT !.life = "deleted",
                                                      !.build = entry[e].build]])
<1>1. \A x \in Entry : entry[x].build \in Nat
  BY TicksAssumption DEF TypeOK, EntryRow
<1>2. entry \in [Entry -> EntryRow] /\ Moves(entry)
  BY <1>1 DEF Moves, Lives, TypeOK
<1>3. ASSUME NEW ent \in [Entry -> EntryRow],
             \A x \in Entry : /\ ent[x].build = entry[x].build
                              /\ ent[x].current = entry[x].current
                              /\ ent[x].life \in {entry[x].life, "unseen"}
      PROVE  Moves(ent)
  <2>1. ASSUME NEW x \in Entry, ent[x].life = "live"
        PROVE  entry[x].life = "live"
    BY <1>3, <2>1
  <2> QED
    BY <1>1, <1>3, <2>1 DEF Moves, Lives
<1>4. ASSUME NEW row \in EntryRow, row.build = entry[e].build,
             row.current = entry[e].current, row.life \in {entry[e].life, "unseen"}
      PROVE  /\ [entry EXCEPT ![e] = row] \in [Entry -> EntryRow]
             /\ Moves([entry EXCEPT ![e] = row])
  BY <1>3, <1>4 DEF TypeOK
<1>7. ASSUME NEW b \in BOOLEAN
      PROVE  /\ [entry EXCEPT ![e].allowed = b] \in [Entry -> EntryRow]
             /\ Moves([entry EXCEPT ![e].allowed = b])
             /\ [entry EXCEPT ![e].removed = b] \in [Entry -> EntryRow]
             /\ Moves([entry EXCEPT ![e].removed = b])
  <2>1. /\ [entry[e] EXCEPT !.allowed = b] \in EntryRow
        /\ [entry[e] EXCEPT !.removed = b] \in EntryRow
    BY EntryUpdates DEF TypeOK
  <2>2. entry[e] \in EntryRow
    BY DEF TypeOK
  <2>3. /\ [entry EXCEPT ![e] = [entry[e] EXCEPT !.allowed = b]] \in [Entry -> EntryRow]
        /\ Moves([entry EXCEPT ![e] = [entry[e] EXCEPT !.allowed = b]])
    BY <1>4, <2>1, <2>2 DEF EntryRow
  <2>4. /\ [entry EXCEPT ![e] = [entry[e] EXCEPT !.removed = b]] \in [Entry -> EntryRow]
        /\ Moves([entry EXCEPT ![e] = [entry[e] EXCEPT !.removed = b]])
    BY <1>4, <2>1, <2>2 DEF EntryRow
  <2> QED
    BY <2>3, <2>4
<1>8. /\ [entry EXCEPT ![e].life = "unseen"] \in [Entry -> EntryRow]
      /\ Moves([entry EXCEPT ![e].life = "unseen"])
  <2>1. entry[e] \in EntryRow /\ [entry[e] EXCEPT !.life = "unseen"] \in EntryRow
    BY EntryUpdates DEF TypeOK
  <2>2. /\ [entry EXCEPT ![e] = [entry[e] EXCEPT !.life = "unseen"]] \in [Entry -> EntryRow]
        /\ Moves([entry EXCEPT ![e] = [entry[e] EXCEPT !.life = "unseen"]])
    BY <1>4, <2>1 DEF EntryRow
  <2> QED
    BY <2>2
<1>5. [Unseen EXCEPT !.life = "deleted", !.build = entry[e].build] \in EntryRow
  BY EntryUpdates DEF TypeOK
<1>6. Moves([entry EXCEPT ![e] = [Unseen EXCEPT !.life = "deleted",
                                                !.build = entry[e].build]])
  BY <1>1, <1>5 DEF Moves, Lives, TypeOK, Unseen
<1> QED
  BY <1>2, <1>5, <1>6, <1>7, <1>8 DEF TypeOK

LEMMA ChangeIntro ==
  ASSUME TypeOK, LockFree, NEW ent \in [Entry -> EntryRow], NEW pol \in BOOLEAN,
         NEW es \in SUBSET Entry, Moves(ent), Invalidate(ent, pol, es), UNCHANGED run
  PROVE  Change
BY DEF Change, TypeOK

LEMMA OwnerCases ==
  ASSUME TypeOK, Lives, OwnerStep
  PROVE  \/ Change
         \/ Candidate
         \/ \E e \in Entry, t \in Text : CreateEntry(e, t)
         \/ \E r \in Run : PauseRun(r) \/ ResumeRun(r)
         \/ \E r \in Run, es \in SUBSET Entry, all, follow \in BOOLEAN :
              Activate(r, es, all, follow)
         \/ \E j \in JobId : RetryJob(j)
         \/ \E d \in Dispatch, as \in {"spent", "released"} : Reconcile(d, as)
<1>0. policy \in BOOLEAN /\ entry \in [Entry -> EntryRow]
  BY DEF TypeOK
<1>1. ASSUME NEW e \in Entry, NEW t \in Text, UpdateEntry(e, t) PROVE Change
  <2> DEFINE ent == [entry EXCEPT ![e] = Rebuilt(@, t)]
  <2>1. ent \in [Entry -> EntryRow] /\ Moves(ent)
    BY <1>1, RebuildMoves DEF UpdateEntry
  <2>2. LockFree /\ UNCHANGED run /\ \E es \in SUBSET Entry : Invalidate(ent, policy, es)
    BY <1>1 DEF UpdateEntry
  <2> HIDE DEF ent
  <2> QED
    BY <1>0, <2>1, <2>2, ChangeIntro
<1>2. ASSUME NEW e \in Entry, NEW t \in Text, ChooseVersion(e, t) PROVE Change
  <2>1. CASE t = entry[e].current
    <3> DEFINE ent == entry
    <3>1. ent \in [Entry -> EntryRow] /\ Moves(ent)
      BY <2>1, SettingMoves
    <3>2. LockFree /\ UNCHANGED run /\ \E es \in SUBSET Entry : Invalidate(ent, policy, es)
      BY <2>1, <1>2 DEF ChooseVersion
    <3> HIDE DEF ent
    <3> QED
      BY <1>0, <3>1, <3>2, ChangeIntro
  <2>2. CASE t # entry[e].current
    <3> DEFINE ent == [entry EXCEPT ![e] = Rebuilt(@, t)]
    <3>1. ent \in [Entry -> EntryRow] /\ Moves(ent)
      BY <2>2, <1>2, RebuildMoves DEF ChooseVersion
    <3>2. LockFree /\ UNCHANGED run /\ \E es \in SUBSET Entry : Invalidate(ent, policy, es)
      BY <2>2, <1>2 DEF ChooseVersion
    <3> HIDE DEF ent
    <3> QED
      BY <1>0, <3>1, <3>2, ChangeIntro
  <2> QED
    BY <2>1, <2>2
<1>3. ASSUME NEW e \in Entry, NEW t \in Text, NEW newer \in BOOLEAN, Observe(e, t, newer)
      PROVE  Change \/ Candidate
  <2>1. CASE newer \/ entry[e].life = "unseen"
    <3> DEFINE ent == [entry EXCEPT ![e] = Rebuilt(@, t)]
    <3>1. ent \in [Entry -> EntryRow] /\ Moves(ent)
      BY <2>1, <1>3, RebuildMoves DEF Observe
    <3>2. LockFree /\ UNCHANGED run /\ \E es \in SUBSET Entry : Invalidate(ent, policy, es)
      BY <2>1, <1>3 DEF Observe
    <3> HIDE DEF ent
    <3> QED
      BY <1>0, <3>1, <3>2, ChangeIntro
  <2>2. CASE ~(newer \/ entry[e].life = "unseen")
    BY <1>3, <2>2 DEF Observe, Candidate
  <2> QED
    BY <2>1, <2>2
<1>4. ASSUME NEW e \in Entry, DeleteEntry(e) PROVE Change
  <2> DEFINE ent == [entry EXCEPT ![e] = [Unseen EXCEPT !.life = "deleted",
                                                        !.build = entry[e].build]]
  <2>1. ent \in [Entry -> EntryRow] /\ Moves(ent)
    BY SettingMoves
  <2>2. /\ run' \in [Run -> RunRow]
        /\ \A r \in Run : run'[r].status = run[r].status
    BY <1>4 DEF DeleteEntry, TypeOK, RunRow
  <2>3. LockFree /\ Invalidate(ent, policy, {})
    BY <1>4 DEF DeleteEntry
  <2> HIDE DEF ent
  <2> QED
    <3>1. {} \in SUBSET Entry
      OBVIOUS
    <3> QED
      BY <1>0, <2>1, <2>2, <2>3, <3>1 DEF Change
<1>5. ASSUME NEW e \in Entry, AllowReimport(e) PROVE Change
  <2> DEFINE ent == [entry EXCEPT ![e].life = "unseen"]
  <2>1. ent \in [Entry -> EntryRow] /\ Moves(ent)
    BY <1>5, SettingMoves
  <2>2. LockFree /\ UNCHANGED run /\ \E es \in SUBSET Entry : Invalidate(ent, policy, es)
    BY <1>5 DEF AllowReimport
  <2> HIDE DEF ent
  <2> QED
    BY <1>0, <2>1, <2>2, ChangeIntro
<1>6. ASSUME NEW e \in Entry, NEW b \in BOOLEAN, SetAllowed(e, b) PROVE Change
  <2> DEFINE ent == [entry EXCEPT ![e].allowed = b]
  <2>1. ent \in [Entry -> EntryRow] /\ Moves(ent)
    BY <1>6, SettingMoves
  <2>2. LockFree /\ UNCHANGED run /\ \E es \in SUBSET Entry : Invalidate(ent, policy, es)
    BY <1>6 DEF SetAllowed
  <2> HIDE DEF ent
  <2> QED
    BY <1>0, <2>1, <2>2, ChangeIntro
<1>7. ASSUME NEW e \in Entry, NEW b \in BOOLEAN, SetSourceState(e, b) PROVE Change
  <2> DEFINE ent == [entry EXCEPT ![e].removed = b]
  <2>1. ent \in [Entry -> EntryRow] /\ Moves(ent)
    BY <1>7, SettingMoves
  <2>2. LockFree /\ UNCHANGED run /\ \E es \in SUBSET Entry : Invalidate(ent, policy, es)
    BY <1>7 DEF SetSourceState
  <2> HIDE DEF ent
  <2> QED
    BY <1>0, <2>1, <2>2, ChangeIntro
<1>8. ASSUME NEW b \in BOOLEAN, UpdatePolicy(b) PROVE Change
  <2>1. entry \in [Entry -> EntryRow] /\ Moves(entry)
    <3>1. \A x \in Entry : entry[x].build \in Nat
      BY TicksAssumption DEF TypeOK, EntryRow
    <3> QED
      BY <3>1 DEF Moves, Lives, TypeOK
  <2> QED
    BY <1>8, <2>1, ChangeIntro DEF UpdatePolicy
<1> QED
  BY <1>1, <1>2, <1>3, <1>4, <1>5, <1>6, <1>7, <1>8 DEF OwnerStep

(***************************************************************************)
(* The records, their texts and the vectors.                               *)
(***************************************************************************)
\* A job's text is that of the passage it was made for, and no job is of a
\* passage that is yet to be built.
Texts ==
  \A j \in JobId : job[j].status # "absent" =>
    /\ job[j].text \in Text
    /\ BuildOf(j) <= entry[EntryOf(j)].build
    /\ Attached(entry, j) => job[j].text = entry[EntryOf(j)].current

\* A batch is of rows that exist.
Batches ==
  \A w \in Worker : wk[w].pc # "idle" =>
    /\ wk[w].dispatch \in Dispatch
    /\ \A j \in wk[w].jobs : job[j].status # "absent"

Rows == TypeOK /\ Lives /\ Texts /\ Batches
Vectors == VectorsAreCurrent /\ ReadyHasVector

LEMMA ChangeRows ==
  ASSUME Rows, Vectors, Change
  PROVE  Rows' /\ Vectors'
<1>1. PICK ent \in [Entry -> EntryRow], pol \in BOOLEAN, es \in SUBSET Entry :
        /\ Moves(ent)
        /\ Invalidate(ent, pol, es)
        /\ run' \in [Run -> RunRow]
        /\ \A r \in Run : run'[r].status = run[r].status
  BY DEF Change
<1>2. TypeOK'
  BY <1>1, InvalidateType DEF Rows
<1>3. entry' = ent /\ policy' = pol /\ vector' = PrunedVectors(ent, pol)
  BY <1>1 DEF Invalidate
<1>4. Lives'
  BY <1>1, <1>3 DEF Lives, Moves
<1>5. \A e \in Entry : ent[e].build \in Nat /\ entry[e].build \in Nat
  BY TicksAssumption DEF Rows, TypeOK, EntryRow
<1> DEFINE mid == InvalidatedJobs(ent, pol)
<1>6. \A j \in JobId :
        /\ mid[j].text = job[j].text
        /\ (mid[j].status = "absent") <=> (job[j].status = "absent")
        /\ mid[j].status = "ready" => /\ job[j].status = "ready"
                                      /\ Attached(ent, j)
                                      /\ Allowed(ent, pol, EntryOf(j))
  <2>1. \A j \in JobId : job[j] \in JobRow
    BY DEF Rows, TypeOK
  <2> QED
    BY <2>1 DEF InvalidatedJobs, Live, JobRow
<1>7. \A j \in JobId :
        \/ /\ job'[j].text = mid[j].text /\ job'[j].status = mid[j].status
        \/ /\ mid[j].status = "absent" /\ job'[j].status = "pending"
           /\ job'[j].text = ent[EntryOf(j)].current /\ Attached(ent, j)
  <2>1. job' = WithCurrent(mid, run, ent, pol, es)
    BY <1>1 DEF Invalidate
  <2> HIDE DEF mid
  <2> QED
    BY <2>1 DEF WithCurrent, NoJob
<1> HIDE DEF mid
<1>8. Texts'
  <2> SUFFICES ASSUME NEW j \in JobId, job'[j].status # "absent"
               PROVE  /\ job'[j].text \in Text
                      /\ BuildOf(j) <= ent[EntryOf(j)].build
                      /\ Attached(ent, j) => job'[j].text = ent[EntryOf(j)].current
    BY <1>3 DEF Texts, Attached
  <2> DEFINE e == EntryOf(j)
  <2>0. e \in Entry /\ BuildOf(j) \in Nat
    BY JobParts
  <2>1. CASE mid[j].status = "absent"
    <3>1. job'[j].text = ent[e].current /\ Attached(ent, j)
      BY <1>7, <2>1
    <3> QED
      BY <1>1, <1>5, <2>0, <3>1 DEF Attached, Moves
  <2>2. CASE mid[j].status # "absent"
    <3>1. job'[j].text = job[j].text /\ job[j].status # "absent"
      BY <1>6, <1>7, <2>2
    <3>2. /\ job[j].text \in Text
          /\ BuildOf(j) <= entry[e].build
          /\ Attached(entry, j) => job[j].text = entry[e].current
      BY <3>1 DEF Rows, Texts
    <3>3. ent[e].build >= entry[e].build
      BY <1>1, <2>0 DEF Moves
    <3>4. ASSUME Attached(ent, j)
          PROVE  Attached(entry, j) /\ entry[e].current = ent[e].current
      <4>1. ent[e].life = "live" /\ ent[e].build = BuildOf(j)
        BY <3>4 DEF Attached
      <4>2. ent[e].build = entry[e].build
        BY <1>5, <2>0, <3>2, <3>3, <4>1
      <4>3. entry[e].life = "live" /\ entry[e].current = ent[e].current
        BY <1>1, <2>0, <4>1, <4>2 DEF Moves
      <4> QED
        BY <4>1, <4>2, <4>3 DEF Attached
    <3> QED
      BY <1>5, <2>0, <3>1, <3>2, <3>3, <3>4
  <2> QED
    BY <2>1, <2>2
<1>9. Batches'
  <2>1. \A w \in Worker : /\ wk'[w].pc = wk[w].pc /\ wk'[w].dispatch = wk[w].dispatch
                          /\ wk'[w].jobs = wk[w].jobs /\ wk[w].jobs \subseteq JobId
    BY <1>1 DEF Invalidate, Rows, TypeOK, WorkerRow
  <2>2. \A j \in JobId : job[j].status # "absent" => job'[j].status # "absent"
    BY <1>6, <1>7
  <2> QED
    BY <2>1, <2>2 DEF Rows, Batches
<1>10. VectorsAreCurrent'
  <2> SUFFICES ASSUME NEW e \in Entry, PrunedVectors(ent, pol)[e] # None
               PROVE  /\ PrunedVectors(ent, pol)[e] = ent[e].current
                      /\ Allowed(ent, pol, e)
    BY <1>3 DEF VectorsAreCurrent, Allowed
  <2>1. /\ Allowed(ent, pol, e) /\ ent[e].build = entry[e].build
        /\ PrunedVectors(ent, pol)[e] = vector[e] /\ vector[e] # None
    BY DEF PrunedVectors
  <2>2. entry[e].current = ent[e].current
    BY <1>1, <2>1 DEF Moves, Allowed
  <2> QED
    BY <2>1, <2>2 DEF Vectors, VectorsAreCurrent
<1>11. ReadyHasVector'
  <2> SUFFICES ASSUME NEW j \in JobId, job'[j].status = "ready"
               PROVE  /\ Attached(ent, j)
                      /\ PrunedVectors(ent, pol)[EntryOf(j)] = job'[j].text
    BY <1>3 DEF ReadyHasVector, Attached
  <2> DEFINE e == EntryOf(j)
  <2>1. /\ job[j].status = "ready" /\ Attached(ent, j) /\ Allowed(ent, pol, e)
        /\ job'[j].text = job[j].text
    BY <1>6, <1>7
  <2>2. Attached(entry, j) /\ vector[e] = job[j].text
    BY <2>1 DEF Vectors, ReadyHasVector
  <2>3. ent[e].build = entry[e].build
    BY <2>1, <2>2 DEF Attached
  <2> QED
    BY <2>1, <2>2, <2>3, JobParts DEF PrunedVectors
<1> QED
  BY <1>2, <1>4, <1>8, <1>9, <1>10, <1>11 DEF Rows, Vectors

\* Records, policy and vectors stay, no job becomes ready, and a new job is of a
\* passage as it is.
Queues ==
  /\ UNCHANGED <<entry, policy, vector>>
  /\ job' \in [JobId -> JobRow]
  /\ \A j \in JobId :
       \/ /\ job'[j].text = job[j].text
          /\ (job'[j].status = "absent") <=> (job[j].status = "absent")
          /\ job'[j].status = "ready" => job[j].status = "ready"
       \/ /\ job[j].status = "absent" /\ job'[j].status = "pending"
          /\ job'[j].text = entry[EntryOf(j)].current /\ Attached(entry, j)

LEMMA QueuesRows ==
  ASSUME Rows, Vectors, Queues
  PROVE  Lives' /\ Texts' /\ Vectors' /\ (UNCHANGED wk => Batches')
<1>1. Lives'
  BY DEF Rows, Lives, Queues
<1>2. \A j \in JobId : Attached(entry, j)' <=> Attached(entry, j)
  BY DEF Attached, Queues
<1>3. ASSUME NEW j \in JobId, job'[j].status # "absent"
      PROVE  /\ job'[j].text \in Text
             /\ BuildOf(j) <= entry[EntryOf(j)].build
             /\ Attached(entry, j) => job'[j].text = entry[EntryOf(j)].current
  <2>1. CASE job[j].status # "absent" /\ job'[j].text = job[j].text
    BY <2>1 DEF Rows, Texts
  <2>2. CASE job'[j].text = entry[EntryOf(j)].current /\ Attached(entry, j)
    BY <2>2, JobParts DEF Rows, Lives, Attached
  <2> QED
    BY <1>3, <2>1, <2>2 DEF Queues
<1>4. Texts'
  BY <1>2, <1>3 DEF Texts, Queues
<1>5. Vectors'
  BY <1>2 DEF Vectors, VectorsAreCurrent, ReadyHasVector, Allowed, Queues
<1>6. UNCHANGED wk => Batches'
  <2> SUFFICES ASSUME UNCHANGED wk PROVE Batches'
    OBVIOUS
  <2>1. \A w \in Worker : wk[w].jobs \subseteq JobId
    BY DEF Rows, TypeOK, WorkerRow
  <2>2. \A j \in JobId : job[j].status # "absent" => job'[j].status # "absent"
    BY DEF Queues
  <2> QED
    BY <2>1, <2>2 DEF Rows, Batches
<1> QED
  BY <1>1, <1>4, <1>5, <1>6

LEMMA WithCurrentRows ==
  ASSUME NEW runs, NEW es, TypeOK
  PROVE  /\ WithCurrent(job, runs, entry, policy, es) \in [JobId -> JobRow]
         /\ \A j \in JobId :
              \/ WithCurrent(job, runs, entry, policy, es)[j] = job[j]
              \/ /\ job[j].status = "absent" /\ Attached(entry, j)
                 /\ WithCurrent(job, runs, entry, policy, es)[j].status = "pending"
                 /\ WithCurrent(job, runs, entry, policy, es)[j].text
                      = entry[EntryOf(j)].current
<1>1. WithCurrent(job, runs, entry, policy, es) \in [JobId -> JobRow]
  BY EnqueuedTypes DEF TypeOK
<1> QED
  BY <1>1 DEF WithCurrent, NoJob

LEMMA CandidateRows ==
  ASSUME Rows, Vectors, Candidate
  PROVE  Rows' /\ Vectors'
<1>1. PICK e \in Entry, t \in Text :
        /\ entry' = [entry EXCEPT ![e].versions = @ \cup {t}]
        /\ UNCHANGED <<kind, policy, vector, run, job, attempt, slot, wk, calls>>
  BY DEF Candidate
<1>2. entry' \in [Entry -> EntryRow]
  <2>1. [entry[e] EXCEPT !.versions = @ \cup {t}] \in EntryRow
    BY EntryUpdates DEF Rows, TypeOK
  <2> QED
    BY <1>1, <2>1 DEF Rows, TypeOK
<1>3. \A x \in Entry :
        /\ entry'[x].life = entry[x].life /\ entry'[x].current = entry[x].current
        /\ entry'[x].build = entry[x].build /\ entry'[x].allowed = entry[x].allowed
        /\ entry'[x].removed = entry[x].removed
  BY <1>1 DEF Rows, TypeOK, EntryRow
<1>4. \A j \in JobId : Attached(entry, j)' <=> Attached(entry, j)
  BY <1>1, <1>3, JobParts DEF Attached
<1>5. TypeOK'
  BY <1>1, <1>2 DEF Rows, TypeOK
<1>6. Lives' /\ Texts' /\ Batches'
  BY <1>1, <1>3, <1>4, JobParts DEF Rows, Lives, Texts, Batches
<1>7. Vectors'
  <2>1. VectorsAreCurrent'
    <3> SUFFICES ASSUME NEW x \in Entry, vector'[x] # None
                 PROVE  vector'[x] = entry'[x].current /\ Allowed(entry', policy', x)
      BY DEF VectorsAreCurrent
    <3>1. /\ vector' = vector /\ policy' = policy
          /\ vector[x] = entry[x].current /\ Allowed(entry, policy, x)
      BY <1>1 DEF Vectors, VectorsAreCurrent
    <3> QED
      BY <3>1, <1>3 DEF Allowed
  <2>2. ReadyHasVector'
    BY <1>1, <1>4 DEF Vectors, ReadyHasVector
  <2> QED
    BY <2>1, <2>2 DEF Vectors
<1> QED
  BY <1>5, <1>6, <1>7 DEF Rows

LEMMA CreateRows ==
  ASSUME Rows, Vectors, NEW e \in Entry, NEW t \in Text, CreateEntry(e, t)
  PROVE  Rows' /\ Vectors'
<1> DEFINE ent == [entry EXCEPT ![e] = Rebuilt(@, t)]
<1>1. /\ ent \in [Entry -> EntryRow] /\ Moves(ent) /\ entry' = ent
      /\ entry[e].life = "unseen"
      /\ ent[e].build = entry[e].build + 1
      /\ \A x \in Entry \ {e} : ent[x] = entry[x]
  BY ZenonT(60), RebuildMoves DEF Rows, CreateEntry, TypeOK, EntryRow, Rebuilt
<1>2. job' = WithCurrent(job, run, ent, policy, {e})
  BY <1>1 DEF CreateEntry
<1>3. UNCHANGED <<kind, policy, vector, run, attempt, slot, wk, calls>>
  BY DEF CreateEntry
<1> HIDE DEF ent
<1>4. TypeOK'
  <2>1. job' \in [JobId -> JobRow]
    BY <1>1, <1>2, EnqueuedTypes DEF Rows, TypeOK
  <2> QED
    BY <1>1, <1>3, <2>1 DEF Rows, TypeOK
<1>5. Lives'
  BY <1>1 DEF Lives, Moves
<1>6. \A x \in Entry : ent[x].build \in Nat /\ entry[x].build \in Nat
  BY <1>1, TicksAssumption DEF Rows, TypeOK, EntryRow
<1>7. \A j \in JobId :
        \/ job'[j] = job[j]
        \/ /\ job[j].status = "absent" /\ job'[j].status = "pending"
           /\ job'[j].text = ent[EntryOf(j)].current /\ Attached(ent, j)
  BY <1>2 DEF WithCurrent, NoJob
<1>8. ASSUME NEW j \in JobId, job[j].status # "absent"
      PROVE  /\ job[j].text \in Text
             /\ BuildOf(j) <= ent[EntryOf(j)].build
             /\ Attached(ent, j) => job[j].text = ent[EntryOf(j)].current
             /\ Attached(entry, j) => Attached(ent, j)
  <2>0. EntryOf(j) \in Entry /\ BuildOf(j) \in Nat
    BY JobParts
  <2>1. /\ job[j].text \in Text
        /\ BuildOf(j) <= entry[EntryOf(j)].build
        /\ Attached(entry, j) => job[j].text = entry[EntryOf(j)].current
    BY <1>8 DEF Rows, Texts
  <2>2. CASE EntryOf(j) = e
    <3>1. ~Attached(entry, j) /\ ent[e].build # BuildOf(j)
      BY <1>1, <1>6, <2>0, <2>1, <2>2 DEF Attached
    <3> QED
      BY <1>1, <1>6, <2>0, <2>1, <2>2, <3>1 DEF Attached
  <2>3. CASE EntryOf(j) # e
    BY <1>1, <2>0, <2>1, <2>3 DEF Attached
  <2> QED
    BY <2>2, <2>3
<1>9. Texts'
  <2> SUFFICES ASSUME NEW j \in JobId, job'[j].status # "absent"
               PROVE  /\ job'[j].text \in Text
                      /\ BuildOf(j) <= ent[EntryOf(j)].build
                      /\ Attached(ent, j) => job'[j].text = ent[EntryOf(j)].current
    BY <1>1 DEF Texts, Attached
  <2>1. CASE job'[j] = job[j]
    BY <1>8, <2>1
  <2>2. CASE job'[j].text = ent[EntryOf(j)].current /\ Attached(ent, j)
    <3>0. EntryOf(j) \in Entry /\ BuildOf(j) \in Nat
      BY JobParts
    <3> QED
      BY <1>1, <1>6, <2>2, <3>0 DEF Attached, Moves
  <2> QED
    BY <1>7, <2>1, <2>2
<1>10. Batches'
  <2>1. \A w \in Worker : wk[w].jobs \subseteq JobId
    BY DEF Rows, TypeOK, WorkerRow
  <2> QED
    BY <1>3, <1>7, <2>1 DEF Rows, Batches
<1>11. VectorsAreCurrent'
  <2> SUFFICES ASSUME NEW x \in Entry, vector[x] # None
               PROVE  vector[x] = ent[x].current /\ Allowed(ent, policy, x)
    BY <1>1, <1>3 DEF VectorsAreCurrent, Allowed
  <2>1. vector[x] = entry[x].current /\ Allowed(entry, policy, x)
    BY DEF Vectors, VectorsAreCurrent
  <2>2. x # e
    BY <1>1, <2>1 DEF Allowed
  <2> QED
    BY <1>1, <2>1, <2>2 DEF Allowed
<1>12. ReadyHasVector'
  <2> SUFFICES ASSUME NEW j \in JobId, job'[j].status = "ready"
               PROVE  Attached(ent, j) /\ vector[EntryOf(j)] = job'[j].text
    BY <1>1, <1>3 DEF ReadyHasVector, Attached
  <2>1. job'[j] = job[j]
    BY <1>7
  <2>2. Attached(entry, j) /\ vector[EntryOf(j)] = job[j].text
    BY <2>1 DEF Vectors, ReadyHasVector
  <2> QED
    BY <1>8, <2>1, <2>2
<1> QED
  BY <1>4, <1>5, <1>9, <1>10, <1>11, <1>12 DEF Rows, Vectors

LEMMA RunRows ==
  ASSUME Rows, Vectors, NEW r \in Run,
         \/ PauseRun(r) \/ ResumeRun(r)
         \/ \E es \in SUBSET Entry, all, follow \in BOOLEAN : Activate(r, es, all, follow)
  PROVE  Rows' /\ Vectors'
<1>1. TypeOK
  BY DEF Rows
<1>2. CASE PauseRun(r)
  <2>1. TypeOK' /\ Queues /\ UNCHANGED wk
    BY <1>1, <1>2 DEF PauseRun, TypeOK, RunRow, Queues
  <2> QED
    BY <2>1, QueuesRows DEF Rows
<1>3. CASE ResumeRun(r)
  <2>1. run' \in [Run -> RunRow]
    BY <1>1, <1>3 DEF ResumeRun, TypeOK, RunRow
  <2>2. Queues
    <3>1. CASE run[r].follow
      BY <1>1, <1>3, <3>1, WithCurrentRows DEF ResumeRun, Queues
    <3>2. CASE ~run[r].follow
      BY <1>1, <1>3, <3>2 DEF ResumeRun, Queues, TypeOK
    <3> QED
      BY <3>1, <3>2
  <2>3. TypeOK' /\ UNCHANGED wk
    BY <1>1, <1>3, <2>1, <2>2 DEF ResumeRun, TypeOK, Queues
  <2> QED
    BY <2>2, <2>3, QueuesRows DEF Rows
<1>4. ASSUME NEW es \in SUBSET Entry, NEW all \in BOOLEAN, NEW follow \in BOOLEAN,
             Activate(r, es, all, follow)
      PROVE  Rows' /\ Vectors'
  <2>1. run' \in [Run -> RunRow]
    BY <1>1, <1>4 DEF Activate, TypeOK, RunRow
  <2>2. \A j \in JobId :
          \/ job'[j] = job[j]
          \/ /\ RunOf(j) = r /\ Attached(entry, j)
             /\ job'[j] = [NoJob EXCEPT !.status = "pending",
                                        !.text = entry[EntryOf(j)].current]
    BY <1>4 DEF Activate
  <2>3. \A j \in JobId : entry[EntryOf(j)].current \in Text \cup {None}
    BY <1>1, JobParts DEF TypeOK, EntryRow
  <2>4. job' \in [JobId -> JobRow]
    BY <1>1, <1>4, <2>3, RowUpdates DEF Activate, TypeOK
  <2>5. ASSUME NEW j \in JobId, job'[j] # job[j], job[j].status # "absent"
        PROVE  job'[j].text = job[j].text
    <3>1. job'[j].text = entry[EntryOf(j)].current /\ Attached(entry, j)
      BY <2>2, <2>5 DEF NoJob
    <3> QED
      BY <2>5, <3>1 DEF Rows, Texts
  <2>6. Queues
    BY <1>4, <2>2, <2>4, <2>5 DEF Queues, Activate, NoJob
  <2>7. TypeOK' /\ UNCHANGED wk
    BY <1>1, <1>4, <2>1, <2>4 DEF Activate, TypeOK
  <2> QED
    BY <2>6, <2>7, QueuesRows DEF Rows
<1> QED
  BY <1>2, <1>3, <1>4

LEMMA RetryRows ==
  ASSUME Rows, Vectors, NEW j \in JobId, RetryJob(j)
  PROVE  Rows' /\ Vectors'
<1>1. TypeOK
  BY DEF Rows
<1>2. job[j].text \in Text \cup {None} /\ job[j].status # "absent"
  BY <1>1 DEF TypeOK, JobRow, RetryJob, Resting
<1>3. job' = [job EXCEPT ![j] = [NoJob EXCEPT !.status = "pending", !.text = job[j].text]]
  BY DEF RetryJob
<1>4. job' \in [JobId -> JobRow]
  BY <1>1, <1>2, <1>3, RowUpdates DEF TypeOK
<1>5. Queues
  BY <1>1, <1>2, <1>3, <1>4 DEF Queues, RetryJob, NoJob, TypeOK
<1>6. TypeOK' /\ UNCHANGED wk
  BY <1>1, <1>4 DEF RetryJob, TypeOK, RunRow
<1> QED
  BY <1>5, <1>6, QueuesRows DEF Rows

LEMMA QuietRows ==
  ASSUME Rows, Vectors, TypeOK', Batches', UNCHANGED <<entry, policy, vector, job>>
  PROVE  Rows' /\ Vectors'
BY DEF Rows, Vectors, Lives, Texts, VectorsAreCurrent, ReadyHasVector, Attached, Allowed

LEMMA ReconcileRows ==
  ASSUME Rows, Vectors, NEW d \in Dispatch, NEW as \in {"spent", "released"},
         Reconcile(d, as)
  PROVE  Rows' /\ Vectors'
<1>1. TypeOK' /\ Batches'
  BY DEF Reconcile, Rows, TypeOK, Batches
<1> QED
  BY <1>1, QuietRows DEF Reconcile

LEMMA TickRows ==
  ASSUME Rows, Vectors, Tick
  PROVE  Rows' /\ Vectors'
<1>1. TypeOK /\ \A j \in JobId : job[j] \in JobRow
  BY DEF Rows, TypeOK
<1>2. job' \in [JobId -> JobRow]
  BY <1>1, RowUpdates DEF Tick
<1>3. \A j \in JobId : job'[j].status = job[j].status /\ job'[j].text = job[j].text
  BY <1>1 DEF Tick, JobRow
<1>4. Queues /\ UNCHANGED wk
  BY <1>2, <1>3 DEF Queues, Tick
<1>5. TypeOK'
  BY <1>1, <1>2 DEF Tick, TypeOK
<1> QED
  BY <1>4, <1>5, QueuesRows DEF Rows

LEMMA RecoverRows ==
  ASSUME Rows, Vectors, NEW w \in Worker, Recover(w)
  PROVE  Rows' /\ Vectors'
<1>1. TypeOK /\ \A j \in JobId : job[j] \in JobRow
  BY DEF Rows, TypeOK
<1>2. ASSUME NEW row \in JobRow
      PROVE  /\ RecoveredJob(row) \in JobRow
             /\ RecoveredJob(row).text = row.text
             /\ RecoveredJob(row).status \in {"uncertain", "failed", "pending"}
  <2> DEFINE sent == IF row.dispatch = None THEN "none" ELSE attempt[row.dispatch]
  <2>1. /\ sent = "open" => RecoveredJob(row) = [row EXCEPT !.status = "uncertain"]
        /\ sent = "spent" => RecoveredJob(row) = [row EXCEPT !.status = "failed"]
        /\ sent \notin {"open", "spent"} =>
             RecoveredJob(row) = [row EXCEPT !.status = "pending", !.dispatch = None]
    BY DEF RecoveredJob
  <2> HIDE DEF sent
  <2>2. /\ [row EXCEPT !.status = "uncertain"] \in JobRow
        /\ [row EXCEPT !.status = "failed"] \in JobRow
        /\ [row EXCEPT !.status = "pending", !.dispatch = None] \in JobRow
    BY RowUpdates DEF Live, Resting
  <2>3. /\ [row EXCEPT !.status = "uncertain"].text = row.text
        /\ [row EXCEPT !.status = "uncertain"].status = "uncertain"
        /\ [row EXCEPT !.status = "failed"].text = row.text
        /\ [row EXCEPT !.status = "failed"].status = "failed"
        /\ [row EXCEPT !.status = "pending", !.dispatch = None].text = row.text
        /\ [row EXCEPT !.status = "pending", !.dispatch = None].status = "pending"
    BY DEF JobRow
  <2> QED
    BY <2>1, <2>2, <2>3
<1>3. job' \in [JobId -> JobRow]
  BY <1>1, <1>2 DEF Recover
<1>4. \A j \in JobId :
        \/ job'[j] = job[j]
        \/ /\ job[j].status = "running" /\ job'[j].text = job[j].text
           /\ job'[j].status \in {"uncertain", "failed", "pending"}
  BY <1>1, <1>2 DEF Recover, Expired
<1>5. Queues /\ UNCHANGED wk
  BY <1>3, <1>4 DEF Queues, Recover
<1>6. TypeOK'
  BY <1>1, <1>3 DEF Recover, TypeOK
<1> QED
  BY <1>5, <1>6, QueuesRows DEF Rows

LEMMA FinishedType ==
  ASSUME NEW runs \in [Run -> RunRow], NEW jobs, NEW r
  PROVE  FinishedRun(runs, jobs, r) \in [Run -> RunRow]
BY DEF FinishedRun, RunRow

\* The steps of a worker between two transactions that change jobs.
LEMMA CallRows ==
  ASSUME Rows, Vectors, NEW w \in Worker,
         \/ Reserve(w) \/ CheckDispatch(w) \/ AbandonSend(w) \/ Send(w) \/ Settle(w)
         \/ \E code \in {"pause", "busy", "error"} : RefuseReservation(w, code)
         \/ \E ok \in BOOLEAN : Answer(w, ok)
         \/ Crash(w)
  PROVE  Rows' /\ Vectors'
<1>1. TypeOK
  BY DEF Rows
<1>2. \/ \E pc \in PC, code \in Code :
           /\ wk[w].pc # "idle"
           /\ wk' = [wk EXCEPT ![w].pc = pc, ![w].code = code]
      \/ \E pc \in PC : wk[w].pc # "idle" /\ wk' = [wk EXCEPT ![w].pc = pc]
      \/ wk' = [wk EXCEPT ![w] = Idle]
  BY DEF Reserve, CheckDispatch, AbandonSend, Send, Settle, RefuseReservation,
     Answer, Crash, Withdraw, To, Fail, PC, Code
<1>3. /\ wk' \in [Worker -> WorkerRow]
      /\ \A v \in Worker :
           \/ wk'[v].pc = "idle"
           \/ /\ wk[v].pc # "idle"
              /\ wk'[v].dispatch = wk[v].dispatch /\ wk'[v].jobs = wk[v].jobs
  <2>1. ASSUME NEW pc \in PC, NEW code \in Code, NEW row \in WorkerRow
        PROVE  /\ [row EXCEPT !.pc = pc, !.code = code] \in WorkerRow
               /\ [row EXCEPT !.pc = pc] \in WorkerRow
    BY DEF WorkerRow
  <2>2. ASSUME NEW row \in WorkerRow, wk' = [wk EXCEPT ![w] = row],
               \/ row.pc = "idle"
               \/ /\ wk[w].pc # "idle"
                  /\ row.dispatch = wk[w].dispatch /\ row.jobs = wk[w].jobs
        PROVE  /\ wk' \in [Worker -> WorkerRow]
               /\ \A v \in Worker :
                    \/ wk'[v].pc = "idle"
                    \/ /\ wk[v].pc # "idle"
                       /\ wk'[v].dispatch = wk[v].dispatch /\ wk'[v].jobs = wk[v].jobs
    <3>1. \A v \in Worker : wk'[v] = IF v = w THEN row ELSE wk[v]
      BY <1>1, <2>2 DEF TypeOK
    <3> QED
      BY <1>1, <2>2, <3>1 DEF TypeOK
  <2>3. wk[w] \in WorkerRow
    BY <1>1 DEF TypeOK
  <2>4. ASSUME NEW pc \in PC, NEW code \in Code, wk[w].pc # "idle",
               wk' = [wk EXCEPT ![w].pc = pc, ![w].code = code]
        PROVE  \E row \in WorkerRow :
                 /\ wk' = [wk EXCEPT ![w] = row]
                 /\ row.dispatch = wk[w].dispatch /\ row.jobs = wk[w].jobs
    <3> DEFINE row == [wk[w] EXCEPT !.pc = pc, !.code = code]
    <3>1. row \in WorkerRow /\ row.dispatch = wk[w].dispatch /\ row.jobs = wk[w].jobs
      BY <2>1, <2>3 DEF WorkerRow
    <3>2. wk' = [wk EXCEPT ![w] = row]
      BY <2>4
    <3> QED
      BY <3>1, <3>2
  <2>5. ASSUME NEW pc \in PC, wk[w].pc # "idle", wk' = [wk EXCEPT ![w].pc = pc]
        PROVE  \E row \in WorkerRow :
                 /\ wk' = [wk EXCEPT ![w] = row]
                 /\ row.dispatch = wk[w].dispatch /\ row.jobs = wk[w].jobs
    <3> DEFINE row == [wk[w] EXCEPT !.pc = pc]
    <3>1. row \in WorkerRow /\ row.dispatch = wk[w].dispatch /\ row.jobs = wk[w].jobs
      BY <2>1, <2>3 DEF WorkerRow
    <3>2. wk' = [wk EXCEPT ![w] = row]
      BY <2>5
    <3> QED
      BY <3>1, <3>2
  <2>6. wk' = [wk EXCEPT ![w] = Idle] => Idle \in WorkerRow /\ Idle.pc = "idle"
    BY ConstantTypes DEF Idle
  <2> QED
    BY <1>2, <2>2, <2>4, <2>5, <2>6
<1>4. /\ attempt' \in [Dispatch -> {"none", "open", "spent", "released"}]
      /\ slot' \in Worker \cup {None}
  BY <1>1 DEF Reserve, CheckDispatch, AbandonSend, Send, Settle, RefuseReservation,
     Answer, Crash, Withdraw, TypeOK
<1>5. calls' \in [JobId -> Nat]
  BY <1>1 DEF Reserve, CheckDispatch, AbandonSend, Send, Settle, RefuseReservation,
     Answer, Crash, Withdraw, TypeOK
<1>6. UNCHANGED <<kind, policy, entry, vector, run, job>>
  BY DEF Reserve, CheckDispatch, AbandonSend, Send, Settle, RefuseReservation,
     Answer, Crash
<1>7. TypeOK'
  BY <1>1, <1>3, <1>4, <1>5, <1>6 DEF TypeOK
<1>8. Batches'
  BY <1>3, <1>6 DEF Rows, Batches
<1> QED
  BY <1>6, <1>7, <1>8, QuietRows

LEMMA FailureRows ==
  ASSUME Rows, Vectors, NEW w \in Worker, RecordFailure(w)
  PROVE  Rows' /\ Vectors'
<1>1. TypeOK /\ \A j \in JobId : job[j] \in JobRow
  BY DEF Rows, TypeOK
<1>2. FailedStatus(w) \in {"uncertain", "pending", "stale", "failed"}
  BY DEF FailedStatus
<1>3. \A j \in JobId : [job[j] EXCEPT !.status = FailedStatus(w), !.lease = 0] \in JobRow
  BY <1>1, <1>2, RowUpdates DEF Live, Resting
<1>4. job' \in [JobId -> JobRow]
  BY <1>1, <1>3 DEF RecordFailure
<1>5. \A j \in JobId :
        \/ job'[j] = job[j]
        \/ /\ job[j].status = "running" /\ job'[j].text = job[j].text
           /\ job'[j].status \in {"uncertain", "pending", "stale", "failed"}
  BY <1>1, <1>2 DEF RecordFailure, Owned, JobRow
<1>6. Queues
  BY <1>4, <1>5 DEF Queues, RecordFailure
<1>7. run' \in [Run -> RunRow]
  <2>1. [run EXCEPT ![wk[w].run].status = "paused"] \in [Run -> RunRow]
    BY ZenonT(60), <1>1 DEF TypeOK, RunRow
  <2> QED
    BY <1>1, <2>1, FinishedType DEF RecordFailure, TypeOK
<1>8. wk' = [wk EXCEPT ![w] = Idle]
  BY DEF RecordFailure
<1>9. TypeOK'
  BY <1>1, <1>4, <1>7, <1>8, ConstantTypes DEF RecordFailure, TypeOK
<1>10. Batches'
  <2>1. \A v \in Worker : wk[v].jobs \subseteq JobId
    BY <1>1 DEF TypeOK, WorkerRow
  <2>2. \A v \in Worker : wk'[v] = wk[v] \/ wk'[v].pc = "idle"
    BY <1>1, <1>8 DEF TypeOK, Idle
  <2> QED
    BY <1>5, <2>1, <2>2 DEF Rows, Batches
<1> QED
  BY <1>6, <1>9, <1>10, QueuesRows DEF Rows

\* What a vector that is stored by WithVectors was made from.
LEMMA WithVectorsIs ==
  ASSUME Rows, NEW js \in SUBSET JobId, NEW e \in Entry,
         \A j \in js : job[j].status # "absent" /\ Attached(entry, j)
  PROVE  /\ vector[e] # None => WithVectors(js)[e] = vector[e]
         /\ vector[e] = None /\ (\E j \in js : EntryOf(j) = e)
              => WithVectors(js)[e] = entry[e].current
         /\ vector[e] = None /\ ~(\E j \in js : EntryOf(j) = e)
              => WithVectors(js)[e] = None
<1>1. ASSUME NEW j \in js, EntryOf(j) = e
      PROVE  job[j].text \in Text /\ job[j].text = entry[e].current
  BY <1>1 DEF Rows, Texts
<1>2. ASSUME \E j \in js : EntryOf(j) = e
      PROVE  (CHOOSE t \in Text : \E j \in js : EntryOf(j) = e /\ job[j].text = t)
               = entry[e].current
  <2>1. \E t \in Text : \E j \in js : EntryOf(j) = e /\ job[j].text = t
    BY <1>1, <1>2
  <2> DEFINE t == CHOOSE u \in Text : \E j \in js : EntryOf(j) = e /\ job[j].text = u
  <2>2. \E j \in js : EntryOf(j) = e /\ job[j].text = t
    BY <2>1
  <2> QED
    BY <1>1, <2>2
<1> QED
  BY <1>2 DEF WithVectors

LEMMA PublishRows ==
  ASSUME Rows, Vectors, NEW w \in Worker, Publish(w)
  PROVE  Rows' /\ Vectors'
<1>1. /\ TypeOK /\ (\A j \in JobId : job[j] \in JobRow) /\ wk[w].jobs \in SUBSET JobId
      /\ wk[w] \in WorkerRow
  BY DEF Rows, TypeOK, WorkerRow
<1>2. CASE ~(Owned(w) = wk[w].jobs /\ InputsHold(w))
  <2>1. [wk[w] EXCEPT !.pc = "failing", !.code = "context"] \in WorkerRow
    BY <1>1 DEF WorkerRow, PC, Code
  <2>2. wk' = [wk EXCEPT ![w] = [wk[w] EXCEPT !.pc = "failing", !.code = "context"]]
    BY <1>2 DEF Publish, Fail
  <2>3. UNCHANGED <<kind, policy, entry, vector, run, job, attempt, slot, calls>>
    BY <1>2 DEF Publish
  <2>4. TypeOK'
    BY <1>1, <2>1, <2>2, <2>3 DEF TypeOK
  <2>5. wk[w].pc # "idle"
    BY DEF Publish
  <2>6. \A v \in Worker :
          wk'[v].pc # "idle" => /\ wk[v].pc # "idle" /\ wk'[v].dispatch = wk[v].dispatch
                                /\ wk'[v].jobs = wk[v].jobs
    BY <1>1, <2>2, <2>5 DEF TypeOK, WorkerRow
  <2>7. Batches'
    BY <2>3, <2>6 DEF Rows, Batches
  <2> QED
    BY <2>3, <2>4, <2>7, QuietRows
<1>3. CASE Owned(w) = wk[w].jobs /\ InputsHold(w)
  <2> DEFINE js == wk[w].jobs
  <2>1. /\ vector' = WithVectors(js)
        /\ job' = [j \in JobId |-> IF j \in js
                                   THEN [job[j] EXCEPT !.status = "ready", !.lease = 0]
                                   ELSE job[j]]
        /\ run' = FinishedRun(run, job', wk[w].run)
        /\ wk' = [wk EXCEPT ![w] = Idle]
        /\ UNCHANGED <<kind, policy, entry, attempt, slot, calls>>
    BY <1>3 DEF Publish
  <2>2. \A j \in js : /\ job[j].status = "running" /\ Attached(entry, j)
                      /\ Allowed(entry, policy, EntryOf(j))
    BY <1>3 DEF Owned, InputsHold
  <2>3. js \in SUBSET JobId
    BY <1>1
  <2> HIDE DEF js
  <2>4. job' \in [JobId -> JobRow]
    BY <1>1, <2>1, RowUpdates DEF Live
  <2>5. \A j \in js : job[j].text \in Text
    BY <2>2, <2>3 DEF Rows, Texts
  <2>6. vector' \in [Entry -> Text \cup {None}]
    BY <1>1, <2>1, <2>5, VectorTypes
  <2>7. run' \in [Run -> RunRow] /\ wk' \in [Worker -> WorkerRow]
    BY <1>1, <2>1, FinishedType, ConstantTypes DEF TypeOK
  <2>8. TypeOK'
    BY <1>1, <2>1, <2>4, <2>6, <2>7 DEF TypeOK
  <2>9. \A j \in JobId :
          /\ job'[j].text = job[j].text
          /\ (job'[j].status = "absent") <=> (job[j].status = "absent")
          /\ job'[j].status = "ready" => job[j].status = "ready" \/ j \in js
    BY <1>1, <2>1, <2>2 DEF JobRow
  <2>10. /\ \A j \in JobId : Attached(entry, j)' <=> Attached(entry, j)
         /\ \A e \in Entry : Allowed(entry, policy, e)' <=> Allowed(entry, policy, e)
    BY <2>1 DEF Attached, Allowed
  <2>11. Lives' /\ Texts'
    BY <2>1, <2>9, <2>10 DEF Rows, Lives, Texts
  <2>12. Batches'
    <3>1. \A v \in Worker : wk'[v] = wk[v] \/ wk'[v].pc = "idle"
      BY <1>1, <2>1 DEF TypeOK, Idle
    <3>2. \A v \in Worker : wk[v].jobs \subseteq JobId
      BY <1>1 DEF TypeOK, WorkerRow
    <3> QED
      BY <2>9, <3>1, <3>2 DEF Rows, Batches
  <2>13. \A e \in Entry :
           /\ vector[e] # None => vector'[e] = vector[e]
           /\ vector[e] = None /\ (\E j \in js : EntryOf(j) = e) => vector'[e] = entry[e].current
           /\ vector[e] = None /\ ~(\E j \in js : EntryOf(j) = e) => vector'[e] = None
    BY <2>1, <2>2, <2>3, WithVectorsIs
  <2>14. VectorsAreCurrent'
    BY <2>1, <2>2, <2>10, <2>13 DEF Vectors, VectorsAreCurrent
  <2>15. ReadyHasVector'
    <3> SUFFICES ASSUME NEW j \in JobId, job'[j].status = "ready"
                 PROVE  Attached(entry, j) /\ vector'[EntryOf(j)] = job[j].text
      BY <2>9, <2>10 DEF ReadyHasVector
    <3>0. EntryOf(j) \in Entry
      BY JobParts
    <3>1. CASE job[j].status = "ready"
      <4>1. Attached(entry, j) /\ vector[EntryOf(j)] = job[j].text /\ job[j].text \in Text
        BY <3>1 DEF Vectors, ReadyHasVector, Rows, Texts
      <4> QED
        BY <2>13, <3>0, <4>1, NoneAssumption
    <3>2. CASE j \in js
      <4>1. Attached(entry, j) /\ job[j].text = entry[EntryOf(j)].current
        BY <2>2, <3>2 DEF Rows, Texts
      <4>2. vector[EntryOf(j)] # None => vector[EntryOf(j)] = entry[EntryOf(j)].current
        BY <3>0 DEF Vectors, VectorsAreCurrent
      <4> QED
        BY <2>13, <3>0, <3>2, <4>1, <4>2
    <3> QED
      BY <2>9, <3>1, <3>2
  <2> QED
    BY <2>8, <2>11, <2>12, <2>14, <2>15 DEF Rows, Vectors
<1> QED
  BY <1>2, <1>3

LEMMA Verdicts ==
  ASSUME NEW j \in JobId
  PROVE  /\ Verdict(j) \in {"stale", "blocked", "ready", "running"}
         /\ Verdict(j) \in {"ready", "running"} =>
              Attached(entry, j) /\ Allowed(entry, policy, EntryOf(j))
BY DEF Verdict

LEMMA ClaimRows ==
  ASSUME Rows, Vectors, NEW w \in Worker, NEW r \in Run, NEW d \in Dispatch \cup {None},
         NEW js \in SUBSET Queued(r), ClaimBatch(w, r, js, d)
  PROVE  Rows' /\ Vectors'
<1> DEFINE chosen == {j \in js : Verdict(j) = "running"}
           ready == {j \in js : Verdict(j) = "ready"}
<1>1. /\ TypeOK /\ (\A j \in JobId : job[j] \in JobRow)
      /\ js \subseteq JobId /\ chosen \subseteq js
      /\ \A j \in js : job[j].status = "pending"
  BY DEF Rows, TypeOK, Queued
<1>2. /\ job' = [j \in JobId |->
                   IF j \in chosen
                   THEN [job[j] EXCEPT !.status = "running", !.dispatch = d, !.lease = LeaseTTL]
                   ELSE IF j \in js THEN [job[j] EXCEPT !.status = Verdict(j)] ELSE job[j]]
      /\ vector' = WithVectors(ready)
      /\ chosen = {} => run' = FinishedRun(run, job', r) /\ UNCHANGED wk
      /\ chosen # {} =>
           /\ d \in Dispatch /\ UNCHANGED run
           /\ wk' = [wk EXCEPT ![w] = [pc |-> "claimed", run |-> r, jobs |-> chosen,
                                       dispatch |-> d, fresh |-> TRUE, code |-> "none"]]
      /\ UNCHANGED <<kind, policy, entry, attempt, slot, calls>>
  BY DEF ClaimBatch
<1>3. \A j \in js : /\ Verdict(j) \in {"stale", "blocked", "ready", "running"}
                    /\ Verdict(j) = "ready" =>
                         Attached(entry, j) /\ Allowed(entry, policy, EntryOf(j))
  BY <1>1, Verdicts
<1>4. ready \in SUBSET JobId /\ \A j \in ready : job[j].status # "absent" /\ Attached(entry, j)
  BY <1>1, <1>3
<1>5. \A j \in JobId :
        \/ job'[j] = job[j] /\ j \notin js
        \/ /\ j \in js /\ job'[j].text = job[j].text
           /\ job'[j].status \in {"stale", "blocked", "ready", "running"}
           /\ job'[j].status = "ready" => j \in ready
  BY <1>1, <1>2, <1>3 DEF JobRow
<1>6. job' \in [JobId -> JobRow]
  <2> SUFFICES ASSUME NEW j \in JobId PROVE job'[j] \in JobRow
    BY <1>2
  <2>1. CASE j \in chosen
    <3>1. d \in Dispatch
      BY <1>2, <2>1
    <3>2. [job[j] EXCEPT !.status = "running", !.dispatch = d, !.lease = LeaseTTL] \in JobRow
      BY <1>1, <3>1, RowUpdates DEF Live
    <3> QED
      BY <1>2, <2>1, <3>2
  <2>2. CASE j \in js \ chosen
    <3>1. Verdict(j) \in Live \cup Resting
      BY <1>3, <2>2 DEF Live, Resting
    <3>2. [job[j] EXCEPT !.status = Verdict(j)] \in JobRow
      BY <1>1, <3>1, RowUpdates
    <3> QED
      BY <1>2, <2>2, <3>2
  <2>3. CASE j \notin js
    BY <1>1, <1>2, <2>3
  <2> QED
    BY <2>1, <2>2, <2>3
<1>7. wk' \in [Worker -> WorkerRow] /\ run' \in [Run -> RunRow]
  <2>1. CASE chosen = {}
    <3>1. run' = FinishedRun(run, job', r) /\ UNCHANGED wk
      BY <1>2, <2>1
    <3> QED
      BY <1>1, <3>1, FinishedType DEF TypeOK
  <2>2. CASE chosen # {}
    <3>1. chosen \in SUBSET JobId /\ d \in Dispatch
      BY <1>1, <1>2, <2>2
    <3> HIDE DEF chosen
    <3>2. [pc |-> "claimed", run |-> r, jobs |-> chosen, dispatch |-> d, fresh |-> TRUE,
           code |-> "none"] \in WorkerRow
      BY <3>1 DEF WorkerRow, PC, Code
    <3> QED
      BY <1>1, <1>2, <2>2, <3>2 DEF TypeOK
  <2> QED
    BY <2>1, <2>2
<1>8. Batches'
  <2>1. \A v \in Worker : wk[v].jobs \subseteq JobId
    BY <1>1 DEF TypeOK, WorkerRow
  <2>2. \A j \in JobId : job[j].status # "absent" => job'[j].status # "absent"
    BY <1>5
  <2>3. CASE chosen = {}
    BY <1>2, <2>1, <2>2, <2>3 DEF Rows, Batches
  <2>4. CASE chosen # {}
    <3>1. \A j \in chosen : job'[j].status # "absent"
      BY <1>1, <2>2
    <3>2. \A v \in Worker \ {w} : wk'[v] = wk[v]
      BY <1>1, <1>2, <2>4 DEF TypeOK
    <3>3. /\ d \in Dispatch
          /\ wk' = [wk EXCEPT ![w] = [pc |-> "claimed", run |-> r, jobs |-> chosen,
                                      dispatch |-> d, fresh |-> TRUE, code |-> "none"]]
      BY <1>2, <2>4
    <3> HIDE DEF chosen
    <3>4. wk'[w].dispatch \in Dispatch /\ wk'[w].jobs = chosen
      BY <1>1, <3>3 DEF TypeOK
    <3> QED
      BY <2>1, <2>2, <3>1, <3>2, <3>4 DEF Rows, Batches
  <2> QED
    BY <2>3, <2>4
<1> HIDE DEF chosen, ready
<1>9. TypeOK'
  <2>1. \A j \in ready : job[j].text \in Text
    BY <1>4 DEF Rows, Texts
  <2>2. vector' \in [Entry -> Text \cup {None}]
    BY <1>1, <1>2, <2>1, VectorTypes
  <2> QED
    BY <1>1, <1>2, <1>6, <1>7, <2>2 DEF TypeOK
<1>10. /\ \A j \in JobId : Attached(entry, j)' <=> Attached(entry, j)
       /\ \A e \in Entry : Allowed(entry, policy, e)' <=> Allowed(entry, policy, e)
  BY <1>2 DEF Attached, Allowed
<1>11. Lives' /\ Texts'
  <2>1. \A j \in JobId : job'[j].text = job[j].text
                         /\ (job'[j].status # "absent" => job[j].status # "absent")
    BY <1>1, <1>5
  <2> QED
    BY <1>2, <1>10, <2>1 DEF Rows, Lives, Texts
<1>12. \A e \in Entry :
         /\ vector[e] # None => vector'[e] = vector[e]
         /\ vector[e] = None /\ (\E j \in ready : EntryOf(j) = e) => vector'[e] = entry[e].current
         /\ vector[e] = None /\ ~(\E j \in ready : EntryOf(j) = e) => vector'[e] = None
  BY <1>2, <1>4, WithVectorsIs
<1>13. \A j \in ready : Allowed(entry, policy, EntryOf(j))
  BY <1>3 DEF ready
<1>14. VectorsAreCurrent'
  BY <1>2, <1>10, <1>12, <1>13 DEF Vectors, VectorsAreCurrent
<1>15. ReadyHasVector'
  <2> SUFFICES ASSUME NEW j \in JobId, job'[j].status = "ready"
               PROVE  Attached(entry, j) /\ vector'[EntryOf(j)] = job'[j].text
    BY <1>10 DEF ReadyHasVector
  <2>0. EntryOf(j) \in Entry
    BY JobParts
  <2>1. CASE job'[j] = job[j]
    <3>1. Attached(entry, j) /\ vector[EntryOf(j)] = job[j].text /\ job[j].text \in Text
      BY <2>1 DEF Vectors, ReadyHasVector, Rows, Texts
    <3> QED
      BY <1>12, <2>0, <2>1, <3>1, NoneAssumption
  <2>2. CASE j \in ready /\ job'[j].text = job[j].text
    <3>1. Attached(entry, j) /\ job[j].text = entry[EntryOf(j)].current
      BY <1>4, <2>2 DEF Rows, Texts
    <3>2. vector[EntryOf(j)] # None => vector[EntryOf(j)] = entry[EntryOf(j)].current
      BY <2>0 DEF Vectors, VectorsAreCurrent
    <3> QED
      BY <1>12, <2>0, <2>2, <3>1, <3>2
  <2> QED
    BY <1>5, <2>1, <2>2
<1> QED
  BY <1>8, <1>9, <1>11, <1>14, <1>15 DEF Rows, Vectors

LEMMA RowsStep ==
  ASSUME Rows, Vectors, [Next]_vars
  PROVE  Rows' /\ Vectors'
<1>1. CASE OwnerStep
  BY <1>1, OwnerCases, ChangeRows, CandidateRows, CreateRows, RunRows, RetryRows,
     ReconcileRows DEF Rows
<1>2. ASSUME NEW w \in Worker, WorkerStep(w) PROVE Rows' /\ Vectors'
  BY <1>2, CallRows, FailureRows, PublishRows, ClaimRows DEF WorkerStep
<1>3. ASSUME NEW w \in Worker, Recover(w) \/ Crash(w) PROVE Rows' /\ Vectors'
  BY <1>3, CallRows, RecoverRows
<1>4. CASE Tick
  BY <1>4, TickRows
<1>5. CASE UNCHANGED vars
  <2>1. TypeOK' /\ Batches'
    BY <1>5 DEF vars, Rows, TypeOK, Batches
  <2> QED
    BY <1>5, <2>1, QuietRows DEF vars
<1> QED
  BY <1>1, <1>2, <1>3, <1>4, <1>5 DEF Next

LEMMA InitRows == Init => Rows /\ Vectors
<1> SUFFICES ASSUME Init PROVE Rows /\ Vectors
  OBVIOUS
<1>1. TypeOK
  BY ConstantTypes DEF Init, TypeOK
<1>2. Lives /\ Texts /\ Batches
  BY DEF Init, Lives, Texts, Batches, Unseen, NoJob, Idle
<1>3. Vectors
  BY DEF Init, Vectors, VectorsAreCurrent, ReadyHasVector, NoJob
<1> QED
  BY <1>1, <1>2, <1>3 DEF Rows

LEMMA RowsHold == Spec => [](Rows /\ Vectors)
<1>1. (Rows /\ Vectors) /\ [Next]_vars => (Rows /\ Vectors)'
  BY RowsStep
<1> QED
  BY <1>1, InitRows, PTL DEF Spec

\* Types are preserved by every step.
THEOREM TypeCorrect == Spec => []TypeOK
<1>1. Rows => TypeOK
  BY DEF Rows
<1> QED
  BY <1>1, RowsHold, PTL

\* The vector store never holds what is not the current text of an allowed record:
\* prune_embeddings in every change, and the recheck before every publication.
THEOREM VectorsCurrent == Spec => []VectorsAreCurrent
<1>1. Vectors => VectorsAreCurrent
  BY DEF Vectors
<1> QED
  BY <1>1, RowsHold, PTL

\* A ready job's vector is stored: invalidate_jobs takes back what prune removes.
THEOREM ReadyMeansStored == Spec => []ReadyHasVector
<1>1. Vectors => ReadyHasVector
  BY DEF Vectors
<1> QED
  BY <1>1, RowsHold, PTL

(***************************************************************************)
(* What is at the provider.                                                *)
(***************************************************************************)
\* While a call is in flight the records, the policy and the jobs' texts stay.
LEMMA LockedStep ==
  ASSUME Rows, [Next]_vars, ~LockFree
  PROVE  /\ UNCHANGED <<entry, policy>>
         /\ \A j \in JobId : job'[j].text = job[j].text
<1>1. CASE OwnerStep
  BY ZenonT(60), <1>1 DEF OwnerStep, CreateEntry, UpdateEntry, ChooseVersion, Observe, DeleteEntry,
     AllowReimport, SetAllowed, SetSourceState, UpdatePolicy, PauseRun, ResumeRun,
     Activate, RetryJob, Reconcile
<1>2. ASSUME NEW w \in Worker, WorkerStep(w) \/ Recover(w) \/ Crash(w)
      PROVE  UNCHANGED <<entry, policy, job>>
  BY <1>2 DEF WorkerStep, ClaimBatch, Reserve, CheckDispatch, AbandonSend, Send,
     RefuseReservation, Answer, Settle, Publish, RecordFailure, Recover, Crash
<1>3. CASE Tick
  BY <1>3 DEF Tick, Rows, TypeOK, JobRow
<1>4. CASE UNCHANGED vars
  BY <1>4 DEF vars
<1> QED
  BY <1>1, <1>2, <1>3, <1>4 DEF Next

\* A batch is sent by Send alone, and whose it is does not change meanwhile.
LEMMA SendingStep ==
  ASSUME Rows, [Next]_vars, NEW w \in Worker, wk'[w].pc = "sending"
  PROVE  /\ wk'[w].jobs = wk[w].jobs
         /\ \/ wk[w].pc = "sending"
            \/ Send(w) /\ LockFree /\ InputsHold(w) /\ wk[w].pc = "checked"
<1>0. wk \in [Worker -> WorkerRow]
  BY DEF Rows, TypeOK
<1>1. CASE \/ UNCHANGED wk
           \/ \A v \in Worker : wk'[v].pc = wk[v].pc /\ wk'[v].jobs = wk[v].jobs
  BY <1>1
<1>2. CASE OwnerStep
  <2>1. CASE Change
    BY <1>0, <2>1 DEF Change, Invalidate, WorkerRow
  <2>2. CASE ~Change
    <3>1. UNCHANGED wk
      BY <1>2, <2>2, OwnerCases DEF Rows, Candidate, CreateEntry, PauseRun, ResumeRun,
         Activate, RetryJob, Reconcile
    <3> QED
      BY <3>1, <1>1
  <2> QED
    BY <2>1, <2>2
<1>3. ASSUME NEW v \in Worker, v # w, WorkerStep(v) \/ Recover(v) \/ Crash(v)
      PROVE  wk'[w] = wk[w]
  BY <1>0, <1>3 DEF WorkerStep, ClaimBatch, Reserve, CheckDispatch, AbandonSend, Send,
     RefuseReservation, Answer, Settle, Publish, RecordFailure, Recover, Crash,
     Withdraw, To, Fail
<1>4. CASE Send(w)
  BY <1>0, <1>4 DEF Send, To, Withdraw, Fail, WorkerRow
<1>5. CASE WorkerStep(w) /\ ~Send(w)
  <2>1. \/ \E pc \in PC \ {"sending"} :
             wk' = [wk EXCEPT ![w].pc = pc] \/ \E code \in Code :
               wk' = [wk EXCEPT ![w].pc = pc, ![w].code = code]
        \/ wk' = [wk EXCEPT ![w] = Idle]
        \/ UNCHANGED wk
        \/ \E r \in Run, d \in Dispatch \cup {None} : \E js \in SUBSET Queued(r) :
             ClaimBatch(w, r, js, d)
    BY <1>5 DEF WorkerStep, Reserve, CheckDispatch, AbandonSend, RefuseReservation,
       Answer, Settle, Publish, RecordFailure, Withdraw, To, Fail, PC, Code
  <2>2. ~ \E pc \in PC \ {"sending"} :
            wk' = [wk EXCEPT ![w].pc = pc] \/ \E code \in Code :
              wk' = [wk EXCEPT ![w].pc = pc, ![w].code = code]
    BY <1>0 DEF WorkerRow
  <2>3. wk' # [wk EXCEPT ![w] = Idle]
    BY <1>0 DEF Idle
  <2>4. ASSUME NEW r \in Run, NEW d \in Dispatch \cup {None}, NEW js \in SUBSET Queued(r),
               ClaimBatch(w, r, js, d)
        PROVE  UNCHANGED wk
    <3>1. \/ UNCHANGED wk
          \/ wk' = [wk EXCEPT ![w] = [pc |-> "claimed", run |-> r,
                                      jobs |-> {j \in js : Verdict(j) = "running"},
                                      dispatch |-> d, fresh |-> TRUE, code |-> "none"]]
      BY <2>4 DEF ClaimBatch
    <3> QED
      BY <1>0, <3>1
  <2> QED
    BY <1>1, <2>1, <2>2, <2>3, <2>4
<1>6. CASE Recover(w) \/ Crash(w)
  BY <1>0, <1>6 DEF Recover, Crash, Idle
<1>7. CASE Tick \/ UNCHANGED vars
  BY <1>7 DEF Tick, vars
<1> QED
  BY <1>1, <1>2, <1>3, <1>4, <1>5, <1>6, <1>7 DEF Next

LEMMA PermittedStep ==
  ASSUME Rows, SendingIsPermitted, [Next]_vars
  PROVE  SendingIsPermitted'
<1> SUFFICES ASSUME NEW w \in Worker, wk'[w].pc = "sending", NEW j \in wk[w].jobs
             PROVE  /\ Allowed(entry, policy, EntryOf(j))'
                    /\ job'[j].text = entry'[EntryOf(j)].current
  BY SendingStep DEF SendingIsPermitted
<1>0. j \in JobId
  BY DEF Rows, TypeOK, WorkerRow
<1>1. CASE wk[w].pc = "sending"
  <2>1. ~LockFree
    BY <1>1 DEF LockFree
  <2>2. /\ UNCHANGED <<entry, policy>>
        /\ job'[j].text = job[j].text
    BY <1>0, <2>1, LockedStep
  <2> QED
    BY <1>1, <2>2 DEF SendingIsPermitted, Allowed
<1>2. CASE Send(w) /\ InputsHold(w) /\ wk[w].pc = "checked"
  <2>1. Attached(entry, j) /\ Allowed(entry, policy, EntryOf(j))
    BY <1>2 DEF InputsHold
  <2>2. job[j].text = entry[EntryOf(j)].current
    BY <1>0, <1>2, <2>1 DEF Rows, Texts, Batches
  <2>3. UNCHANGED <<entry, policy, job>>
    BY <1>2 DEF Send
  <2> QED
    BY <2>1, <2>2, <2>3 DEF Allowed
<1> QED
  BY <1>1, <1>2, SendingStep

\* What is at the provider is current and allowed for as long as it is there.
THEOREM SendingPermitted == Spec => []SendingIsPermitted
<1>1. Init => SendingIsPermitted
  BY DEF Init, SendingIsPermitted, Idle
<1>2. (Rows /\ SendingIsPermitted) /\ [Next]_vars => SendingIsPermitted'
  BY PermittedStep
<1>3. (Rows /\ Vectors) => Rows
  OBVIOUS
<1> QED
  BY <1>1, <1>2, <1>3, RowsHold, PTL DEF Spec

(***************************************************************************)
(* Runs and their jobs.                                                    *)
(***************************************************************************)
\* A run that is not there has no jobs.
Unrun == \A j \in JobId : job[j].status # "absent" => run[RunOf(j)].status # "absent"
Runs == Unrun /\ CompletedRunsAreDone

\* What a step may do to one job and its run: nothing, a job of an active run is
\* new, or a job that was queued or running goes on.
Orderly(j) ==
  /\ run[RunOf(j)].status # "absent" => run'[RunOf(j)].status # "absent"
  /\ job'[j].status # "absent" /\ job[j].status = "absent" =>
       run'[RunOf(j)].status # "absent"
  /\ run'[RunOf(j)].status = "completed" =>
       \/ job'[j].status \notin {"pending", "running"}
       \/ /\ job[j].status \in {"pending", "running"}
          /\ run[RunOf(j)].status = "completed"

LEMMA OrderlyRuns ==
  ASSUME Runs, \A j \in JobId : Orderly(j)
  PROVE  Runs'
BY DEF Runs, Unrun, CompletedRunsAreDone, Orderly

LEMMA FinishedIs ==
  ASSUME NEW runs \in [Run -> RunRow], NEW jobs, NEW r, NEW j \in JobId
  PROVE  /\ runs[RunOf(j)].status # "absent"
              => FinishedRun(runs, jobs, r)[RunOf(j)].status # "absent"
         /\ FinishedRun(runs, jobs, r)[RunOf(j)].status = "completed" =>
              \/ runs[RunOf(j)].status = "completed"
              \/ jobs[j].status \notin {"pending", "running"}
<1>1. RunOf(j) \in Run
  BY JobParts
<1> QED
  BY <1>1 DEF FinishedRun, RunRow

LEMMA OwnerOrderly ==
  ASSUME Rows, Runs, OwnerStep, NEW j \in JobId
  PROVE  Orderly(j)
<1>0. /\ job[j] \in JobRow /\ RunOf(j) \in Run /\ TypeOK /\ Lives
      /\ run \in [Run -> RunRow] /\ job \in [JobId -> JobRow]
  BY JobParts DEF Rows, TypeOK
<1>1. CASE Change
  <2>1. PICK ent \in [Entry -> EntryRow], pol \in BOOLEAN, es \in SUBSET Entry :
          /\ Invalidate(ent, pol, es)
          /\ \A r \in Run : run'[r].status = run[r].status
    BY <1>1 DEF Change
  <2> DEFINE mid == InvalidatedJobs(ent, pol)
  <2>2. mid[j] = job[j] \/ (mid[j].status \in {"blocked", "stale"} /\ job[j].status \in Live)
    <3>1. ASSUME NEW s \in {"blocked", "stale"}
          PROVE  [job[j] EXCEPT !.status = s, !.lease = 0].status = s
      BY <1>0 DEF JobRow
    <3> DEFINE s == IF Attached(ent, j) THEN "blocked" ELSE "stale"
    <3>2. \/ mid[j] = job[j]
          \/ job[j].status \in Live /\ mid[j] = [job[j] EXCEPT !.status = s, !.lease = 0]
      BY DEF InvalidatedJobs
    <3>3. s \in {"blocked", "stale"}
      OBVIOUS
    <3> HIDE DEF s, mid
    <3>4. [job[j] EXCEPT !.status = s, !.lease = 0].status = s
      BY <3>1, <3>3
    <3> QED
      BY <3>2, <3>3, <3>4
  <2>3. job' = WithCurrent(mid, run, ent, pol, es)
    BY <2>1 DEF Invalidate
  <2> HIDE DEF mid
  <2>4. \/ job'[j] = mid[j]
        \/ mid[j].status = "absent" /\ run[RunOf(j)].status = "active"
    BY <2>3 DEF WithCurrent
  <2> QED
    BY <1>0, <2>1, <2>2, <2>4 DEF Orderly, Live, Runs, Unrun, CompletedRunsAreDone
<1>2. CASE Candidate
  BY <1>2 DEF Candidate, Orderly, Runs, Unrun, CompletedRunsAreDone
<1>3. ASSUME NEW e \in Entry, NEW t \in Text, CreateEntry(e, t) PROVE Orderly(j)
  <2>1. \/ job'[j] = job[j]
        \/ job[j].status = "absent" /\ run[RunOf(j)].status = "active"
    BY <1>3 DEF CreateEntry, WithCurrent
  <2>2. UNCHANGED run
    BY <1>3 DEF CreateEntry
  <2> QED
    BY <2>1, <2>2 DEF Orderly, Runs, Unrun, CompletedRunsAreDone
<1>4. ASSUME NEW r \in Run, PauseRun(r) PROVE Orderly(j)
  BY <1>0, <1>4 DEF PauseRun, Orderly, Runs, Unrun, CompletedRunsAreDone, RunRow
<1>5. ASSUME NEW r \in Run, ResumeRun(r) PROVE Orderly(j)
  <2>1. \/ job'[j] = job[j]
        \/ job[j].status = "absent" /\ run'[RunOf(j)].status = "active"
    BY <1>0, <1>5 DEF ResumeRun, WithCurrent
  <2>2. /\ run' = [run EXCEPT ![r].status = "active"] /\ run[r].status # "absent"
    BY <1>5 DEF ResumeRun
  <2> QED
    BY <1>0, <2>1, <2>2 DEF Orderly, Runs, Unrun, CompletedRunsAreDone, RunRow
<1>6. ASSUME NEW r \in Run, NEW es \in SUBSET Entry, NEW all \in BOOLEAN,
             NEW follow \in BOOLEAN, Activate(r, es, all, follow)
      PROVE  Orderly(j)
  <2> DEFINE items == Pending(es)
             status == IF items # {} \/ follow THEN "active" ELSE "completed"
  <2>1. /\ run[r].status = "absent"
        /\ run' = [run EXCEPT ![r] = [status |-> status, follow |-> follow, all |-> all,
                                      ids |-> es]]
        /\ job'[j] = IF RunOf(j) = r /\ EntryOf(j) \in items /\ Attached(entry, j)
                     THEN [NoJob EXCEPT !.status = "pending", !.text = entry[EntryOf(j)].current]
                     ELSE job[j]
    BY <1>6 DEF Activate
  <2>2. status \in {"active", "completed"} /\ (status = "completed" => items = {})
    OBVIOUS
  <2> HIDE DEF items, status
  <2>3. CASE RunOf(j) = r
    <3>1. run'[RunOf(j)].status = status
      BY <1>0, <2>1, <2>3
    <3>2. job[j].status = "absent"
      BY <2>1, <2>3 DEF Runs, Unrun
    <3> QED
      BY <2>1, <2>2, <2>3, <3>1, <3>2 DEF Orderly
  <2>4. CASE RunOf(j) # r
    BY <1>0, <2>1, <2>4 DEF Orderly, Runs, Unrun, CompletedRunsAreDone
  <2> QED
    BY <2>3, <2>4
<1>7. ASSUME NEW k \in JobId, RetryJob(k) PROVE Orderly(j)
  <2>1. /\ run' = [run EXCEPT ![RunOf(k)].status = "active"]
        /\ job' = [job EXCEPT ![k] = [NoJob EXCEPT !.status = "pending", !.text = job[k].text]]
    BY <1>7 DEF RetryJob
  <2>2. run'[RunOf(j)].status = IF RunOf(j) = RunOf(k) THEN "active" ELSE run[RunOf(j)].status
    BY <1>0, <2>1 DEF RunRow
  <2>3. j # k => job'[j] = job[j]
    BY <1>0, <2>1
  <2> QED
    BY <2>2, <2>3 DEF Orderly, Runs, Unrun, CompletedRunsAreDone
<1>8. ASSUME NEW d \in Dispatch, NEW as \in {"spent", "released"}, Reconcile(d, as)
      PROVE  Orderly(j)
  BY <1>8 DEF Reconcile, Orderly, Runs, Unrun, CompletedRunsAreDone
<1> QED
  BY <1>0, <1>1, <1>2, <1>3, <1>4, <1>5, <1>6, <1>7, <1>8, OwnerCases

LEMMA WorkerOrderly ==
  ASSUME Rows, Runs, NEW w \in Worker, WorkerStep(w) \/ Recover(w) \/ Crash(w) \/ Tick,
         NEW j \in JobId
  PROVE  Orderly(j)
<1>0. /\ job[j] \in JobRow /\ RunOf(j) \in Run /\ TypeOK
      /\ run \in [Run -> RunRow] /\ job \in [JobId -> JobRow]
  BY JobParts DEF Rows, TypeOK
<1>1. CASE UNCHANGED <<run, job>>
  BY <1>1 DEF Orderly, Runs, Unrun, CompletedRunsAreDone
<1>2. CASE Recover(w)
  <2>1. \/ job'[j] = job[j]
        \/ job[j].status = "running"
    BY <1>0, <1>2 DEF Recover, Expired
  <2>2. UNCHANGED run
    BY <1>2 DEF Recover
  <2> QED
    BY <2>1, <2>2 DEF Orderly, Runs, Unrun, CompletedRunsAreDone
<1>3. CASE Tick
  <2>1. job'[j].status = job[j].status /\ UNCHANGED run
    BY <1>0, <1>3 DEF Tick, JobRow
  <2> QED
    BY <2>1 DEF Orderly, Runs, Unrun, CompletedRunsAreDone
<1>4. ASSUME NEW r \in Run, NEW d \in Dispatch \cup {None}, NEW js \in SUBSET Queued(r),
             ClaimBatch(w, r, js, d)
      PROVE  Orderly(j)
  <2>1. \/ job'[j] = job[j]
        \/ job[j].status = "pending"
    BY <1>0, <1>4 DEF ClaimBatch, Queued
  <2>2. UNCHANGED run \/ run' = FinishedRun(run, job', r)
    BY <1>4 DEF ClaimBatch
  <2>3. CASE UNCHANGED run
    BY <2>1, <2>3 DEF Orderly, Runs, Unrun, CompletedRunsAreDone
  <2>4. CASE run' = FinishedRun(run, job', r)
    BY <1>0, <2>1, <2>4, FinishedIs DEF Orderly, Runs, Unrun, CompletedRunsAreDone
  <2> QED
    BY <2>2, <2>3, <2>4
<1>5. CASE Publish(w)
  <2>1. CASE Owned(w) = wk[w].jobs /\ InputsHold(w)
    <3>1. job'[j] = job[j] \/ job[j].status = "running"
      BY <1>0, <1>5, <2>1 DEF Publish, Owned
    <3>2. run' = FinishedRun(run, job', wk[w].run)
      BY <1>5, <2>1 DEF Publish
    <3> QED
      BY <1>0, <3>1, <3>2, FinishedIs DEF Orderly, Runs, Unrun, CompletedRunsAreDone
  <2>2. CASE ~(Owned(w) = wk[w].jobs /\ InputsHold(w))
    BY <1>1, <1>5, <2>2 DEF Publish
  <2> QED
    BY <2>1, <2>2
<1>6. CASE RecordFailure(w)
  <2> DEFINE runs == IF wk[w].code = "pause"
                     THEN [run EXCEPT ![wk[w].run].status = "paused"] ELSE run
  <2>1. job'[j] = job[j] \/ job[j].status = "running"
    BY <1>0, <1>6 DEF RecordFailure, Owned
  <2>2. run' = FinishedRun(runs, job', wk[w].run)
    BY <1>6 DEF RecordFailure
  <2>3. /\ runs \in [Run -> RunRow]
        /\ runs[RunOf(j)].status \in {run[RunOf(j)].status, "paused"}
    BY <1>0 DEF RunRow
  <2> HIDE DEF runs
  <2>4. /\ runs[RunOf(j)].status # "absent" => run'[RunOf(j)].status # "absent"
        /\ run'[RunOf(j)].status = "completed" =>
             \/ runs[RunOf(j)].status = "completed"
             \/ job'[j].status \notin {"pending", "running"}
    BY <2>2, <2>3, FinishedIs
  <2> QED
    BY <2>1, <2>3, <2>4 DEF Orderly, Runs, Unrun, CompletedRunsAreDone
<1>7. CASE \/ Reserve(w) \/ CheckDispatch(w) \/ AbandonSend(w) \/ Send(w) \/ Settle(w)
           \/ Crash(w) \/ \E ok \in BOOLEAN : Answer(w, ok)
           \/ \E code \in {"pause", "busy", "error"} : RefuseReservation(w, code)
  BY <1>1, <1>7 DEF Reserve, CheckDispatch, AbandonSend, Send, Settle, Crash, Answer,
     RefuseReservation
<1> QED
  BY <1>2, <1>3, <1>4, <1>5, <1>6, <1>7 DEF WorkerStep

LEMMA RunsHold == Spec => []Runs
<1>1. Init => Runs
  BY DEF Init, Runs, Unrun, CompletedRunsAreDone, NoJob
<1>2. Rows /\ Runs /\ [Next]_vars => Runs'
  <2> SUFFICES ASSUME Rows, Runs, [Next]_vars PROVE Runs'
    OBVIOUS
  <2>1. CASE OwnerStep
    BY <2>1, OwnerOrderly, OrderlyRuns
  <2>2. ASSUME NEW w \in Worker, WorkerStep(w) \/ Recover(w) \/ Crash(w) PROVE Runs'
    BY <2>2, WorkerOrderly, OrderlyRuns
  <2>3. CASE Tick
    <3>1. \A j \in JobId : job'[j].status = job[j].status
      BY <2>3 DEF Tick, Rows, TypeOK, JobRow
    <3> QED
      BY <2>3, <3>1 DEF Tick, Runs, Unrun, CompletedRunsAreDone
  <2>4. CASE UNCHANGED vars
    BY <2>4 DEF vars, Runs, Unrun, CompletedRunsAreDone
  <2> QED
    BY <2>1, <2>2, <2>3, <2>4 DEF Next
<1>3. (Rows /\ Vectors) => Rows
  OBVIOUS
<1> QED
  BY <1>1, <1>2, <1>3, RowsHold, PTL DEF Spec

\* finish_run closes a run only when nothing of it is queued or at a worker, and no
\* later step queues work in a closed run.
THEOREM CompletedRunsDone == Spec => []CompletedRunsAreDone
<1>1. Runs => CompletedRunsAreDone
  BY DEF Runs
<1> QED
  BY <1>1, RunsHold, PTL

(***************************************************************************)
(* Jobs that rest.                                                         *)
(***************************************************************************)
LEMMA RestingStep ==
  ASSUME Rows, Runs, [Next]_vars, NEW j \in JobId, job[j].status \in Resting,
         job'[j].status # job[j].status
  PROVE  job'[j].status = "pending" /\ RetryJob(j)
<1>0. /\ job \in [JobId -> JobRow] /\ job[j].status \notin Live \cup {"absent"}
      /\ TypeOK /\ Lives
  BY DEF Rows, TypeOK, Resting, Live
<1>1. CASE OwnerStep
  <2>1. CASE Change
    <3>1. PICK ent \in [Entry -> EntryRow], pol \in BOOLEAN, es \in SUBSET Entry :
            Invalidate(ent, pol, es)
      BY <2>1 DEF Change
    <3>2. InvalidatedJobs(ent, pol)[j] = job[j]
      BY <1>0 DEF InvalidatedJobs
    <3> DEFINE mid == InvalidatedJobs(ent, pol)
    <3>3. job' = WithCurrent(mid, run, ent, pol, es)
      BY <3>1 DEF Invalidate
    <3> HIDE DEF mid
    <3>4. mid[j].status # "absent" => job'[j] = mid[j]
      BY <3>3 DEF WithCurrent
    <3> QED
      BY <1>0, <3>2, <3>4 DEF mid
  <2>2. CASE Candidate
    BY <2>2 DEF Candidate
  <2>3. ASSUME NEW e \in Entry, NEW t \in Text, CreateEntry(e, t) PROVE FALSE
    BY <1>0, <2>3 DEF CreateEntry, WithCurrent
  <2>4. ASSUME NEW r \in Run, PauseRun(r) \/ ResumeRun(r) PROVE FALSE
    <3>1. CASE PauseRun(r)
      BY <3>1 DEF PauseRun
    <3>2. CASE ResumeRun(r)
      BY <1>0, <3>2, WithCurrentRows DEF ResumeRun
    <3> QED
      BY <2>4, <3>1, <3>2
  <2>5. ASSUME NEW r \in Run, NEW es \in SUBSET Entry, NEW all \in BOOLEAN,
               NEW follow \in BOOLEAN, Activate(r, es, all, follow)
        PROVE  FALSE
    <3>1. run[r].status = "absent" /\ (RunOf(j) = r => job[j].status = "absent")
      BY <2>5 DEF Activate, Runs, Unrun
    <3> QED
      BY <1>0, <2>5, <3>1 DEF Activate
  <2>6. ASSUME NEW k \in JobId, RetryJob(k)
        PROVE  k = j /\ job'[j].status = "pending"
    <3>1. job' = [job EXCEPT ![k] = [NoJob EXCEPT !.status = "pending", !.text = job[k].text]]
      BY <2>6 DEF RetryJob
    <3> QED
      BY <1>0, <3>1 DEF NoJob
  <2>7. ASSUME NEW d \in Dispatch, NEW as \in {"spent", "released"}, Reconcile(d, as)
        PROVE  FALSE
    BY <2>7 DEF Reconcile
  <2> QED
    BY <1>0, <1>1, <2>1, <2>2, <2>3, <2>4, <2>5, <2>6, <2>7, OwnerCases
<1>2. ASSUME NEW w \in Worker, WorkerStep(w) \/ Recover(w) \/ Crash(w) PROVE FALSE
  BY ZenonT(60), <1>0, <1>2 DEF WorkerStep, ClaimBatch, Queued, Reserve, CheckDispatch, AbandonSend,
     Send, RefuseReservation, Answer, Settle, Publish, RecordFailure, Recover, Crash,
     Owned, Expired, Live
<1>3. CASE Tick
  BY <1>0, <1>3 DEF Tick, JobRow
<1>4. CASE UNCHANGED vars
  BY <1>4 DEF vars
<1> QED
  BY <1>1, <1>2, <1>3, <1>4 DEF Next

\* Only the owner's retry puts a resting job back into the queue.
THEOREM RestingWaits == Spec => RestingJobsWaitForOwner
<1>1. Rows /\ Runs /\ [Next]_vars =>
        [\A j \in JobId : job[j].status \in Resting /\ job'[j].status # job[j].status =>
           job'[j].status = "pending" /\ RetryJob(j)]_vars
  BY RestingStep
<1>2. (Rows /\ Vectors) => Rows
  OBVIOUS
<1> QED
  BY <1>1, <1>2, RowsHold, RunsHold, PTL DEF Spec, RestingJobsWaitForOwner

(***************************************************************************)
(* Dispatches.                                                             *)
(***************************************************************************)
\* A dispatch is one worker's, its attempt is opened before the call and by nobody
\* else, and a job is queued again only when its attempt is known to be free.
Dispatches ==
  /\ \A v, w \in Worker : wk[v].dispatch = wk[w].dispatch /\ wk[v].dispatch # None => v = w
  /\ \A w \in Worker : wk[w].pc = "claimed" => attempt[wk[w].dispatch] = "none"
  /\ \A w \in Worker : wk[w].pc = "failing" /\ wk[w].code \in {"pause", "busy"} =>
       attempt[wk[w].dispatch] \in {"none", "released"}
  /\ \A j \in JobId : job[j].status = "pending" /\ job[j].dispatch # None =>
       /\ attempt[job[j].dispatch] \in {"none", "released"}
       /\ \A w \in Worker : wk[w].dispatch # job[j].dispatch

\* What was counted belongs to an attempt that is open or spent.
Counts ==
  /\ \A j \in JobId : calls[j] # 0 =>
       /\ calls[j] = 1
       /\ job[j].dispatch \in Dispatch
       /\ attempt[job[j].dispatch] \in {"open", "spent"}
  /\ \A w \in Worker : wk[w].pc \in {"claimed", "marked", "checked"} =>
       \A j \in JobId : job[j].dispatch = wk[w].dispatch => calls[j] = 0

Fresh == \A j \in JobId : job[j].status = "absent" => job[j].dispatch = None

Charges == Dispatches /\ Counts /\ Fresh

LEMMA UncountedJob ==
  ASSUME Charges, NEW j \in JobId,
         \/ job[j].dispatch = None
         \/ attempt[job[j].dispatch] \notin {"open", "spent"}
  PROVE  calls[j] = 0
BY NoneAssumption DEF Charges, Counts

\* Steps that leave the attempts and the workers' dispatches alone.
LEMMA FrameCharges ==
  ASSUME Rows, Charges, UNCHANGED <<attempt, calls>>,
         \A w \in Worker : wk'[w].pc = wk[w].pc /\ wk'[w].dispatch = wk[w].dispatch
                           /\ wk'[w].code = wk[w].code,
         \A j \in JobId :
           \/ /\ job'[j].dispatch = job[j].dispatch
              /\ job'[j].status = "pending" => job[j].status = "pending"
              /\ job'[j].status = "absent" => job[j].status = "absent"
           \/ job'[j].dispatch = None /\ calls[j] = 0
  PROVE  Charges'
<1>1. Dispatches'
  BY DEF Charges, Dispatches
<1>2. Counts'
  <2>1. ASSUME NEW j \in JobId, calls[j] # 0
        PROVE  /\ calls[j] = 1 /\ job'[j].dispatch \in Dispatch
               /\ attempt[job'[j].dispatch] \in {"open", "spent"}
    BY <2>1 DEF Charges, Counts
  <2>2. ASSUME NEW w \in Worker, wk[w].pc \in {"claimed", "marked", "checked"},
               NEW j \in JobId, job'[j].dispatch = wk[w].dispatch
        PROVE  calls[j] = 0
    <3>1. wk[w].dispatch \in Dispatch
      BY <2>2 DEF Rows, Batches
    <3> QED
      BY <2>2, <3>1, NoneAssumption DEF Charges, Counts
  <2> QED
    BY <2>1, <2>2 DEF Counts
<1>3. Fresh'
  BY DEF Charges, Fresh
<1> QED
  BY <1>1, <1>2, <1>3 DEF Charges

LEMMA OwnerCharges ==
  ASSUME Rows, Runs, Charges, OwnerStep
  PROVE  Charges'
<1>0. /\ job \in [JobId -> JobRow] /\ wk \in [Worker -> WorkerRow] /\ TypeOK /\ Lives
      /\ calls \in [JobId -> Nat]
  BY DEF Rows, TypeOK
<1>1. CASE Change
  <2>1. PICK ent \in [Entry -> EntryRow], pol \in BOOLEAN, es \in SUBSET Entry :
          Invalidate(ent, pol, es)
    BY <1>1 DEF Change
  <2> DEFINE mid == InvalidatedJobs(ent, pol)
  <2>2. ASSUME NEW j \in JobId
        PROVE  \/ mid[j] = job[j]
               \/ /\ job[j].status # "absent" /\ mid[j].dispatch = job[j].dispatch
                  /\ mid[j].status \notin {"pending", "absent"}
    <3>1. \A s \in {"blocked", "stale"} :
            /\ [job[j] EXCEPT !.status = s, !.lease = 0].status = s
            /\ [job[j] EXCEPT !.status = s, !.lease = 0].dispatch = job[j].dispatch
      BY <1>0 DEF JobRow
    <3> DEFINE s == IF Attached(ent, j) THEN "blocked" ELSE "stale"
    <3>2. \/ mid[j] = job[j]
          \/ job[j].status \in Live /\ mid[j] = [job[j] EXCEPT !.status = s, !.lease = 0]
      BY DEF InvalidatedJobs
    <3>3. s \in {"blocked", "stale"}
      OBVIOUS
    <3> HIDE DEF s, mid
    <3> QED
      BY <3>1, <3>2, <3>3 DEF Live
  <2>3. job' = WithCurrent(mid, run, ent, pol, es)
    BY <2>1 DEF Invalidate
  <2> HIDE DEF mid
  <2>4. \A j \in JobId : job'[j] = mid[j]
          \/ (mid[j].status = "absent" /\ job'[j].dispatch = None)
    BY <2>3 DEF WithCurrent, NoJob
  <2>5. \A j \in JobId : job[j].status = "absent" => calls[j] = 0
    BY UncountedJob DEF Charges, Fresh
  <2>6. /\ UNCHANGED <<attempt, calls>>
        /\ \A w \in Worker : wk'[w].pc = wk[w].pc /\ wk'[w].dispatch = wk[w].dispatch
                             /\ wk'[w].code = wk[w].code
    BY <1>0, <2>1 DEF Invalidate, WorkerRow
  <2>7. \A j \in JobId :
           \/ /\ job'[j].dispatch = job[j].dispatch
              /\ job'[j].status = "pending" => job[j].status = "pending"
              /\ job'[j].status = "absent" => job[j].status = "absent"
           \/ job'[j].dispatch = None /\ calls[j] = 0
    BY <2>2, <2>4, <2>5
  <2> QED
    BY <2>6, <2>7, FrameCharges
<1>2. CASE \/ Candidate
           \/ \E e \in Entry, t \in Text : CreateEntry(e, t)
           \/ \E r \in Run : PauseRun(r) \/ ResumeRun(r)
           \/ \E r \in Run, es \in SUBSET Entry, all, follow \in BOOLEAN :
                Activate(r, es, all, follow)
  <2>1. UNCHANGED <<attempt, calls, wk>>
    BY <1>2 DEF Candidate, CreateEntry, PauseRun, ResumeRun, Activate
  <2>2. \A j \in JobId :
          job'[j] = job[j] \/ (job[j].status = "absent" /\ job'[j].dispatch = None)
    <3>1. CASE Candidate \/ \E r \in Run : PauseRun(r)
      BY <3>1 DEF Candidate, PauseRun
    <3>2. ASSUME NEW e \in Entry, NEW t \in Text, CreateEntry(e, t)
          PROVE  \A j \in JobId :
                   job'[j] = job[j] \/ (job[j].status = "absent" /\ job'[j].dispatch = None)
      BY <3>2 DEF CreateEntry, WithCurrent, NoJob
    <3>3. ASSUME NEW r \in Run, ResumeRun(r)
          PROVE  \A j \in JobId :
                   job'[j] = job[j] \/ (job[j].status = "absent" /\ job'[j].dispatch = None)
      BY <3>3 DEF ResumeRun, WithCurrent, NoJob
    <3>4. ASSUME NEW r \in Run, NEW es \in SUBSET Entry, NEW all \in BOOLEAN,
                 NEW follow \in BOOLEAN, Activate(r, es, all, follow)
          PROVE  \A j \in JobId :
                   job'[j] = job[j] \/ (job[j].status = "absent" /\ job'[j].dispatch = None)
      <4>1. run[r].status = "absent"
        BY <3>4 DEF Activate
      <4>2. \A j \in JobId : RunOf(j) = r => job[j].status = "absent"
        BY <4>1 DEF Runs, Unrun
      <4> QED
        BY <3>4, <4>2 DEF Activate, NoJob
    <3> QED
      BY <1>2, <3>1, <3>2, <3>3, <3>4
  <2>3. \A j \in JobId : job[j].status = "absent" => calls[j] = 0
    BY UncountedJob DEF Charges, Fresh
  <2> QED
    BY <2>1, <2>2, <2>3, FrameCharges
<1>3. ASSUME NEW k \in JobId, RetryJob(k) PROVE Charges'
  <2>1. /\ job' = [job EXCEPT ![k] = [NoJob EXCEPT !.status = "pending", !.text = job[k].text]]
        /\ calls' = [calls EXCEPT ![k] = 0]
        /\ UNCHANGED <<attempt, wk>>
    BY <1>3 DEF RetryJob
  <2>2. /\ job'[k].dispatch = None /\ job'[k].status = "pending" /\ calls'[k] = 0
        /\ \A j \in JobId \ {k} : job'[j] = job[j] /\ calls'[j] = calls[j]
    BY <1>0, <2>1 DEF NoJob
  <2>3. Dispatches'
    BY <2>1, <2>2 DEF Charges, Dispatches
  <2>4. Counts' /\ Fresh'
    BY <2>1, <2>2 DEF Charges, Counts, Fresh
  <2> QED
    BY <2>3, <2>4 DEF Charges
<1>4. ASSUME NEW d \in Dispatch, NEW as \in {"spent", "released"}, Reconcile(d, as)
      PROVE  Charges'
  <2>1. /\ attempt[d] = "open" /\ UNCHANGED <<job, wk>>
        /\ \A x \in Dispatch : attempt'[x] = IF x = d THEN as ELSE attempt[x]
    BY <1>0, <1>4 DEF Reconcile, TypeOK
  <2>2. \A j \in JobId : \/ calls'[j] = calls[j] /\ (job[j].dispatch = d => as = "spent")
                         \/ calls'[j] = 0
                         \/ calls'[j] = calls[j] /\ job[j].dispatch # d
    BY <1>0, <1>4 DEF Reconcile
  <2>3. \A w \in Worker : wk[w].pc # "idle" => wk[w].dispatch \in Dispatch
    BY DEF Rows, Batches
  <2>4. Dispatches'
    <3>1. \A w \in Worker : wk[w].pc = "claimed" => attempt'[wk[w].dispatch] = "none"
      BY <2>1, <2>3 DEF Charges, Dispatches
    <3>2. \A w \in Worker : wk[w].pc = "failing" /\ wk[w].code \in {"pause", "busy"} =>
            attempt'[wk[w].dispatch] \in {"none", "released"}
      BY <2>1, <2>3 DEF Charges, Dispatches
    <3>3. ASSUME NEW j \in JobId, job[j].status = "pending", job[j].dispatch # None
          PROVE  /\ attempt'[job[j].dispatch] \in {"none", "released"}
                 /\ \A w \in Worker : wk[w].dispatch # job[j].dispatch
      <4>1. job[j].dispatch \in Dispatch
        BY <1>0, <3>3 DEF JobRow
      <4> QED
        BY <2>1, <3>3, <4>1 DEF Charges, Dispatches
    <3> QED
      BY <2>1, <3>1, <3>2, <3>3 DEF Charges, Dispatches
  <2>5. Counts' /\ Fresh'
    BY <2>1, <2>2 DEF Charges, Counts, Fresh
  <2> QED
    BY <2>4, <2>5 DEF Charges
<1> QED
  BY <1>0, <1>1, <1>2, <1>3, <1>4, OwnerCases

\* A worker goes on with its dispatch, and perhaps with another attempt status.
LEMMA WorkerFrame ==
  ASSUME Rows, Charges, NEW w \in Worker, wk[w].pc # "idle", UNCHANGED <<job, calls>>,
         \A v \in Worker \ {w} : wk'[v] = wk[v],
         wk'[w].dispatch = wk[w].dispatch,
         wk'[w].pc # "claimed",
         wk'[w].pc \in {"marked", "checked"} => wk[w].pc \in {"claimed", "marked", "checked"},
         wk'[w].pc = "failing" /\ wk'[w].code \in {"pause", "busy"} =>
           attempt'[wk[w].dispatch] \in {"none", "released"},
         \A d \in Dispatch \ {wk[w].dispatch} : attempt'[d] = attempt[d],
         \A j \in JobId : job[j].dispatch = wk[w].dispatch /\ calls[j] # 0 =>
           attempt'[wk[w].dispatch] \in {"open", "spent"}
  PROVE  Charges'
<1>0. /\ job \in [JobId -> JobRow] /\ wk[w].dispatch \in Dispatch
      /\ wk[w].dispatch # None
      /\ \A v \in Worker : wk[v].pc # "idle" => wk[v].dispatch \in Dispatch
  BY NoneAssumption DEF Rows, TypeOK, Batches
<1>1. Dispatches'
  <2>1. \A u, v \in Worker : wk'[u].dispatch = wk'[v].dispatch /\ wk'[u].dispatch # None => u = v
    BY DEF Charges, Dispatches
  <2>2. \A v \in Worker \ {w} : wk[v].dispatch # wk[w].dispatch
    BY <1>0 DEF Charges, Dispatches
  <2>3. \A v \in Worker : wk'[v].pc = "claimed" => attempt'[wk'[v].dispatch] = "none"
    BY <1>0, <2>2 DEF Charges, Dispatches
  <2>4. \A v \in Worker : wk'[v].pc = "failing" /\ wk'[v].code \in {"pause", "busy"} =>
          attempt'[wk'[v].dispatch] \in {"none", "released"}
    BY <1>0, <2>2 DEF Charges, Dispatches
  <2>5. ASSUME NEW j \in JobId, job[j].status = "pending", job[j].dispatch # None
        PROVE  /\ attempt'[job[j].dispatch] \in {"none", "released"}
               /\ \A v \in Worker : wk'[v].dispatch # job[j].dispatch
    <3>1. /\ job[j].dispatch \in Dispatch
          /\ attempt[job[j].dispatch] \in {"none", "released"}
          /\ \A v \in Worker : wk[v].dispatch # job[j].dispatch
      BY <1>0, <2>5 DEF Charges, Dispatches, JobRow
    <3> QED
      BY <3>1
  <2> QED
    BY <2>1, <2>3, <2>4, <2>5 DEF Dispatches
<1>2. Counts'
  <2>1. ASSUME NEW j \in JobId, calls[j] # 0
        PROVE  /\ calls[j] = 1 /\ job[j].dispatch \in Dispatch
               /\ attempt'[job[j].dispatch] \in {"open", "spent"}
    BY <2>1 DEF Charges, Counts
  <2>2. ASSUME NEW v \in Worker, wk'[v].pc \in {"claimed", "marked", "checked"},
               NEW j \in JobId, job[j].dispatch = wk'[v].dispatch
        PROVE  calls[j] = 0
    BY <2>2 DEF Charges, Counts
  <2> QED
    BY <2>1, <2>2 DEF Counts
<1>3. Fresh'
  BY DEF Charges, Fresh
<1> QED
  BY <1>1, <1>2, <1>3 DEF Charges

\* The batch is handed back.
LEMMA IdleCharges ==
  ASSUME Rows, Charges, NEW w \in Worker, wk' = [wk EXCEPT ![w] = Idle],
         UNCHANGED <<attempt, calls>>,
         \A j \in JobId :
           /\ job'[j].dispatch = job[j].dispatch
           /\ job'[j].status = "absent" => job[j].status = "absent"
           /\ job'[j].status = "pending" /\ job[j].status # "pending" =>
                /\ wk[w].pc # "idle" /\ job[j].dispatch = wk[w].dispatch
                /\ attempt[wk[w].dispatch] \in {"none", "released"}
  PROVE  Charges'
<1>0. /\ \A v \in Worker \ {w} : wk'[v] = wk[v]
      /\ wk'[w].pc = "idle" /\ wk'[w].dispatch = None
  BY DEF Rows, TypeOK, Idle
<1>1. Dispatches'
  <2>1. ASSUME NEW j \in JobId, job'[j].status = "pending", job[j].dispatch # None
        PROVE  /\ attempt[job[j].dispatch] \in {"none", "released"}
               /\ \A v \in Worker : wk'[v].dispatch # job[j].dispatch
    <3>1. CASE job[j].status = "pending"
      BY <1>0, <2>1, <3>1 DEF Charges, Dispatches
    <3>2. CASE job[j].status # "pending"
      <4>1. /\ wk[w].dispatch = job[j].dispatch
            /\ attempt[wk[w].dispatch] \in {"none", "released"}
        BY <2>1, <3>2
      <4> QED
        BY <1>0, <2>1, <4>1 DEF Charges, Dispatches
    <3> QED
      BY <3>1, <3>2
  <2> QED
    BY <1>0, <2>1 DEF Charges, Dispatches
<1>2. Counts'
  BY <1>0 DEF Charges, Counts
<1>3. Fresh'
  BY DEF Charges, Fresh
<1> QED
  BY <1>1, <1>2, <1>3 DEF Charges

LEMMA ClaimCharges ==
  ASSUME Rows, Charges, NEW w \in Worker, NEW r \in Run, NEW d \in Dispatch \cup {None},
         NEW js \in SUBSET Queued(r), ClaimBatch(w, r, js, d)
  PROVE  Charges'
<1> DEFINE chosen == {j \in js : Verdict(j) = "running"}
<1>0. /\ job \in [JobId -> JobRow] /\ wk \in [Worker -> WorkerRow] /\ js \subseteq JobId
      /\ \A j \in js : job[j].status = "pending"
  BY DEF Rows, TypeOK, Queued
<1>1. /\ job' = [j \in JobId |->
                   IF j \in chosen
                   THEN [job[j] EXCEPT !.status = "running", !.dispatch = d, !.lease = LeaseTTL]
                   ELSE IF j \in js THEN [job[j] EXCEPT !.status = Verdict(j)] ELSE job[j]]
      /\ UNCHANGED <<attempt, calls>>
  BY DEF ClaimBatch
<1>2. \A j \in js : Verdict(j) \in {"stale", "blocked", "ready", "running"}
  BY <1>0, Verdicts
<1> HIDE DEF chosen
<1>3. \A j \in JobId \ chosen :
        /\ job'[j].dispatch = job[j].dispatch
        /\ job'[j].status = "pending" => job[j].status = "pending"
        /\ job'[j].status = "absent" => job[j].status = "absent"
  BY <1>0, <1>1, <1>2 DEF JobRow
<1>4. CASE chosen = {}
  <2>1. UNCHANGED wk
    BY <1>4 DEF ClaimBatch, chosen
  <2> QED
    BY <1>1, <1>3, <1>4, <2>1, FrameCharges
<1>5. CASE chosen # {}
  <2>1. /\ d \in Dispatch /\ attempt[d] = "none"
        /\ \A j \in JobId : job[j].dispatch # d
        /\ \A v \in Worker : wk[v].dispatch # d
        /\ wk' = [wk EXCEPT ![w] = [pc |-> "claimed", run |-> r, jobs |-> chosen,
                                    dispatch |-> d, fresh |-> TRUE, code |-> "none"]]
    BY <1>5 DEF ClaimBatch, chosen
  <2>2. /\ \A v \in Worker \ {w} : wk'[v] = wk[v]
        /\ wk'[w].pc = "claimed" /\ wk'[w].dispatch = d
    BY <1>0, <2>1
  <2>3. \A j \in chosen : job'[j].dispatch = d /\ job'[j].status = "running" /\ calls[j] = 0
    <3>1. ASSUME NEW j \in chosen PROVE job'[j].dispatch = d /\ job'[j].status = "running"
      <4>1. j \in js /\ j \in JobId
        BY <1>0 DEF chosen
      <4> QED
        BY <1>0, <1>1, <4>1 DEF JobRow
    <3>2. ASSUME NEW j \in chosen PROVE calls[j] = 0
      <4>1. job[j].status = "pending" /\ j \in JobId
        BY <1>0 DEF chosen
      <4> QED
        BY <4>1, UncountedJob DEF Charges, Dispatches
    <3> QED
      BY <3>1, <3>2
  <2>4. Dispatches'
    <3>1. \A u, v \in Worker : wk'[u].dispatch = wk'[v].dispatch /\ wk'[u].dispatch # None => u = v
      BY <2>1, <2>2 DEF Charges, Dispatches
    <3>2. ASSUME NEW j \in JobId, job'[j].status = "pending", job'[j].dispatch # None
          PROVE  /\ attempt[job'[j].dispatch] \in {"none", "released"}
                 /\ \A v \in Worker : wk'[v].dispatch # job'[j].dispatch
      <4>1. j \notin chosen
        BY <2>3, <3>2
      <4> QED
        BY <1>3, <2>1, <2>2, <3>2, <4>1 DEF Charges, Dispatches
    <3>3. ASSUME NEW v \in Worker, wk'[v].pc = "claimed"
          PROVE  attempt'[wk'[v].dispatch] = "none"
      <4>1. CASE v = w
        BY <1>1, <2>1, <2>2, <4>1
      <4>2. CASE v # w
        <5>1. wk'[v] = wk[v] /\ attempt' = attempt
          BY <1>1, <2>2, <4>2
        <5>2. attempt[wk[v].dispatch] = "none"
          BY <3>3, <5>1 DEF Charges, Dispatches
        <5> QED
          BY <5>1, <5>2
      <4> QED
        BY <4>1, <4>2
    <3>4. ASSUME NEW v \in Worker, wk'[v].pc = "failing", wk'[v].code \in {"pause", "busy"}
          PROVE  attempt'[wk'[v].dispatch] \in {"none", "released"}
      <4>1. v # w /\ wk'[v] = wk[v]
        BY <2>2, <3>4
      <4> QED
        BY <1>1, <3>4, <4>1 DEF Charges, Dispatches
    <3>5. attempt' = attempt
      BY <1>1
    <3> QED
      BY <3>1, <3>2, <3>3, <3>4, <3>5 DEF Dispatches
  <2>5. Counts'
    <3>1. ASSUME NEW j \in JobId, calls[j] # 0
          PROVE  /\ calls[j] = 1 /\ job'[j].dispatch \in Dispatch
                 /\ attempt[job'[j].dispatch] \in {"open", "spent"}
      <4>1. j \notin chosen
        BY <2>3, <3>1
      <4> QED
        BY <1>3, <3>1, <4>1 DEF Charges, Counts
    <3>2. ASSUME NEW v \in Worker, wk'[v].pc \in {"claimed", "marked", "checked"},
                 NEW j \in JobId, job'[j].dispatch = wk'[v].dispatch
          PROVE  calls[j] = 0
      <4>1. CASE j \in chosen
        BY <2>3, <4>1
      <4>2. CASE j \notin chosen
        BY <1>3, <2>1, <2>2, <3>2, <4>2 DEF Charges, Counts
      <4> QED
        BY <4>1, <4>2
    <3> QED
      BY <1>1, <3>1, <3>2 DEF Counts
  <2>6. Fresh'
    BY <1>3, <2>3 DEF Charges, Fresh
  <2> QED
    BY <2>4, <2>5, <2>6 DEF Charges
<1> QED
  BY <1>4, <1>5

LEMMA WorkerCharges ==
  ASSUME Rows, Charges, NEW w \in Worker, WorkerStep(w)
  PROVE  Charges'
<1>0. /\ job \in [JobId -> JobRow] /\ wk \in [Worker -> WorkerRow]
      /\ calls \in [JobId -> Nat]
      /\ attempt \in [Dispatch -> {"none", "open", "spent", "released"}]
      /\ wk[w].pc # "idle" => wk[w].dispatch \in Dispatch
  BY DEF Rows, TypeOK, Batches
<1>1. ASSUME NEW r \in Run, NEW d \in Dispatch \cup {None}, NEW js \in SUBSET Queued(r),
             ClaimBatch(w, r, js, d)
      PROVE  Charges'
  BY <1>1, ClaimCharges
<1>2. ASSUME wk[w].pc \in {"claimed", "marked", "checked"}
      PROVE  \A j \in JobId : job[j].dispatch = wk[w].dispatch => calls[j] = 0
  BY <1>2 DEF Charges, Counts
<1>3. ASSUME wk[w].pc \in {"marked", "checked"}, UNCHANGED <<job, calls>>,
             NEW code \in {"pause", "context", "error"}, Withdraw(w, code)
      PROVE  Charges'
  <2>1. /\ \A v \in Worker \ {w} : wk'[v] = wk[v]
        /\ wk'[w].pc = "failing" /\ wk'[w].dispatch = wk[w].dispatch
        /\ \/ /\ wk'[w].code = "error" /\ UNCHANGED attempt
           \/ attempt' = [attempt EXCEPT ![wk[w].dispatch] = "released"]
    BY <1>0, <1>3 DEF Withdraw, Fail, WorkerRow
  <2> QED
    BY <1>0, <1>2, <1>3, <2>1, WorkerFrame
<1>4. CASE Reserve(w)
  <2>1. /\ \A v \in Worker \ {w} : wk'[v] = wk[v]
        /\ wk'[w].pc = "marked" /\ wk'[w].dispatch = wk[w].dispatch
        /\ attempt' = [attempt EXCEPT ![wk[w].dispatch] = "open"]
        /\ wk[w].pc = "claimed" /\ UNCHANGED <<job, calls>>
    BY <1>0, <1>4 DEF Reserve, To, WorkerRow
  <2> QED
    BY <1>0, <1>2, <2>1, WorkerFrame
<1>5. ASSUME NEW code \in {"pause", "busy", "error"}, RefuseReservation(w, code)
      PROVE  Charges'
  <2>1. /\ \A v \in Worker \ {w} : wk'[v] = wk[v]
        /\ wk'[w].pc = "failing" /\ wk'[w].dispatch = wk[w].dispatch
        /\ wk[w].pc = "claimed" /\ UNCHANGED <<job, calls, attempt>>
    BY <1>0, <1>5 DEF RefuseReservation, Fail, WorkerRow
  <2>2. attempt[wk[w].dispatch] = "none"
    BY <2>1 DEF Charges, Dispatches
  <2> QED
    BY <1>0, <1>2, <2>1, <2>2, WorkerFrame
<1>6. CASE CheckDispatch(w)
  <2>1. CASE wk' = [wk EXCEPT ![w].pc = "checked"] /\ UNCHANGED attempt
    <3>1. /\ \A v \in Worker \ {w} : wk'[v] = wk[v]
          /\ wk'[w].pc = "checked" /\ wk'[w].dispatch = wk[w].dispatch
          /\ wk[w].pc = "marked" /\ UNCHANGED <<job, calls, attempt>>
      BY <1>0, <1>6, <2>1 DEF CheckDispatch, WorkerRow
    <3> QED
      BY <1>0, <1>2, <3>1, WorkerFrame
  <2>2. CASE Withdraw(w, "pause") \/ Withdraw(w, "context")
    BY <1>3, <1>6, <2>2 DEF CheckDispatch
  <2> QED
    BY <1>6, <2>1, <2>2 DEF CheckDispatch, To
<1>7. CASE AbandonSend(w)
  BY <1>3, <1>7 DEF AbandonSend
<1>8. CASE Send(w)
  <2>1. CASE InputsHold(w)
    <3>1. /\ \A v \in Worker \ {w} : wk'[v] = wk[v]
          /\ wk'[w].pc = "sending" /\ wk'[w].dispatch = wk[w].dispatch
          /\ wk[w].pc = "checked" /\ UNCHANGED <<job, attempt>>
          /\ \A j \in JobId :
               calls'[j] = IF j \in Owned(w) /\ attempt[wk[w].dispatch] = "open"
                           THEN calls[j] + 1 ELSE calls[j]
      BY <1>0, <1>8, <2>1 DEF Send, To, WorkerRow
    <3>2. Dispatches'
      BY <3>1 DEF Charges, Dispatches
    <3>3. \A j \in Owned(w) : job[j].dispatch = wk[w].dispatch /\ calls[j] = 0
      <4>1. Owned(w) \subseteq JobId
        BY <1>0 DEF Owned, WorkerRow
      <4> QED
        BY <1>2, <3>1, <4>1 DEF Owned
    <3>4. ASSUME NEW j \in JobId, calls'[j] # 0
          PROVE  /\ calls'[j] = 1 /\ job[j].dispatch \in Dispatch
                 /\ attempt[job[j].dispatch] \in {"open", "spent"}
      <4>1. CASE j \in Owned(w) /\ attempt[wk[w].dispatch] = "open"
        BY <1>0, <3>1, <3>3, <4>1
      <4>2. CASE ~(j \in Owned(w) /\ attempt[wk[w].dispatch] = "open")
        BY <3>1, <3>4, <4>2 DEF Charges, Counts
      <4> QED
        BY <4>1, <4>2
    <3>5. ASSUME NEW v \in Worker, wk'[v].pc \in {"claimed", "marked", "checked"},
                 NEW j \in JobId, job[j].dispatch = wk'[v].dispatch
          PROVE  calls'[j] = 0
      <4>1. v # w /\ wk'[v] = wk[v]
        BY <3>1, <3>5
      <4>2. wk[v].dispatch # wk[w].dispatch
        BY <1>0, <3>1, <4>1, NoneAssumption DEF Charges, Dispatches
      <4>3. j \notin Owned(w)
        BY <3>5, <4>1, <4>2 DEF Owned
      <4> QED
        BY <3>1, <3>5, <4>1, <4>3 DEF Charges, Counts
    <3>6. Counts'
      BY <3>1, <3>4, <3>5 DEF Counts
    <3>7. Fresh'
      BY <3>1 DEF Charges, Fresh
    <3> QED
      BY <3>2, <3>6, <3>7 DEF Charges
  <2>2. CASE ~InputsHold(w)
    BY <1>3, <1>8, <2>2 DEF Send
  <2> QED
    BY <2>1, <2>2
<1>9. ASSUME NEW ok \in BOOLEAN, Answer(w, ok) PROVE Charges'
  <2>1. /\ \A v \in Worker \ {w} : wk'[v] = wk[v]
        /\ wk'[w].pc \in {"answered", "failing"} /\ wk'[w].dispatch = wk[w].dispatch
        /\ wk'[w].pc = "failing" => wk'[w].code = "error"
        /\ wk[w].pc = "sending" /\ UNCHANGED <<job, calls, attempt>>
    BY <1>0, <1>9 DEF Answer, To, Fail, WorkerRow
  <2>2. \A j \in JobId : job[j].dispatch = wk[w].dispatch /\ calls[j] # 0 =>
           attempt[wk[w].dispatch] \in {"open", "spent"}
    BY DEF Charges, Counts
  <2> QED
    BY <1>0, <2>1, <2>2, WorkerFrame
<1>10. CASE Settle(w)
  <2>1. /\ \A v \in Worker \ {w} : wk'[v] = wk[v]
        /\ wk'[w].pc \in {"settled", "failing"} /\ wk'[w].dispatch = wk[w].dispatch
        /\ wk'[w].pc = "failing" => wk'[w].code = "error"
        /\ wk[w].pc = "answered" /\ UNCHANGED <<job, calls>>
        /\ \/ UNCHANGED attempt
           \/ attempt' = [attempt EXCEPT ![wk[w].dispatch] = "spent"]
    BY <1>0, <1>10 DEF Settle, To, Fail, WorkerRow
  <2>2. \A j \in JobId : job[j].dispatch = wk[w].dispatch /\ calls[j] # 0 =>
           attempt[wk[w].dispatch] \in {"open", "spent"}
    BY DEF Charges, Counts
  <2> QED
    BY <1>0, <2>1, <2>2, WorkerFrame
<1>11. CASE Publish(w)
  <2>1. CASE Owned(w) = wk[w].jobs /\ InputsHold(w)
    <3>1. /\ wk' = [wk EXCEPT ![w] = Idle] /\ UNCHANGED <<attempt, calls>>
          /\ \A j \in JobId : /\ job'[j].dispatch = job[j].dispatch
                              /\ job'[j].status \in {job[j].status, "ready"}
      <4>1. /\ wk' = [wk EXCEPT ![w] = Idle] /\ UNCHANGED <<attempt, calls>>
            /\ job' = [j \in JobId |-> IF j \in wk[w].jobs
                                      THEN [job[j] EXCEPT !.status = "ready", !.lease = 0]
                                      ELSE job[j]]
        BY <1>11, <2>1 DEF Publish
      <4>2. \A row \in JobRow :
              /\ [row EXCEPT !.status = "ready", !.lease = 0].status = "ready"
              /\ [row EXCEPT !.status = "ready", !.lease = 0].dispatch = row.dispatch
        BY DEF JobRow
      <4> QED
        BY <1>0, <4>1, <4>2
    <3>2. \A j \in JobId : /\ job'[j].status = "absent" => job[j].status = "absent"
                          /\ job'[j].status = "pending" => job[j].status = "pending"
      BY <3>1
    <3>3. \A j \in JobId : job'[j].dispatch = job[j].dispatch
      BY <3>1
    <3> QED
      BY <3>1, <3>2, <3>3, IdleCharges
  <2>2. CASE ~(Owned(w) = wk[w].jobs /\ InputsHold(w))
    <3>1. /\ \A v \in Worker \ {w} : wk'[v] = wk[v]
          /\ wk'[w].pc = "failing" /\ wk'[w].dispatch = wk[w].dispatch
          /\ wk'[w].code = "context"
          /\ wk[w].pc = "settled" /\ UNCHANGED <<job, calls, attempt>>
      <4>1. /\ wk' = [wk EXCEPT ![w].pc = "failing", ![w].code = "context"]
            /\ wk[w].pc = "settled" /\ UNCHANGED <<job, calls, attempt>>
        BY <1>11, <2>2 DEF Publish, Fail
      <4> QED
        BY <1>0, <4>1 DEF WorkerRow
    <3>2. \A j \in JobId : job[j].dispatch = wk[w].dispatch /\ calls[j] # 0 =>
             attempt[wk[w].dispatch] \in {"open", "spent"}
      BY DEF Charges, Counts
    <3> QED
      BY <1>0, <3>1, <3>2, WorkerFrame
  <2> QED
    BY <2>1, <2>2
<1>12. CASE RecordFailure(w)
  <2>1. /\ wk' = [wk EXCEPT ![w] = Idle] /\ UNCHANGED <<attempt, calls>>
        /\ wk[w].pc = "failing"
        /\ \A j \in JobId :
             \/ job'[j] = job[j]
             \/ /\ j \in Owned(w) /\ job'[j].dispatch = job[j].dispatch
                /\ job'[j].status = FailedStatus(w)
    BY <1>0, <1>12 DEF RecordFailure, JobRow
  <2>2. /\ FailedStatus(w) # "absent"
        /\ FailedStatus(w) = "pending" => wk[w].code \in {"pause", "busy"}
    BY DEF FailedStatus
  <2>3. wk[w].code \in {"pause", "busy"} => attempt[wk[w].dispatch] \in {"none", "released"}
    BY <2>1 DEF Charges, Dispatches
  <2>4. \A j \in Owned(w) : job[j].dispatch = wk[w].dispatch
    BY DEF Owned
  <2> QED
    BY <2>1, <2>2, <2>3, <2>4, IdleCharges
<1> QED
  BY <1>1, <1>4, <1>5, <1>6, <1>7, <1>8, <1>9, <1>10, <1>11, <1>12 DEF WorkerStep

LEMMA ChargesStep ==
  ASSUME Rows, Runs, Charges, [Next]_vars
  PROVE  Charges'
<1>0. job \in [JobId -> JobRow] /\ wk \in [Worker -> WorkerRow]
  BY DEF Rows, TypeOK
<1>1. CASE OwnerStep
  BY <1>1, OwnerCharges
<1>2. ASSUME NEW w \in Worker, WorkerStep(w) PROVE Charges'
  BY <1>2, WorkerCharges
<1>3. ASSUME NEW w \in Worker, Recover(w) PROVE Charges'
  <2>1. UNCHANGED <<attempt, calls, wk>>
    BY <1>3 DEF Recover
  <2>2. ASSUME NEW j \in JobId
        PROVE  \/ /\ job'[j].dispatch = job[j].dispatch
                  /\ job'[j].status = "pending" => job[j].status = "pending"
                  /\ job'[j].status = "absent" => job[j].status = "absent"
               \/ job'[j].dispatch = None /\ calls[j] = 0
    <3>1. CASE j \notin Expired
      BY <1>3, <3>1 DEF Recover
    <3>2. CASE j \in Expired
      <4> DEFINE sent == IF job[j].dispatch = None THEN "none" ELSE attempt[job[j].dispatch]
      <4>1. /\ sent = "open" => job'[j] = [job[j] EXCEPT !.status = "uncertain"]
            /\ sent = "spent" => job'[j] = [job[j] EXCEPT !.status = "failed"]
            /\ sent \notin {"open", "spent"} =>
                 job'[j] = [job[j] EXCEPT !.status = "pending", !.dispatch = None]
        BY <1>3, <3>2 DEF Recover, RecoveredJob
      <4>2. /\ [job[j] EXCEPT !.status = "uncertain"].dispatch = job[j].dispatch
            /\ [job[j] EXCEPT !.status = "uncertain"].status = "uncertain"
            /\ [job[j] EXCEPT !.status = "failed"].dispatch = job[j].dispatch
            /\ [job[j] EXCEPT !.status = "failed"].status = "failed"
            /\ [job[j] EXCEPT !.status = "pending", !.dispatch = None].dispatch = None
        BY <1>0 DEF JobRow
      <4>3. sent \notin {"open", "spent"} => calls[j] = 0
        BY UncountedJob
      <4> HIDE DEF sent
      <4> QED
        BY <4>1, <4>2, <4>3
    <3> QED
      BY <3>1, <3>2
  <2> QED
    BY <2>1, <2>2, FrameCharges
<1>4. ASSUME NEW w \in Worker, Crash(w) PROVE Charges'
  BY <1>4, IdleCharges DEF Crash
<1>5. CASE Tick
  <2>1. UNCHANGED <<attempt, calls, wk>>
    BY <1>5 DEF Tick
  <2>2. \A j \in JobId : job'[j].dispatch = job[j].dispatch /\ job'[j].status = job[j].status
    BY <1>0, <1>5 DEF Tick, JobRow
  <2> QED
    BY <2>1, <2>2, FrameCharges
<1>6. CASE UNCHANGED vars
  BY <1>6, FrameCharges DEF vars
<1> QED
  BY <1>1, <1>2, <1>3, <1>4, <1>5, <1>6 DEF Next

\* No call that may be paid is made again unless the owner answered for it: the
\* attempt is opened before the call, recover_expired and record_failure queue a job
\* again only when its attempt is free, and no dispatch is used twice.
THEOREM NoReplay == Spec => []NoBlindReplay
<1>1. Init => Charges
  BY NoneAssumption DEF Init, Charges, Dispatches, Counts, Fresh, NoJob, Idle
<1>2. Rows /\ Runs /\ Charges /\ [Next]_vars => Charges'
  BY ChargesStep
<1>3. (Rows /\ Vectors) => Rows
  OBVIOUS
<1>4. Rows /\ Charges => NoBlindReplay
  BY DEF Charges, Counts, NoBlindReplay, Rows, TypeOK
<1> QED
  BY <1>1, <1>2, <1>3, <1>4, RowsHold, RunsHold, PTL DEF Spec
=============================================================================
