----------------------------- MODULE GitHubWalk -----------------------------
(***************************************************************************)
(* How incremental jobs of one GitHub source discover commits: a depth     *)
(* first walk of the commit graph from the heads of the selected branches, *)
(* at most GraphSteps frames in a cycle, carried on from cycle to cycle,   *)
(* while branches are moved and forced, workers die and batches fall short.*)
(*                                                                         *)
(* A cycle is one job.  Its preparation works on a copy of the             *)
(* subscription's progress in the job's spool directory, is saved after    *)
(* every frame, and is resumed there by the next attempt; sealed, it is    *)
(* archived item by item; and only a clean batch promotes its copy (see    *)
(* CollectionJobs for leases, takeovers and the order of jobs, of which    *)
(* this module uses that one preparation lives at a time and that a newer  *)
(* configuration or job leaves no older one behind).                       *)
(*                                                                         *)
(* Abstractions.  The parents of a commit are part of its identity, and    *)
(* its item stands for the documents stored with it; those of a head are   *)
(* read when its branch is done with, which may fail like any read, and    *)
(* are left out.  A batch is short if it has a gap of any kind; a commit   *)
(* is received when it has a receipt other than blocked or failed.  The    *)
(* head a branch was last seen at is that of the preparation's cache, the  *)
(* one a walk is for is dropped with the walk.  Counts are left out.       *)
(***************************************************************************)
EXTENDS Naturals, Sequences

CONSTANTS
  Commit,      \* the provider's commits
  Parents,     \* the parents of each, in order
  Branches,    \* how many branches are selected
  GraphSteps,  \* GRAPH_STEPS
  None         \* no commit

ASSUME ParentsAssumption == Parents \in [Commit -> Seq(Commit)]
ASSUME BoundsAssumption == Branches \in Nat \ {0} /\ GraphSteps \in Nat \ {0}
ASSUME NoneAssumption == None \notin Commit

VARIABLES
  received,  \* commits with a good receipt of some batch
  cursor,    \* GitHubCommitCursor rows of the revision in force
  progress,  \* CollectionSubscription.progress
  prep,      \* the preparation of the job under way: its directory, or its batch
  proc       \* the process working on it: what it does not save

vars == <<received, cursor, progress, prep, proc>>

Branch == 1..Branches
Sha == Commit \cup {None}
ParentsOf(c) == {Parents[c][i] : i \in DOMAIN Parents[c]}

Frame == [sha : Commit, exiting : BOOLEAN]
\* target and completed: the heads the walk under way is for, and the last one was.
Row == [stack : Seq(Frame), target : Sha, completed : Sha]
NewRow == [stack |-> <<>>, target |-> None, completed |-> None]
Progress == [rows : [Branch -> Row], offset : 0..(Branches - 1)]
NewProgress == [rows |-> [b \in Branch |-> NewRow], offset |-> 0]

\* "unknown": no row; "entered": its parents are known; "covered": ancestry_complete.
Node == {"unknown", "entered", "covered"}

\* seen: the heads in the preparation's cache.  items: what it stored, of which
\* left has no receipt yet.
Preparation ==
  [phase : {"none", "open", "sealed"}, progress : Progress, nodes : [Commit -> Node],
   seen : [Branch -> Sha], items : SUBSET Commit, left : SUBSET Commit,
   short : BOOLEAN, done : BOOLEAN]
Unknown == [c \in Commit |-> "unknown"]
Opened(phase, start) ==
  [phase |-> phase, progress |-> start, nodes |-> Unknown,
   seen |-> [b \in Branch |-> None], items |-> {}, left |-> {},
   short |-> FALSE, done |-> FALSE]

\* at: how many branches of the rotation are behind it.
Process ==
  [pc : {"down", "branch", "walk", "walked", "read", "prepared"},
   at : 0..Branches, remaining : 0..GraphSteps]
Down == [pc |-> "down", at |-> 0, remaining |-> 0]

TypeOK ==
  /\ received \in SUBSET Commit
  /\ cursor \in [Commit -> Node]
  /\ progress \in Progress
  /\ prep \in Preparation
  /\ proc \in Process

Init ==
  /\ received = {}
  /\ cursor = Unknown
  /\ progress = NewProgress
  /\ prep = Opened("none", NewProgress)
  /\ proc = Down

-----------------------------------------------------------------------------
(***************************************************************************)
(* The owner.                                                              *)
(***************************************************************************)
\* The job is cancelled, or fails and is not retried before the next one.
Abandon ==
  /\ prep.phase # "none"
  /\ prep' = Opened("none", NewProgress)
  /\ proc' = Down
  /\ UNCHANGED <<received, cursor, progress>>

\* Another selection is another revision, which no cursor belongs to yet.
Reconfigure ==
  /\ cursor' = Unknown
  /\ progress' = NewProgress
  /\ prep' = Opened("none", NewProgress)
  /\ proc' = Down
  /\ UNCHANGED received

-----------------------------------------------------------------------------
(***************************************************************************)
(* One attempt at a preparation.                                           *)
(***************************************************************************)
\* Mutant: what earlier cycles learned is not looked up.
NodeInCopy(c) == prep.nodes[c]

NodeOf(c) == IF prep.nodes[c] # "unknown" THEN prep.nodes[c] ELSE cursor[c]

\* Mutant: a commit that is known is where a walk may stop.
KnownAlready(c) == NodeOf(c) # "unknown"

IsFrontier(c) == NodeOf(c) = "covered"
AllCovered(c) == \A p \in ParentsOf(c) : NodeOf(p) = "covered"

\* The branch whose turn it is: the rotation begins at the offset.
Current == ((prep.progress.offset + proc.at) % Branches) + 1
row == prep.progress.rows[Current]
Top == row.stack[Len(row.stack)]
Popped == SubSeq(row.stack, 1, Len(row.stack) - 1)

\* The frames of the parents, the first parent on top.
Entering(c) ==
  [i \in DOMAIN Parents[c] |->
     [sha |-> Parents[c][Len(Parents[c]) + 1 - i], exiting |-> FALSE]]

SaveRow(r) == prep' = [prep EXCEPT !.progress.rows[Current] = r]
Goto(pc) == proc' = [proc EXCEPT !.pc = pc]

\* The job's first attempt opens its preparation from the progress in force.
Open ==
  /\ prep.phase = "none"
  /\ prep' = Opened("open", progress)
  /\ UNCHANGED <<received, cursor, progress, proc>>

\* Every attempt begins the round of the branches anew.
Start ==
  /\ prep.phase = "open" /\ proc.pc = "down"
  /\ proc' = IF prep.done THEN [Down EXCEPT !.pc = "prepared"]
             ELSE [pc |-> "branch", at |-> 0, remaining |-> GraphSteps]
  /\ UNCHANGED <<received, cursor, progress, prep>>

\* The head is read once in a preparation, and may be any: branches are pushed to and
\* forced.  A walk under way goes on to the head it was for; otherwise one begins from
\* the head that is not walked yet.
Observe(sha) ==
  LET fresh == row.stack = <<>> /\ row.completed # sha
  IN /\ proc.pc = "branch" /\ proc.at < Branches
     /\ prep.seen[Current] \in {None, sha}
     /\ prep' = [prep EXCEPT !.seen[Current] = sha,
          !.progress.rows[Current] =
             IF fresh
             THEN [row EXCEPT !.target = sha, !.stack = <<[sha |-> sha, exiting |-> FALSE]>>]
             ELSE row]
     /\ Goto(IF fresh \/ row.stack # <<>> THEN "walk" ELSE "read")
     /\ UNCHANGED <<received, cursor, progress>>

Walking == proc.pc = "walk" /\ row.stack # <<>> /\ proc.remaining > 0
StepTaken == proc' = [proc EXCEPT !.remaining = @ - 1]

\* Its ancestry is covered, by this walk or another.
Skip ==
  /\ Walking
  /\ IsFrontier(Top.sha)
  /\ SaveRow([row EXCEPT !.stack = Popped])
  /\ StepTaken
  /\ UNCHANGED <<received, cursor, progress>>

\* Left only when its parents are covered, else the source contradicts itself.
Leave ==
  /\ Walking /\ Top.exiting
  /\ NodeOf(Top.sha) = "entered" /\ AllCovered(Top.sha)
  /\ prep' = [prep EXCEPT !.nodes[Top.sha] = "covered",
                          !.progress.rows[Current].stack = Popped]
  /\ StepTaken
  /\ UNCHANGED <<received, cursor, progress>>

\* The commit is read and stored before the graph knows of it.
Collect(gap) ==
  /\ Walking /\ ~Top.exiting
  /\ NodeOf(Top.sha) = "unknown"
  /\ Top.sha \notin prep.items \/ (gap /\ ~prep.short)
  /\ prep' = [prep EXCEPT !.items = @ \cup {Top.sha}, !.short = @ \/ gap]
  /\ UNCHANGED <<received, cursor, progress, proc>>

Enter ==
  /\ Walking /\ ~Top.exiting
  /\ \/ NodeOf(Top.sha) = "entered"
     \/ NodeOf(Top.sha) = "unknown" /\ Top.sha \in prep.items
  /\ prep' = [prep EXCEPT
       !.nodes[Top.sha] = IF NodeOf(Top.sha) = "unknown" THEN "entered" ELSE @,
       !.progress.rows[Current].stack =
          Popped \o <<[sha |-> Top.sha, exiting |-> TRUE]>> \o Entering(Top.sha)]
  /\ StepTaken
  /\ UNCHANGED <<received, cursor, progress>>

\* The walk is over, or this cycle's frames are spent.
EndWalk ==
  /\ proc.pc = "walk"
  /\ row.stack = <<>> \/ proc.remaining = 0
  /\ Goto(IF row.stack = <<>> THEN "walked" ELSE "read")
  /\ UNCHANGED <<received, cursor, progress, prep>>

\* That it is over is in memory only, until the branch is saved.
Completed ==
  IF proc.pc = "walked" THEN [row EXCEPT !.completed = row.target, !.target = None] ELSE row

EndBranch(gap) ==
  /\ proc.pc \in {"walked", "read"}
  /\ prep' = [prep EXCEPT !.progress.rows[Current] = Completed, !.short = @ \/ gap]
  /\ proc' = [proc EXCEPT !.pc = "branch", !.at = @ + 1]
  /\ UNCHANGED <<received, cursor, progress>>

\* Mutant: the rotation stays where it is.
NoTurn(offset) == offset

Turned(offset) == (offset + 1) % Branches

EndGraph ==
  /\ proc.pc = "branch" /\ proc.at = Branches
  /\ prep' = [prep EXCEPT !.done = TRUE, !.progress.offset = Turned(@)]
  /\ Goto("prepared")
  /\ UNCHANGED <<received, cursor, progress>>

\* A read pauses the attempt, which saves what it knows, or the process dies.
Pause ==
  /\ proc.pc # "down"
  /\ prep' = IF proc.pc = "walked" THEN [prep EXCEPT !.progress.rows[Current] = Completed]
             ELSE prep
  /\ proc' = Down
  /\ UNCHANGED <<received, cursor, progress>>

Crash ==
  /\ proc.pc # "down"
  /\ proc' = Down
  /\ UNCHANGED <<received, cursor, progress, prep>>

-----------------------------------------------------------------------------
(***************************************************************************)
(* The batch.                                                              *)
(***************************************************************************)
Seal ==
  /\ proc.pc = "prepared"
  /\ prep' = [prep EXCEPT !.phase = "sealed", !.left = prep.items]
  /\ proc' = Down
  /\ UNCHANGED <<received, cursor, progress>>

\* A receipt is durable with its record; a blocked one leaves nothing in the archive.
Ingest(blocked) ==
  LET item == CHOOSE i \in prep.left : TRUE
  IN /\ prep.phase = "sealed" /\ prep.left # {}
     /\ received' = IF blocked THEN received ELSE received \cup {item}
     /\ prep' = [prep EXCEPT !.left = @ \ {item}, !.short = @ \/ blocked]
     /\ UNCHANGED <<cursor, progress, proc>>

\* Mutant: a batch that falls short is promoted all the same.
CleanAnyway == TRUE

Clean == ~prep.short

\* advance, in the transaction that finishes the job.
Finish ==
  /\ prep.phase = "sealed" /\ prep.left = {}
  /\ IF Clean
     THEN /\ cursor' = [c \in Commit |-> NodeOf(c)]
          /\ progress' = prep.progress
     ELSE UNCHANGED <<cursor, progress>>
  /\ prep' = Opened("none", NewProgress)
  /\ UNCHANGED <<received, proc>>

Work ==
  \/ Open \/ Start \/ Skip \/ Leave \/ Enter \/ EndWalk
  \/ EndGraph \/ Seal \/ Finish
  \/ Collect(FALSE) \/ EndBranch(FALSE) \/ Ingest(FALSE)
  \/ \E sha \in Commit : Observe(sha)
Fault ==
  \/ Pause \/ Crash \/ Abandon \/ Reconfigure
  \/ Collect(TRUE) \/ EndBranch(TRUE) \/ Ingest(TRUE)
Next == Work \/ Fault
Spec == Init /\ [][Next]_vars

\* The worker polls for ever, and does what there is to do.
FairSpec == Spec /\ WF_vars(Work)

-----------------------------------------------------------------------------
(***************************************************************************)
(* Properties.                                                             *)
(***************************************************************************)
\* All of a commit's history is in a set of commits.
Whole(sha, commits) ==
  \E S \in SUBSET commits : sha \in S /\ \A c \in S : ParentsOf(c) \subseteq S

\* A head the progress in force calls completed has its whole history in the archive,
\* whatever was interrupted, forced, shared with other branches or given up on the way
\* there (walk, advance).
CompletedIsArchived ==
  \A b \in Branch :
    progress.rows[b].completed # None => Whole(progress.rows[b].completed, received)

\* A batch that declares the walk of a branch complete brings what the archive lacks of
\* the history of the head it declares (seal).
DeclaredIsWhole ==
  prep.phase = "sealed" /\ ~prep.short =>
    \A b \in Branch :
      prep.seen[b] # None /\ prep.progress.rows[b].completed = prep.seen[b] =>
        Whole(prep.seen[b], received \cup prep.items)

\* A walk that is carried on, alone or beside another over the same commits, never finds
\* itself leaving a commit with a parent that is not covered, which the code takes for a
\* conflict of the source (walk).
WalksAgree ==
  Walking /\ Top.exiting /\ NodeOf(Top.sha) # "covered" =>
    NodeOf(Top.sha) = "entered" /\ AllCovered(Top.sha)

\* While attempts and batches do not keep failing, a branch that rests is walked to its
\* head, however deep it is and however restless the others are (graph: "a deep first
\* branch cannot starve another").
NoBranchStarves ==
  \A b \in Branch, c \in Commit :
    \/ []<><<Fault>>_vars \/ []<>(prep.seen[b] \notin {None, c})
    \/ <>(progress.rows[b].completed = c)
=============================================================================
