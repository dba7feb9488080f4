-------------------------- MODULE GitHubWalkProofs --------------------------
(***************************************************************************)
(* Proofs about GitHubWalk, for every commit graph, any number of branches *)
(* and every number of frames a cycle.                                     *)
(***************************************************************************)
EXTENDS GitHubWalk, SequenceTheorems, TLAPS

(***************************************************************************)
(* The inductive invariant.  N is what is known of the commits: the rows   *)
(* of the revision, or those overlaid with what a preparation learned.     *)
(***************************************************************************)
Known == [c \in Commit |-> NodeOf(c)]

\* Covered commits have covered parents.
Closed(N) ==
  \A c \in Commit : N[c] = "covered" => \A p \in ParentsOf(c) : N[p] = "covered"

\* A commit that is to be left is known, and each parent is covered or still to come.
Owed(stack, N) ==
  \A i \in DOMAIN stack :
    stack[i].exiting /\ N[stack[i].sha] # "covered" =>
      /\ N[stack[i].sha] = "entered"
      /\ \A p \in ParentsOf(stack[i].sha) :
           N[p] = "covered" \/ \E j \in DOMAIN stack : j > i /\ stack[j].sha = p

\* The walk of a branch ends with its target covered.
RowSound(r, N) ==
  /\ r.completed # None => N[r.completed] = "covered"
  /\ r.stack # <<>> => r.stack[1].sha = r.target
  /\ r.stack = <<>> /\ r.target # None => N[r.target] = "covered"
  /\ Owed(r.stack, N)

\* What is known was stored by this job or archived by another, and what a job stored is
\* archived when its batch is clean.
Held ==
  /\ \A c \in Commit : cursor[c] # "unknown" => c \in received
  /\ \A c \in Commit : prep.nodes[c] # "unknown" => c \in received \cup prep.items
  /\ prep.phase = "sealed" /\ ~prep.short => prep.items \subseteq received \cup prep.left

\* A process works on an open preparation, and a walk that is over left no frames.
Attended ==
  /\ proc.pc # "down" => prep.phase = "open"
  /\ proc.pc \in {"walk", "walked", "read"} => proc.at < Branches
  /\ proc.pc = "walked" => row.stack = <<>>

WalksSound ==
  /\ Closed(cursor) /\ Closed(Known)
  /\ \A b \in Branch : RowSound(progress.rows[b], cursor)
  /\ \A b \in Branch : RowSound(prep.progress.rows[b], Known)

Inv == TypeOK /\ Held /\ Attended /\ WalksSound

-----------------------------------------------------------------------------
(***************************************************************************)
(* Types.                                                                  *)
(***************************************************************************)
LEMMA ParentTypes ==
  ASSUME NEW c \in Commit
  PROVE  /\ Parents[c] \in Seq(Commit)
         /\ ParentsOf(c) \subseteq Commit
<1>1. Parents[c] \in Seq(Commit)
  BY ParentsAssumption
<1> QED
  BY <1>1 DEF ParentsOf

LEMMA FreshTypes ==
  /\ NewRow \in Row
  /\ NewProgress \in Progress
  /\ Unknown \in [Commit -> Node]
  /\ \A phase \in {"none", "open", "sealed"}, start \in Progress :
       Opened(phase, start) \in Preparation
  /\ Down \in Process
<1>1. NewRow \in Row
  BY DEF NewRow, Row, Sha
<1>2. NewProgress \in Progress
  BY <1>1, BoundsAssumption DEF NewProgress, Progress
<1>3. Unknown \in [Commit -> Node]
  BY DEF Unknown, Node
<1>4. Down \in Process
  BY BoundsAssumption DEF Down, Process
<1> QED
  BY <1>1, <1>2, <1>3, <1>4 DEF Opened, Preparation, Sha

LEMMA CurrentType ==
  ASSUME TypeOK
  PROVE  Current \in Branch /\ row \in Row
<1>1. Branches \in Nat \ {0} /\ prep.progress.offset \in 0..(Branches - 1) /\ proc.at \in 0..Branches
  BY BoundsAssumption DEF TypeOK, Preparation, Progress, Process
<1>2. ((prep.progress.offset + proc.at) % Branches) \in 0..(Branches - 1)
  BY <1>1
<1>3. Current \in Branch
  BY <1>1, <1>2 DEF Current, Branch
<1> QED
  BY <1>3 DEF row, TypeOK, Preparation, Progress

LEMMA KnownType ==
  ASSUME TypeOK
  PROVE  Known \in [Commit -> Node] /\ \A c \in Commit : Known[c] = NodeOf(c)
BY DEF Known, NodeOf, TypeOK, Preparation, Node

LEMMA PoppedFacts ==
  ASSUME NEW s \in Seq(Frame), s # <<>>
  PROVE  /\ SubSeq(s, 1, Len(s) - 1) \in Seq(Frame)
         /\ Len(s) \in Nat \ {0} /\ s[Len(s)] \in Frame
         /\ Len(SubSeq(s, 1, Len(s) - 1)) = Len(s) - 1
         /\ \A i \in 1..(Len(s) - 1) : SubSeq(s, 1, Len(s) - 1)[i] = s[i]
<1> DEFINE n == Len(s)
           p == SubSeq(s, 1, n - 1)
<1>1. n \in Nat \ {0} /\ \A i \in 1..n : s[i] \in Frame
  BY EmptySeq, ElementOfSeq
<1>2. 1 \in Int /\ n - 1 \in Int /\ \A i \in 1..(n - 1) : s[i] \in Frame
  BY <1>1
<1>3. /\ p \in Seq(Frame)
      /\ Len(p) = IF 1 <= n - 1 THEN (n - 1) - 1 + 1 ELSE 0
      /\ \A i \in 1..((n - 1) - 1 + 1) : p[i] = s[1 + i - 1]
  BY <1>2, SubSeqProperties
<1> HIDE DEF n, p
<1>4. /\ p \in Seq(Frame) /\ n \in Nat \ {0} /\ s[n] \in Frame /\ Len(p) = n - 1
      /\ \A i \in 1..(n - 1) : p[i] = s[i]
  BY <1>1, <1>3
<1> QED
  BY <1>4 DEF n, p

LEMMA ConcatFacts ==
  ASSUME NEW s \in Seq(Frame), NEW t \in Seq(Frame), NEW u, u = s \o t
  PROVE  /\ u \in Seq(Frame) /\ Len(u) = Len(s) + Len(t)
         /\ DOMAIN u = 1..(Len(s) + Len(t))
         /\ Len(s) \in Nat /\ Len(t) \in Nat
         /\ \A i \in 1..Len(s) : u[i] = s[i]
         /\ \A i \in 1..Len(t) : u[Len(s) + i] = t[i]
<1> DEFINE m == Len(s)
           n == Len(t)
<1>1. /\ u \in Seq(Frame) /\ Len(u) = m + n
      /\ \A i \in 1..m + n : u[i] = IF i <= m THEN s[i] ELSE t[i - m]
  BY ConcatProperties
<1>2. DOMAIN u = 1..Len(u) /\ m \in Nat /\ n \in Nat
  BY <1>1, LenProperties
<1> HIDE DEF m, n
<1>3. \A i \in 1..m : u[i] = s[i]
  BY <1>1, <1>2
<1>4. \A i \in 1..n : u[m + i] = t[i]
  <2> SUFFICES ASSUME NEW i \in 1..n PROVE u[m + i] = t[i]
    OBVIOUS
  <2>1. m + i \in 1..(m + n) /\ ~(m + i <= m) /\ (m + i) - m = i
    BY <1>2
  <2> QED
    BY <1>1, <2>1
<1> QED
  BY <1>1, <1>2, <1>3, <1>4 DEF m, n

\* What entering a commit makes of the stack: the commit is left after its parents.
Entered(s, c) ==
  SubSeq(s, 1, Len(s) - 1) \o <<[sha |-> c, exiting |-> TRUE]>> \o Entering(c)

LEMMA EnteringFacts ==
  ASSUME NEW c \in Commit
  PROVE  /\ Entering(c) \in Seq(Frame) /\ Len(Entering(c)) \in Nat
         /\ \A i \in 1..Len(Entering(c)) : ~Entering(c)[i].exiting
         /\ \A p \in ParentsOf(c) :
              \E i \in 1..Len(Entering(c)) : Entering(c)[i].sha = p
<1> DEFINE n == Len(Parents[c])
           e == [i \in 1..n |-> [sha |-> Parents[c][n + 1 - i], exiting |-> FALSE]]
<1>1. /\ Parents[c] \in Seq(Commit) /\ n \in Nat /\ DOMAIN Parents[c] = 1..n
      /\ \A i \in 1..n : Parents[c][i] \in Commit
  BY ParentTypes, LenProperties, ElementOfSeq
<1>2. Entering(c) = e
  BY <1>1 DEF Entering
<1>3. \A i \in 1..n : n + 1 - i \in 1..n /\ n + 1 - (n + 1 - i) = i
  BY <1>1
<1>4. e \in [1..n -> Frame]
  BY <1>1, <1>3 DEF Frame
<1>5. e \in Seq(Frame)
  BY ZenonT(60), <1>1, <1>4, SeqDef
<1>6. Len(e) = n
  BY <1>1, <1>5, LenProperties
<1>7. \A i \in 1..n : ~e[i].exiting /\ e[i].sha = Parents[c][n + 1 - i]
  OBVIOUS
<1>8. \A p \in ParentsOf(c) : \E i \in 1..n : e[i].sha = p
  <2> SUFFICES ASSUME NEW k \in 1..n PROVE \E i \in 1..n : e[i].sha = Parents[c][k]
    BY ZenonT(60), <1>1 DEF ParentsOf
  <2>1. n + 1 - k \in 1..n /\ e[n + 1 - k].sha = Parents[c][n + 1 - (n + 1 - k)]
    BY <1>3, <1>7
  <2> QED
    BY <1>3, <2>1
<1> HIDE DEF e, n
<1> QED
  BY <1>1, <1>2, <1>5, <1>6, <1>7, <1>8

LEMMA EnteredFacts ==
  ASSUME NEW c \in Commit, NEW s \in Seq(Frame), s # <<>>
  PROVE  /\ Entered(s, c) \in Seq(Frame)
         /\ Len(s) \in DOMAIN Entered(s, c)
         /\ \A i \in 1..(Len(s) - 1) : i \in DOMAIN Entered(s, c) /\ Entered(s, c)[i] = s[i]
         /\ Entered(s, c)[Len(s)] = [sha |-> c, exiting |-> TRUE]
         /\ \A j \in DOMAIN Entered(s, c) :
              j \in Nat /\ (j > Len(s) => ~Entered(s, c)[j].exiting)
         /\ \A p \in ParentsOf(c) :
              \E j \in DOMAIN Entered(s, c) : j > Len(s) /\ Entered(s, c)[j].sha = p
<1> DEFINE a == SubSeq(s, 1, Len(s) - 1)
           m == <<[sha |-> c, exiting |-> TRUE]>>
           e == Entering(c)
           am == a \o m
           ame == am \o e
<1>1. /\ a \in Seq(Frame) /\ Len(a) = Len(s) - 1 /\ Len(s) \in Nat \ {0}
      /\ \A i \in 1..(Len(s) - 1) : a[i] = s[i]
  BY PoppedFacts
<1>2. m \in Seq(Frame) /\ Len(m) = 1 /\ m[1] = [sha |-> c, exiting |-> TRUE]
  BY DEF Frame
<1>3. /\ e \in Seq(Frame) /\ Len(e) \in Nat /\ \A i \in 1..Len(e) : ~e[i].exiting
      /\ \A p \in ParentsOf(c) : \E i \in 1..Len(e) : e[i].sha = p
  BY EnteringFacts
<1>0. am = a \o m /\ ame = am \o e
  OBVIOUS
<1> HIDE DEF a, m, e, am, ame
<1>4. /\ am \in Seq(Frame) /\ Len(am) = Len(a) + Len(m)
      /\ \A i \in 1..Len(a) : am[i] = a[i]
      /\ \A i \in 1..Len(m) : am[Len(a) + i] = m[i]
  <2>1. a \in Seq(Frame) /\ m \in Seq(Frame) /\ am = a \o m
    BY <1>0, <1>1, <1>2
  <2> QED
    BY <2>1, ConcatFacts
<1>5. /\ Len(am) = Len(s) /\ am[Len(s)] = [sha |-> c, exiting |-> TRUE]
      /\ \A i \in 1..(Len(s) - 1) : am[i] = s[i]
  <2>1. Len(a) + 1 = Len(s) /\ 1 \in 1..Len(m)
    BY <1>1, <1>2
  <2> QED
    BY <1>1, <1>2, <1>4, <2>1
<1>6. /\ ame \in Seq(Frame) /\ DOMAIN ame = 1..(Len(am) + Len(e))
      /\ \A i \in 1..Len(am) : ame[i] = am[i]
      /\ \A i \in 1..Len(e) : ame[Len(am) + i] = e[i]
  BY <1>0, <1>3, <1>4, ConcatFacts
<1>7. Entered(s, c) = ame
  BY DEF Entered, ame, am, a, m, e
<1>8. /\ Len(s) \in DOMAIN ame /\ ame[Len(s)] = [sha |-> c, exiting |-> TRUE]
      /\ \A i \in 1..(Len(s) - 1) : i \in DOMAIN ame /\ ame[i] = s[i]
  BY <1>1, <1>3, <1>5, <1>6
<1>9. \A j \in DOMAIN ame : j \in Nat /\ (j > Len(s) => ~ame[j].exiting)
  <2> SUFFICES ASSUME NEW j \in DOMAIN ame PROVE j \in Nat /\ (j > Len(s) => ~ame[j].exiting)
    OBVIOUS
  <2>1. j \in Nat /\ (j > Len(s) => j - Len(s) \in 1..Len(e) /\ Len(s) + (j - Len(s)) = j)
    BY <1>1, <1>3, <1>5, <1>6
  <2>2. CASE j > Len(s)
    <3>1. ame[j] = e[j - Len(s)]
      BY <1>5, <1>6, <2>1, <2>2
    <3> QED
      BY <1>3, <2>1, <2>2, <3>1
  <2> QED
    BY <2>1, <2>2
<1>10. \A p \in ParentsOf(c) : \E j \in DOMAIN ame : j > Len(s) /\ ame[j].sha = p
  <2> SUFFICES ASSUME NEW p \in ParentsOf(c)
               PROVE  \E j \in DOMAIN ame : j > Len(s) /\ ame[j].sha = p
    OBVIOUS
  <2>1. PICK i \in 1..Len(e) : e[i].sha = p
    BY <1>3
  <2>2. Len(s) + i \in DOMAIN ame /\ Len(s) + i > Len(s) /\ ame[Len(s) + i] = e[i]
    BY <1>1, <1>3, <1>5, <1>6, <2>1
  <2> QED
    BY <2>1, <2>2
<1> QED
  BY <1>6, <1>7, <1>8, <1>9, <1>10

-----------------------------------------------------------------------------
(***************************************************************************)
(* The soundness of a row as its stack, and what is known, change.         *)
(***************************************************************************)
LEMMA NewSound ==
  ASSUME NEW N
  PROVE  \A b \in Branch : RowSound(NewProgress.rows[b], N)
<1>1. \A b \in Branch : NewProgress.rows[b] = NewRow
  BY DEF NewProgress
<1> QED
  BY <1>1 DEF RowSound, Owed, NewRow

LEMMA RowTypes ==
  ASSUME NEW r \in Row
  PROVE  /\ r.stack \in Seq(Frame) /\ r.target \in Sha /\ r.completed \in Sha
         /\ DOMAIN r.stack = 1..Len(r.stack) /\ Len(r.stack) \in Nat
         /\ \A i \in DOMAIN r.stack :
              r.stack[i] \in Frame /\ r.stack[i].sha \in Commit
<1>1. r.stack \in Seq(Frame) /\ r.target \in Sha /\ r.completed \in Sha
  BY DEF Row
<1>2. DOMAIN r.stack = 1..Len(r.stack) /\ Len(r.stack) \in Nat
  BY <1>1, LenProperties
<1>3. \A i \in DOMAIN r.stack : r.stack[i] \in Frame
  BY <1>1, <1>2, ElementOfSeq
<1> QED
  BY <1>1, <1>2, <1>3 DEF Frame

Grows(N, M) ==
  \A c \in Commit :
    /\ N[c] # "unknown" => M[c] # "unknown"
    /\ N[c] = "covered" => M[c] = "covered"

\* Knowing more keeps a row sound.
LEMMA SoundGrows ==
  ASSUME NEW r \in Row, NEW N \in [Commit -> Node], NEW M \in [Commit -> Node],
         RowSound(r, N), Grows(N, M)
  PROVE  RowSound(r, M)
<1>1. Owed(r.stack, M)
  <2> SUFFICES ASSUME NEW i \in DOMAIN r.stack, r.stack[i].exiting,
                      M[r.stack[i].sha] # "covered"
               PROVE  /\ M[r.stack[i].sha] = "entered"
                      /\ \A p \in ParentsOf(r.stack[i].sha) :
                           M[p] = "covered"
                           \/ \E j \in DOMAIN r.stack : j > i /\ r.stack[j].sha = p
    BY DEF Owed
  <2>1. r.stack[i].sha \in Commit
    BY RowTypes
  <2>2. N[r.stack[i].sha] = "entered"
    BY <2>1 DEF RowSound, Owed, Grows
  <2>3. M[r.stack[i].sha] = "entered"
    BY <2>1, <2>2 DEF Grows, Node
  <2>4. ASSUME NEW p \in ParentsOf(r.stack[i].sha)
        PROVE  M[p] = "covered"
               \/ \E j \in DOMAIN r.stack : j > i /\ r.stack[j].sha = p
    <3>1. p \in Commit
      BY <2>1, ParentTypes
    <3> QED
      BY <2>2, <3>1 DEF RowSound, Owed, Grows
  <2> QED
    BY <2>3, <2>4
<1>2. r.completed \in Sha /\ r.target \in Sha
  BY RowTypes
<1> QED
  BY <1>1, <1>2 DEF RowSound, Sha, Grows

Shortened(r) == [r EXCEPT !.stack = SubSeq(r.stack, 1, Len(r.stack) - 1)]

\* The top frame may go once its commit is covered.
LEMMA PoppedSound ==
  ASSUME NEW r \in Row, NEW N \in [Commit -> Node], RowSound(r, N),
         r.stack # <<>>, N[r.stack[Len(r.stack)].sha] = "covered"
  PROVE  Shortened(r) \in Row /\ RowSound(Shortened(r), N)
<1> DEFINE n == Len(r.stack)
           t == SubSeq(r.stack, 1, n - 1)
<1>1. /\ t \in Seq(Frame) /\ n \in Nat \ {0} /\ Len(t) = n - 1
      /\ \A i \in 1..(n - 1) : t[i] = r.stack[i]
  BY PoppedFacts, RowTypes
<1>2. /\ Shortened(r) \in Row /\ Shortened(r).stack = t
      /\ Shortened(r).target = r.target /\ Shortened(r).completed = r.completed
  BY <1>1 DEF Shortened, Row
<1> HIDE DEF t
<1>3. DOMAIN t = 1..(n - 1) /\ DOMAIN r.stack = 1..n
  BY <1>1, LenProperties, RowTypes
<1>4. Owed(t, N)
  <2> SUFFICES ASSUME NEW i \in DOMAIN t, t[i].exiting, N[t[i].sha] # "covered"
               PROVE  /\ N[t[i].sha] = "entered"
                      /\ \A p \in ParentsOf(t[i].sha) :
                           N[p] = "covered" \/ \E j \in DOMAIN t : j > i /\ t[j].sha = p
    BY DEF Owed
  <2>1. i \in DOMAIN r.stack /\ r.stack[i] = t[i]
    BY <1>1, <1>3
  <2>2. ASSUME NEW p \in ParentsOf(t[i].sha)
        PROVE  N[p] = "covered" \/ \E j \in DOMAIN t : j > i /\ t[j].sha = p
    <3>1. CASE N[p] # "covered"
      <4>1. PICK j \in DOMAIN r.stack : j > i /\ r.stack[j].sha = p
        BY <2>1, <3>1 DEF RowSound, Owed
      <4>2. j # n
        BY <3>1, <4>1
      <4>3. j \in DOMAIN t /\ t[j] = r.stack[j]
        BY <1>1, <1>3, <4>2
      <4> QED
        BY <4>1, <4>3
    <3> QED
      BY <3>1
  <2> QED
    BY <2>1, <2>2 DEF RowSound, Owed
<1>5. t # <<>> => t[1].sha = r.target
  <2>1. t # <<>> => 1 \in 1..(n - 1)
    BY <1>1, EmptySeq
  <2> QED
    BY <1>1, <2>1 DEF RowSound
<1>6. t = <<>> /\ r.target # None => N[r.target] = "covered"
  <2>1. t = <<>> => n = 1
    BY <1>1, EmptySeq
  <2> QED
    BY <2>1 DEF RowSound
<1> QED
  BY <1>2, <1>4, <1>5, <1>6 DEF RowSound

Deepened(r, c) == [r EXCEPT !.stack = Entered(r.stack, c)]

\* The parents of an entered commit are to come before it is left.
LEMMA EnteredSound ==
  ASSUME NEW r \in Row, NEW N \in [Commit -> Node], RowSound(r, N), NEW c \in Commit,
         r.stack # <<>>, r.stack[Len(r.stack)].sha = c, N[c] = "entered"
  PROVE  Deepened(r, c) \in Row /\ RowSound(Deepened(r, c), N)
<1> DEFINE n == Len(r.stack)
           t == Entered(r.stack, c)
<1>1. /\ t \in Seq(Frame) /\ n \in DOMAIN t /\ t[n] = [sha |-> c, exiting |-> TRUE]
      /\ \A i \in 1..(n - 1) : i \in DOMAIN t /\ t[i] = r.stack[i]
      /\ \A j \in DOMAIN t : j \in Nat /\ (j > n => ~t[j].exiting)
      /\ \A p \in ParentsOf(c) : \E j \in DOMAIN t : j > n /\ t[j].sha = p
  BY ZenonT(60), EnteredFacts, RowTypes
<1>2. /\ Deepened(r, c) \in Row /\ Deepened(r, c).stack = t
      /\ Deepened(r, c).target = r.target /\ Deepened(r, c).completed = r.completed
  BY <1>1 DEF Deepened, Row
<1> HIDE DEF t
<1>3. /\ DOMAIN t = 1..Len(t) /\ DOMAIN r.stack = 1..n /\ n \in Nat \ {0}
      /\ t # <<>>
  BY <1>1, LenProperties, RowTypes, EmptySeq
<1>4. \A j \in DOMAIN r.stack : j \in DOMAIN t /\ t[j].sha = r.stack[j].sha
  BY <1>1, <1>3
<1>5. Owed(t, N)
  <2> SUFFICES ASSUME NEW i \in DOMAIN t, t[i].exiting, N[t[i].sha] # "covered"
               PROVE  /\ N[t[i].sha] = "entered"
                      /\ \A p \in ParentsOf(t[i].sha) :
                           N[p] = "covered" \/ \E j \in DOMAIN t : j > i /\ t[j].sha = p
    BY DEF Owed
  <2>1. CASE i = n
    BY <1>1, <2>1
  <2>2. CASE i # n
    <3>1. i \in 1..(n - 1)
      BY <1>1, <1>3, <2>2
    <3>2. i \in DOMAIN r.stack /\ t[i] = r.stack[i]
      BY <1>1, <1>3, <3>1
    <3>3. \A p \in ParentsOf(t[i].sha) :
            N[p] = "covered" \/ \E j \in DOMAIN r.stack : j > i /\ r.stack[j].sha = p
      BY <3>2 DEF RowSound, Owed
    <3> QED
      BY <1>4, <3>2, <3>3 DEF RowSound, Owed
  <2> QED
    BY <2>1, <2>2
<1>6. t[1].sha = r.target
  BY <1>3, <1>4 DEF RowSound
<1> QED
  BY <1>2, <1>3, <1>5, <1>6 DEF RowSound

-----------------------------------------------------------------------------
(***************************************************************************)
(* How the steps change what is known and the rows.                        *)
(***************************************************************************)
\* A step that leaves both as they are.
LEMMA SameWalks ==
  ASSUME WalksSound, cursor' = cursor, progress' = progress,
         prep'.nodes = prep.nodes, prep'.progress.rows = prep.progress.rows
  PROVE  WalksSound'
<1>1. Known' = Known
  BY DEF Known, NodeOf
<1> QED
  BY <1>1 DEF WalksSound

\* A step that changes the row whose turn it is.
LEMMA RowWalks ==
  ASSUME TypeOK, WalksSound, cursor' = cursor, progress' = progress,
         prep'.nodes = prep.nodes, NEW r,
         prep'.progress.rows = [prep.progress.rows EXCEPT ![Current] = r],
         RowSound(r, Known)
  PROVE  WalksSound'
<1>1. Known' = Known
  BY DEF Known, NodeOf
<1>2. prep.progress.rows \in [Branch -> Row]
  BY DEF TypeOK, Preparation, Progress
<1>3. \A b \in Branch : RowSound(prep'.progress.rows[b], Known)
  BY <1>2 DEF WalksSound
<1> QED
  BY <1>1, <1>3 DEF WalksSound

\* A step that changes it as it learns more of a commit.
LEMMA NodeWalks ==
  ASSUME TypeOK, WalksSound, cursor' = cursor, progress' = progress,
         NEW r, prep'.progress.rows = [prep.progress.rows EXCEPT ![Current] = r],
         NEW c \in Commit, NEW v \in {"entered", "covered"},
         prep'.nodes = [prep.nodes EXCEPT ![c] = v],
         Known[c] = "covered" => v = "covered",
         v = "covered" => AllCovered(c),
         \A M \in [Commit -> Node] :
           M = [Known EXCEPT ![c] = v] => RowSound(r, M)
  PROVE  WalksSound'
<1> DEFINE M == [Known EXCEPT ![c] = v]
<1>1. Known \in [Commit -> Node] /\ \A d \in Commit : Known[d] = NodeOf(d)
  BY KnownType
<1>2. M \in [Commit -> Node]
  BY <1>1 DEF Node
<1>3. Known' = M
  <2>1. prep.nodes \in [Commit -> Node]
    BY DEF TypeOK, Preparation
  <2>2. \A d \in Commit : NodeOf(d)' = M[d]
    BY <1>1, <2>1 DEF NodeOf
  <2> QED
    BY <1>1, <2>2 DEF Known
<1>4. \A d \in Commit : M[d] = IF d = c THEN v ELSE Known[d]
  BY <1>1
<1> HIDE DEF M
<1>5. \A b \in Branch : RowSound(prep.progress.rows[b], M)
  <2> SUFFICES ASSUME NEW b \in Branch PROVE RowSound(prep.progress.rows[b], M)
    OBVIOUS
  <2>1. prep.progress.rows[b] \in Row
    BY DEF TypeOK, Preparation, Progress
  <2>2. Grows(Known, M)
    BY <1>4 DEF Grows
  <2>3. RowSound(prep.progress.rows[b], Known)
    BY DEF WalksSound
  <2> QED
    BY <1>1, <1>2, <2>1, <2>2, <2>3, SoundGrows
<1>6. \A b \in Branch : RowSound(prep'.progress.rows[b], M)
  <2>1. prep.progress.rows \in [Branch -> Row]
    BY DEF TypeOK, Preparation, Progress
  <2> QED
    BY <1>2, <1>5, <2>1 DEF M
<1>7. Closed(M)
  <2> SUFFICES ASSUME NEW d \in Commit, M[d] = "covered", NEW p \in ParentsOf(d)
               PROVE  M[p] = "covered"
    BY DEF Closed
  <2>1. p \in Commit
    BY ParentTypes
  <2>2. Known[p] = "covered"
    <3>1. CASE d = c
      BY <1>1, <1>4, <2>1, <3>1 DEF AllCovered
    <3>2. CASE d # c
      BY <1>4, <3>2 DEF WalksSound, Closed
    <3> QED
      BY <3>1, <3>2
  <2> QED
    BY <1>4, <2>1, <2>2
<1> QED
  BY <1>3, <1>6, <1>7 DEF WalksSound

\* A step after which the preparation begins from a progress, or there is none.
LEMMA FreshWalks ==
  ASSUME NEW phase, NEW start, prep' = Opened(phase, start),
         cursor' \in [Commit -> Node], Closed(cursor'),
         \A b \in Branch : RowSound(progress'.rows[b], cursor'),
         \A b \in Branch : RowSound(start.rows[b], cursor')
  PROVE  WalksSound'
<1>1. prep'.nodes = Unknown /\ prep'.progress = start
  BY DEF Opened
<1>2. Known' = cursor'
  BY <1>1 DEF Known, NodeOf, Unknown
<1> QED
  BY <1>1, <1>2 DEF WalksSound

LEMMA UnknownClosed == Closed(Unknown)
BY DEF Closed, Unknown

LEMMA Initial == Init => Inv
<1> SUFFICES ASSUME Init PROVE Inv
  OBVIOUS
<1>1. TypeOK
  BY FreshTypes DEF Init, TypeOK
<1>2. Held /\ Attended
  BY DEF Init, Held, Attended, Unknown, Opened, Down
<1>3. \A b \in Branch : RowSound(NewProgress.rows[b], Unknown)
  BY NewSound
<1>4. Known = Unknown
  BY DEF Init, Known, NodeOf, Unknown, Opened
<1>5. WalksSound
  BY <1>3, <1>4, UnknownClosed DEF Init, WalksSound, Opened
<1> QED
  BY <1>1, <1>2, <1>5 DEF Inv

-----------------------------------------------------------------------------
(***************************************************************************)
(* The steps, one lemma each.                                              *)
(***************************************************************************)
LEMMA ReconfigureKeeps == ASSUME Inv, Reconfigure PROVE Inv'
<1>1. TypeOK'
  BY FreshTypes DEF Inv, Reconfigure, TypeOK
<1>2. Held' /\ Attended'
  BY DEF Inv, Reconfigure, Held, Attended, Unknown, Opened, Down
<1>3. WalksSound'
  <2>1. Unknown \in [Commit -> Node] /\ \A b \in Branch : RowSound(NewProgress.rows[b], Unknown)
    BY FreshTypes, NewSound
  <2> QED
    BY <2>1, UnknownClosed, FreshWalks DEF Reconfigure
<1> QED
  BY <1>1, <1>2, <1>3 DEF Inv

LEMMA AbandonKeeps == ASSUME Inv, Abandon PROVE Inv'
<1>1. TypeOK'
  BY FreshTypes DEF Inv, Abandon, TypeOK
<1>2. Held' /\ Attended'
  BY DEF Inv, Abandon, Held, Attended, Unknown, Opened, Down
<1>3. WalksSound'
  <2>1. /\ cursor' \in [Commit -> Node] /\ Closed(cursor')
        /\ \A b \in Branch : RowSound(progress'.rows[b], cursor')
        /\ \A b \in Branch : RowSound(NewProgress.rows[b], cursor')
    BY NewSound DEF Inv, TypeOK, WalksSound, Abandon
  <2> QED
    BY <2>1, FreshWalks DEF Abandon
<1> QED
  BY <1>1, <1>2, <1>3 DEF Inv

LEMMA OpenKeeps == ASSUME Inv, Open PROVE Inv'
<1>1. TypeOK'
  BY FreshTypes DEF Inv, Open, TypeOK
<1>2. Held' /\ Attended'
  BY DEF Inv, Open, Held, Attended, Unknown, Opened
<1>3. WalksSound'
  <2>1. /\ cursor' \in [Commit -> Node] /\ Closed(cursor')
        /\ \A b \in Branch : RowSound(progress'.rows[b], cursor')
        /\ \A b \in Branch : RowSound(progress.rows[b], cursor')
    BY DEF Inv, TypeOK, WalksSound, Open
  <2> QED
    BY <2>1, FreshWalks DEF Open
<1> QED
  BY <1>1, <1>2, <1>3 DEF Inv

LEMMA StartKeeps == ASSUME Inv, Start PROVE Inv'
<1>1. TypeOK'
  BY BoundsAssumption DEF Inv, Start, TypeOK, Process, Down
<1>2. Held' /\ Attended'
  BY BoundsAssumption DEF Inv, Start, Held, Attended, Down
<1>3. WalksSound'
  BY SameWalks DEF Inv, Start
<1> QED
  BY <1>1, <1>2, <1>3 DEF Inv

LEMMA ObserveKeeps == ASSUME Inv, NEW sha \in Commit, Observe(sha) PROVE Inv'
<1> DEFINE fresh == row.stack = <<>> /\ row.completed # sha
           frame == [sha |-> sha, exiting |-> FALSE]
           r == IF fresh THEN [row EXCEPT !.target = sha, !.stack = <<frame>>] ELSE row
<1>1. Current \in Branch /\ row \in Row
  BY CurrentType DEF Inv
<1>2. /\ proc.at < Branches /\ proc.pc = "branch"
      /\ prep' = [prep EXCEPT !.seen[Current] = sha, !.progress.rows[Current] = r]
      /\ proc' = [proc EXCEPT !.pc = IF fresh \/ row.stack # <<>> THEN "walk" ELSE "read"]
      /\ UNCHANGED <<received, cursor, progress>>
  BY DEF Observe, Goto
<1>3. frame \in Frame /\ <<frame>> \in Seq(Frame) /\ <<frame>>[1] = frame
      /\ Len(<<frame>>) = 1 /\ <<frame>> # <<>>
  BY DEF Frame
<1>4. r \in Row
  BY <1>1, <1>3 DEF Row, Sha
<1>5. RowSound(r, Known)
  <2>1. RowSound(row, Known)
    BY <1>1 DEF Inv, WalksSound, row
  <2>2. CASE fresh
    <3>1. r.stack = <<frame>> /\ r.target = sha /\ r.completed = row.completed
      BY <1>1, <2>2 DEF Row
    <3>2. Owed(<<frame>>, Known)
      <4>1. DOMAIN <<frame>> = {1}
        OBVIOUS
      <4> QED
        BY <1>3, <4>1 DEF Owed
    <3> HIDE DEF r
    <3> QED
      BY <1>3, <2>1, <3>1, <3>2 DEF RowSound
  <2>3. CASE ~fresh
    BY <2>1, <2>3
  <2> QED
    BY <2>2, <2>3
<1> HIDE DEF r, fresh
<1>6. prep \in Preparation /\ prep.progress.rows \in [Branch -> Row]
  BY DEF Inv, TypeOK, Preparation, Progress
<1>7. /\ prep'.progress.rows = [prep.progress.rows EXCEPT ![Current] = r]
      /\ prep'.progress.offset = prep.progress.offset
      /\ prep'.nodes = prep.nodes /\ prep'.items = prep.items /\ prep'.left = prep.left
      /\ prep'.phase = prep.phase /\ prep'.short = prep.short
  BY <1>2, <1>6 DEF Preparation, Progress
<1>8. TypeOK'
  <2>1. prep' \in Preparation
    BY <1>1, <1>2, <1>4, <1>6 DEF Preparation, Progress, Sha
  <2>2. proc' \in Process
    BY <1>2 DEF Inv, TypeOK, Process
  <2> QED
    BY <1>2, <2>1, <2>2 DEF Inv, TypeOK
<1>9. Held'
  BY <1>2, <1>7 DEF Inv, Held
<1>10. Attended'
  BY <1>2, <1>7 DEF Inv, TypeOK, Process, Attended
<1>11. WalksSound'
  BY <1>2, <1>5, <1>7, RowWalks DEF Inv
<1> QED
  BY <1>8, <1>9, <1>10, <1>11 DEF Inv

\* What the steps of a walk have in common.
LEMMA WalkingFacts ==
  ASSUME Inv, Walking
  PROVE  /\ Current \in Branch /\ row \in Row /\ RowSound(row, Known)
         /\ row.stack \in Seq(Frame) /\ Len(row.stack) \in DOMAIN row.stack
         /\ Top = row.stack[Len(row.stack)] /\ Top \in Frame /\ Top.sha \in Commit
         /\ Known \in [Commit -> Node] /\ Known[Top.sha] = NodeOf(Top.sha)
         /\ proc.remaining \in Nat \ {0} /\ prep.phase = "open"
<1>1. Current \in Branch /\ row \in Row
  BY CurrentType DEF Inv
<1>2. RowSound(row, Known)
  BY <1>1 DEF Inv, WalksSound, row
<1>3. row.stack # <<>>
  BY DEF Walking
<1>4. row.stack \in Seq(Frame) /\ DOMAIN row.stack = 1..Len(row.stack) /\ Len(row.stack) \in Nat \ {0}
  BY <1>1, <1>3, RowTypes, EmptySeq
<1>5. Len(row.stack) \in DOMAIN row.stack
  BY <1>4
<1>6. Top = row.stack[Len(row.stack)] /\ Top \in Frame /\ Top.sha \in Commit
  BY <1>1, <1>5, RowTypes DEF Top
<1>7. Known \in [Commit -> Node] /\ Known[Top.sha] = NodeOf(Top.sha)
  BY <1>6, KnownType DEF Inv
<1>8. proc.remaining \in Nat \ {0} /\ prep.phase = "open"
  BY BoundsAssumption DEF Inv, TypeOK, Process, Walking, Attended
<1> QED
  BY <1>1, <1>2, <1>4, <1>5, <1>6, <1>7, <1>8

\* A step of a walk that gives the row another stack and may learn more of a commit.
LEMMA WalkStep ==
  ASSUME Inv, Walking, StepTaken, UNCHANGED <<received, cursor, progress>>,
         NEW r \in Row, NEW nodes \in [Commit -> Node],
         prep' = [prep EXCEPT !.nodes = nodes, !.progress.rows[Current] = r],
         \A c \in Commit : nodes[c] # "unknown" => c \in received \cup prep.items
  PROVE  /\ TypeOK' /\ Held' /\ Attended'
         /\ prep'.nodes = nodes
         /\ prep'.progress.rows = [prep.progress.rows EXCEPT ![Current] = r]
<1>1. prep \in Preparation /\ prep.progress \in Progress
      /\ prep.progress.rows \in [Branch -> Row] /\ Current \in Branch
  BY CurrentType DEF Inv, TypeOK, Preparation, Progress
<1>2. /\ prep'.progress.rows = [prep.progress.rows EXCEPT ![Current] = r]
      /\ prep'.nodes = nodes /\ prep'.items = prep.items /\ prep'.left = prep.left
      /\ prep'.phase = prep.phase /\ prep'.short = prep.short
  BY <1>1 DEF Preparation, Progress
<1>3. prep' \in Preparation
  BY <1>1 DEF Preparation, Progress
<1>4. proc' \in Process /\ proc'.pc = proc.pc /\ proc'.at = proc.at /\ proc.pc = "walk"
  <2>1. proc \in Process /\ proc.remaining \in Nat \ {0} /\ GraphSteps \in Nat
    BY WalkingFacts, BoundsAssumption DEF Inv, TypeOK
  <2>2. proc.remaining - 1 \in 0..GraphSteps
    BY <2>1 DEF Process
  <2> QED
    BY <2>1, <2>2 DEF StepTaken, Process, Walking
<1>5. TypeOK'
  BY <1>3, <1>4 DEF Inv, TypeOK
<1>6. Held'
  BY <1>2, WalkingFacts DEF Inv, Held
<1>7. Attended'
  BY <1>2, <1>4, WalkingFacts DEF Inv, Attended
<1> QED
  BY <1>2, <1>5, <1>6, <1>7

LEMMA SkipKeeps == ASSUME Inv, Skip PROVE Inv'
<1> DEFINE r == Shortened(row)
<1>1. Walking /\ StepTaken /\ UNCHANGED <<received, cursor, progress>>
  BY DEF Skip
<1>2. NodeOf(Top.sha) = "covered" /\ prep' = [prep EXCEPT !.progress.rows[Current] = r]
  BY DEF Skip, IsFrontier, SaveRow, Popped, Shortened
<1>3. r \in Row /\ RowSound(r, Known)
  <2>1. row.stack # <<>>
    BY <1>1 DEF Walking
  <2> QED
    BY <1>1, <1>2, <2>1, WalkingFacts, PoppedSound
<1> HIDE DEF r
<1>4. prep \in Preparation /\ prep.nodes \in [Commit -> Node]
  BY DEF Inv, TypeOK, Preparation
<1>5. prep' = [prep EXCEPT !.nodes = prep.nodes, !.progress.rows[Current] = r]
  BY <1>2, <1>4 DEF Preparation
<1>6. \A c \in Commit : prep.nodes[c] # "unknown" => c \in received \cup prep.items
  BY DEF Inv, Held
<1>7. /\ TypeOK' /\ Held' /\ Attended' /\ prep'.nodes = prep.nodes
      /\ prep'.progress.rows = [prep.progress.rows EXCEPT ![Current] = r]
  BY <1>1, <1>3, <1>4, <1>5, <1>6, WalkStep
<1>8. WalksSound'
  BY <1>1, <1>3, <1>7, RowWalks DEF Inv
<1> QED
  BY <1>7, <1>8 DEF Inv

\* What is known once a walk has learned v of the commit on top.
LEMMA LearnFacts ==
  ASSUME Inv, Walking, NEW v \in {"entered", "covered"},
         Known[Top.sha] = "covered" => v = "covered",
         NEW M \in [Commit -> Node], M = [Known EXCEPT ![Top.sha] = v]
  PROVE  RowSound(row, M) /\ M[Top.sha] = v
<1>1. Known \in [Commit -> Node] /\ Top.sha \in Commit /\ row \in Row /\ RowSound(row, Known)
  BY WalkingFacts
<1>2. \A d \in Commit : M[d] = IF d = Top.sha THEN v ELSE Known[d]
  BY <1>1
<1>3. Grows(Known, M)
  BY <1>1, <1>2 DEF Grows
<1> QED
  BY <1>1, <1>2, <1>3, SoundGrows

LEMMA LeaveKeeps == ASSUME Inv, Leave PROVE Inv'
<1> DEFINE r == Shortened(row)
           c == Top.sha
           nodes == [prep.nodes EXCEPT ![c] = "covered"]
<1>1. /\ Walking /\ StepTaken /\ UNCHANGED <<received, cursor, progress>>
      /\ NodeOf(c) = "entered" /\ AllCovered(c)
  BY DEF Leave
<1>2. /\ prep.nodes \in [Commit -> Node] /\ c \in Commit
      /\ prep \in Preparation /\ prep.progress \in Progress
      /\ prep.progress.rows \in [Branch -> Row] /\ Current \in Branch
      /\ row = prep.progress.rows[Current] /\ row.stack # <<>> /\ row \in Row
      /\ Known[c] = "entered"
  BY <1>1, WalkingFacts DEF Inv, TypeOK, Preparation, Progress, row, Walking
<1>3. \A M \in [Commit -> Node] :
        M = [Known EXCEPT ![c] = "covered"] => r \in Row /\ RowSound(r, M)
  <2> SUFFICES ASSUME NEW M \in [Commit -> Node], M = [Known EXCEPT ![c] = "covered"]
               PROVE  r \in Row /\ RowSound(r, M)
    OBVIOUS
  <2>1. RowSound(row, M) /\ M[c] = "covered"
    BY <1>1, LearnFacts
  <2>2. c = row.stack[Len(row.stack)].sha
    BY DEF Top
  <2> HIDE DEF c, r
  <2> QED
    BY <1>2, <2>1, <2>2, PoppedSound DEF r
<1>4. r \in Row
  <2>1. [Known EXCEPT ![c] = "covered"] \in [Commit -> Node]
    BY <1>1, WalkingFacts DEF Node
  <2> QED
    BY <1>3, <2>1
<1>5. nodes \in [Commit -> Node]
  BY <1>2 DEF Node
<1>6. prep' = [prep EXCEPT !.nodes = nodes, !.progress.rows[Current] = r]
  BY <1>2 DEF Leave, Popped, Shortened, Preparation, Progress
<1>7. \A d \in Commit : nodes[d] # "unknown" => d \in received \cup prep.items
  <2>1. c \in received \cup prep.items
    BY <1>1, <1>2 DEF Inv, Held, NodeOf
  <2> QED
    BY <1>2, <2>1 DEF Inv, Held
<1> HIDE DEF r, nodes
<1>8. /\ TypeOK' /\ Held' /\ Attended' /\ prep'.nodes = nodes
      /\ prep'.progress.rows = [prep.progress.rows EXCEPT ![Current] = r]
  BY <1>1, <1>4, <1>5, <1>6, <1>7, WalkStep
<1>9. WalksSound'
  <2> HIDE DEF c
  <2> QED
    BY <1>1, <1>2, <1>3, <1>8, NodeWalks DEF Inv, nodes
<1> QED
  BY <1>8, <1>9 DEF Inv

LEMMA EnterKeeps == ASSUME Inv, Enter PROVE Inv'
<1> DEFINE c == Top.sha
           r == Deepened(row, c)
           nodes == IF NodeOf(c) = "unknown"
                    THEN [prep.nodes EXCEPT ![c] = "entered"] ELSE prep.nodes
<1>1. /\ Walking /\ StepTaken /\ UNCHANGED <<received, cursor, progress>>
      /\ \/ NodeOf(c) = "entered"
         \/ NodeOf(c) = "unknown" /\ c \in prep.items
  BY DEF Enter
<1>2. /\ prep.nodes \in [Commit -> Node] /\ c \in Commit
      /\ prep \in Preparation /\ prep.progress \in Progress
      /\ prep.progress.rows \in [Branch -> Row] /\ Current \in Branch
      /\ row = prep.progress.rows[Current] /\ row.stack # <<>> /\ row \in Row
      /\ Known[c] = NodeOf(c) /\ Known \in [Commit -> Node] /\ RowSound(row, Known)
  BY <1>1, WalkingFacts DEF Inv, TypeOK, Preparation, Progress, row, Walking
<1>3. \A M \in [Commit -> Node] :
        RowSound(row, M) /\ M[c] = "entered" => r \in Row /\ RowSound(r, M)
  <2> SUFFICES ASSUME NEW M \in [Commit -> Node], RowSound(row, M), M[c] = "entered"
               PROVE  r \in Row /\ RowSound(r, M)
    OBVIOUS
  <2>1. c = row.stack[Len(row.stack)].sha
    BY DEF Top
  <2> HIDE DEF c
  <2> QED
    BY <1>2, <2>1, EnteredSound
<1>4. \A M \in [Commit -> Node] :
        M = [Known EXCEPT ![c] = "entered"] => r \in Row /\ RowSound(r, M)
  BY <1>1, <1>2, <1>3, LearnFacts
<1>5. r \in Row
  <2>1. [Known EXCEPT ![c] = "entered"] \in [Commit -> Node]
    BY <1>2 DEF Node
  <2> QED
    BY <1>4, <2>1
<1>6. nodes \in [Commit -> Node]
  BY <1>2 DEF Node
<1>7. prep' = [prep EXCEPT !.nodes = nodes, !.progress.rows[Current] = r]
  BY <1>2 DEF Enter, Popped, Deepened, Entered, Preparation, Progress
<1>8. \A d \in Commit : nodes[d] # "unknown" => d \in received \cup prep.items
  BY <1>1, <1>2 DEF Inv, Held
<1> HIDE DEF r
<1>9. /\ TypeOK' /\ Held' /\ Attended' /\ prep'.nodes = nodes
      /\ prep'.progress.rows = [prep.progress.rows EXCEPT ![Current] = r]
  <2> HIDE DEF nodes
  <2> QED
    BY <1>1, <1>5, <1>6, <1>7, <1>8, WalkStep
<1>10. WalksSound'
  <2> HIDE DEF c
  <2>1. CASE NodeOf(c) = "unknown"
    BY <1>1, <1>2, <1>4, <1>9, <2>1, NodeWalks DEF Inv
  <2>2. CASE NodeOf(c) = "entered"
    <3>1. RowSound(r, Known) /\ nodes = prep.nodes
      BY <1>2, <1>3, <2>2
    <3> QED
      BY <1>1, <1>9, <3>1, RowWalks DEF Inv
  <2> QED
    BY <1>1, <2>1, <2>2
<1> QED
  BY <1>9, <1>10 DEF Inv

LEMMA CollectKeeps == ASSUME Inv, NEW gap \in BOOLEAN, Collect(gap) PROVE Inv'
<1>1. /\ Walking /\ UNCHANGED <<received, cursor, progress, proc>>
      /\ prep' = [prep EXCEPT !.items = @ \cup {Top.sha}, !.short = @ \/ gap]
  BY DEF Collect
<1>2. /\ prep \in Preparation /\ Top.sha \in Commit /\ prep.phase = "open"
      /\ prep.short \in BOOLEAN /\ prep.items \in SUBSET Commit
  BY <1>1, WalkingFacts DEF Inv, TypeOK, Preparation
<1>3. /\ prep'.items = prep.items \cup {Top.sha} /\ prep'.nodes = prep.nodes
      /\ prep'.progress = prep.progress /\ prep'.phase = prep.phase
  BY <1>1, <1>2 DEF Preparation
<1>4. TypeOK'
  <2>1. (prep.short \/ gap) \in BOOLEAN
    BY <1>2
  <2>2. prep' \in Preparation
    BY <1>1, <1>2, <2>1 DEF Preparation
  <2> QED
    BY <1>1, <2>2 DEF Inv, TypeOK
<1>5. Held'
  BY <1>1, <1>2, <1>3 DEF Inv, Held
<1>6. Attended'
  <2>1. row' = row
    BY <1>1, <1>3 DEF row, Current
  <2> QED
    BY <1>1, <1>3, <2>1 DEF Inv, Attended
<1>7. WalksSound'
  BY <1>1, <1>3, SameWalks DEF Inv
<1> QED
  BY <1>4, <1>5, <1>6, <1>7 DEF Inv

LEMMA EndWalkKeeps == ASSUME Inv, EndWalk PROVE Inv'
<1>1. TypeOK'
  BY DEF Inv, EndWalk, Goto, TypeOK, Process
<1>2. /\ proc'.at = proc.at /\ prep' = prep /\ proc.pc = "walk"
      /\ proc'.pc = IF row.stack = <<>> THEN "walked" ELSE "read"
  BY DEF Inv, EndWalk, Goto, TypeOK, Process
<1>3. row' = row
  BY <1>2 DEF row, Current
<1>4. Held' /\ Attended'
  BY <1>2, <1>3 DEF Inv, EndWalk, Held, Attended
<1>5. WalksSound'
  BY SameWalks DEF Inv, EndWalk
<1> QED
  BY <1>1, <1>4, <1>5 DEF Inv

\* A walk that is over has covered its target, which the branch then has completed.
LEMMA CompletedSound ==
  ASSUME Inv
  PROVE  Completed \in Row /\ RowSound(Completed, Known)
<1>1. row \in Row /\ RowSound(row, Known)
  BY CurrentType DEF Inv, WalksSound, row
<1>2. CASE proc.pc = "walked"
  <2>1. row.stack = <<>>
    BY <1>2 DEF Inv, Attended
  <2>2. /\ Completed \in Row /\ Completed.stack = row.stack
        /\ Completed.completed = row.target /\ Completed.target = None
    BY <1>1, <1>2 DEF Completed, Row, Sha
  <2> QED
    BY <1>1, <2>1, <2>2 DEF RowSound
<1>3. CASE proc.pc # "walked"
  BY <1>1, <1>3 DEF Completed
<1> QED
  BY <1>2, <1>3

\* A step that saves the branch as completed, or as it is.
LEMMA SavedBranch ==
  ASSUME Inv, proc.pc # "down", UNCHANGED <<received, cursor, progress>>,
         NEW short \in BOOLEAN, prep.short => short,
         prep' = [prep EXCEPT !.progress.rows[Current] = Completed, !.short = short],
         proc' \in Process, proc'.pc \in {"down", "branch"}
  PROVE  Inv'
<1>1. /\ prep \in Preparation /\ prep.progress \in Progress
      /\ prep.progress.rows \in [Branch -> Row] /\ Current \in Branch
      /\ Completed \in Row /\ RowSound(Completed, Known) /\ prep.phase = "open"
  BY CurrentType, CompletedSound DEF Inv, TypeOK, Preparation, Progress, Attended
<1>2. /\ prep'.progress.rows = [prep.progress.rows EXCEPT ![Current] = Completed]
      /\ prep'.nodes = prep.nodes /\ prep'.items = prep.items /\ prep'.phase = "open"
  BY <1>1 DEF Preparation, Progress
<1>3. prep' \in Preparation
  BY <1>1 DEF Preparation, Progress
<1>4. TypeOK'
  BY <1>3 DEF Inv, TypeOK
<1>5. Held' /\ Attended'
  BY <1>2 DEF Inv, Held, Attended
<1>6. WalksSound'
  <2>1. TypeOK /\ WalksSound
    BY DEF Inv
  <2> QED
    BY <1>1, <1>2, <2>1, RowWalks
<1> QED
  BY <1>4, <1>5, <1>6 DEF Inv

LEMMA EndBranchKeeps == ASSUME Inv, NEW gap \in BOOLEAN, EndBranch(gap) PROVE Inv'
<1> DEFINE short == prep.short \/ gap
<1>1. /\ proc.pc # "down" /\ proc.at < Branches
      /\ UNCHANGED <<received, cursor, progress>>
      /\ prep' = [prep EXCEPT !.progress.rows[Current] = Completed, !.short = short]
      /\ proc' = [proc EXCEPT !.pc = "branch", !.at = @ + 1]
  BY DEF EndBranch, Inv, Attended
<1>2. short \in BOOLEAN /\ (prep.short => short)
  BY DEF Inv, TypeOK, Preparation
<1>3. proc' \in Process /\ proc'.pc = "branch"
  <2>1. proc \in Process /\ proc.at \in 0..Branches /\ Branches \in Nat
    BY BoundsAssumption DEF Inv, TypeOK, Process
  <2>2. proc.at + 1 \in 0..Branches
    BY <1>1, <2>1
  <2> QED
    BY <1>1, <2>1, <2>2 DEF Process
<1> HIDE DEF short
<1> QED
  BY <1>1, <1>2, <1>3, SavedBranch

LEMMA PauseKeeps == ASSUME Inv, Pause PROVE Inv'
<1>1. /\ proc.pc # "down" /\ proc' = Down
      /\ UNCHANGED <<received, cursor, progress>>
  BY DEF Pause
<1>2. proc' \in Process /\ proc'.pc = "down"
  BY <1>1, FreshTypes DEF Down
<1>3. prep \in Preparation /\ prep.short \in BOOLEAN
  BY DEF Inv, TypeOK, Preparation
<1>4. prep' = [prep EXCEPT !.progress.rows[Current] = Completed, !.short = prep.short]
  <2>1. CASE proc.pc = "walked"
    BY <1>3, <2>1 DEF Pause, Preparation
  <2>2. CASE proc.pc # "walked"
    <3>1. Completed = prep.progress.rows[Current] /\ prep' = prep
      BY <2>2 DEF Pause, Completed, row
    <3>2. prep.progress \in Progress /\ prep.progress.rows \in [Branch -> Row]
      BY <1>3 DEF Preparation, Progress
    <3> QED
      BY ZenonT(60), <1>3, <3>1, <3>2 DEF Preparation, Progress
  <2> QED
    BY <2>1, <2>2
<1> QED
  BY <1>1, <1>2, <1>3, <1>4, SavedBranch

LEMMA EndGraphKeeps == ASSUME Inv, EndGraph PROVE Inv'
<1>1. /\ UNCHANGED <<received, cursor, progress>>
      /\ prep' = [prep EXCEPT !.done = TRUE, !.progress.offset = Turned(@)]
      /\ proc' = [proc EXCEPT !.pc = "prepared"] /\ proc.pc = "branch"
  BY DEF EndGraph, Goto
<1>2. /\ prep \in Preparation /\ prep.progress \in Progress
      /\ prep.progress.offset \in 0..(Branches - 1) /\ Branches \in Nat \ {0}
      /\ proc \in Process
  BY BoundsAssumption DEF Inv, TypeOK, Preparation, Progress
<1>3. Turned(prep.progress.offset) \in 0..(Branches - 1)
  BY <1>2 DEF Turned
<1>4. prep' \in Preparation /\ proc' \in Process /\ proc'.pc = "prepared"
  BY <1>1, <1>2, <1>3 DEF Preparation, Progress, Process
<1>5. /\ prep'.progress.rows = prep.progress.rows /\ prep'.nodes = prep.nodes
      /\ prep'.items = prep.items /\ prep'.left = prep.left
      /\ prep'.phase = prep.phase /\ prep'.short = prep.short
  BY <1>1, <1>2 DEF Preparation, Progress
<1>6. TypeOK'
  BY <1>1, <1>4 DEF Inv, TypeOK
<1>7. Held' /\ Attended'
  BY <1>1, <1>4, <1>5 DEF Inv, Held, Attended
<1>8. WalksSound'
  BY <1>1, <1>5, SameWalks DEF Inv
<1> QED
  BY <1>6, <1>7, <1>8 DEF Inv

LEMMA CrashKeeps == ASSUME Inv, Crash PROVE Inv'
<1>1. TypeOK'
  BY FreshTypes DEF Inv, Crash, TypeOK
<1>2. Held' /\ Attended'
  BY DEF Inv, Crash, Held, Attended, Down
<1>3. WalksSound'
  BY SameWalks DEF Inv, Crash
<1> QED
  BY <1>1, <1>2, <1>3 DEF Inv

LEMMA SealKeeps == ASSUME Inv, Seal PROVE Inv'
<1>1. prep \in Preparation
  BY DEF Inv, TypeOK
<1>2. /\ prep'.phase = "sealed" /\ prep'.left = prep.items /\ prep'.items = prep.items
      /\ prep'.nodes = prep.nodes /\ prep'.progress = prep.progress
      /\ prep' \in Preparation
  BY <1>1 DEF Seal, Preparation
<1>3. TypeOK'
  BY <1>2, FreshTypes DEF Inv, Seal, TypeOK
<1>4. Held' /\ Attended'
  BY <1>2 DEF Inv, Seal, Held, Attended, Down
<1>5. WalksSound'
  BY <1>2, SameWalks DEF Inv, Seal
<1> QED
  BY <1>3, <1>4, <1>5 DEF Inv

LEMMA IngestKeeps == ASSUME Inv, NEW blocked \in BOOLEAN, Ingest(blocked) PROVE Inv'
<1> DEFINE item == CHOOSE i \in prep.left : TRUE
<1>1. /\ prep.phase = "sealed" /\ item \in prep.left
      /\ received' = IF blocked THEN received ELSE received \cup {item}
      /\ prep' = [prep EXCEPT !.left = @ \ {item}, !.short = @ \/ blocked]
      /\ UNCHANGED <<cursor, progress, proc>>
  BY DEF Ingest
<1> HIDE DEF item
<1>2. prep \in Preparation /\ prep.left \in SUBSET Commit /\ prep.short \in BOOLEAN
  BY DEF Inv, TypeOK, Preparation
<1>3. /\ prep'.phase = "sealed" /\ prep'.left = prep.left \ {item}
      /\ prep'.items = prep.items /\ prep'.nodes = prep.nodes
      /\ prep'.progress = prep.progress /\ prep'.short = (prep.short \/ blocked)
  BY <1>1, <1>2 DEF Preparation
<1>4. prep' \in Preparation
  <2>1. (prep.short \/ blocked) \in BOOLEAN
    BY <1>2
  <2> QED
    BY <1>1, <1>2, <2>1 DEF Preparation
<1>5. received \subseteq received' /\ received' \in SUBSET Commit
  BY <1>1, <1>2 DEF Inv, TypeOK
<1>6. TypeOK'
  BY <1>1, <1>4, <1>5 DEF Inv, TypeOK
<1>7. Held'
  <2>1. ~prep'.short => prep.items \subseteq received' \cup prep'.left
    BY <1>1, <1>3 DEF Inv, Held
  <2> QED
    BY <1>1, <1>3, <1>5, <2>1 DEF Inv, Held
<1>8. Attended'
  BY <1>1, <1>3 DEF Inv, Attended
<1>9. WalksSound'
  BY <1>1, <1>3, SameWalks DEF Inv
<1> QED
  BY <1>6, <1>7, <1>8, <1>9 DEF Inv

\* A clean batch makes what its preparation knows the state of the revision.
LEMMA FinishKeeps == ASSUME Inv, Finish PROVE Inv'
<1>1. /\ prep.phase = "sealed" /\ prep.left = {} /\ prep' = Opened("none", NewProgress)
      /\ UNCHANGED <<received, proc>> /\ proc.pc = "down"
      /\ \/ ~prep.short /\ cursor' = Known /\ progress' = prep.progress
         \/ UNCHANGED <<cursor, progress>>
  BY DEF Finish, Clean, Known, Inv, Attended
<1>2. Known \in [Commit -> Node] /\ prep.progress \in Progress
  BY KnownType DEF Inv, TypeOK, Preparation
<1>3. TypeOK'
  BY <1>1, <1>2, FreshTypes DEF Inv, TypeOK
<1>4. \A c \in Commit : cursor'[c] # "unknown" => c \in received
  <2>1. CASE UNCHANGED <<cursor, progress>>
    BY <2>1 DEF Inv, Held
  <2>2. CASE ~prep.short /\ cursor' = Known
    <3>1. prep.items \subseteq received
      BY <1>1, <2>2 DEF Inv, Held
    <3>2. \A c \in Commit : Known[c] = NodeOf(c)
      BY KnownType DEF Inv
    <3> QED
      BY <2>2, <3>1, <3>2 DEF Inv, Held, NodeOf
  <2> QED
    BY <1>1, <2>1, <2>2
<1>5. Held' /\ Attended'
  BY <1>1, <1>4 DEF Held, Attended, Unknown, Opened
<1>6. WalksSound'
  <2>1. /\ cursor' \in [Commit -> Node] /\ Closed(cursor')
        /\ \A b \in Branch : RowSound(progress'.rows[b], cursor')
    BY <1>1, <1>2 DEF Inv, TypeOK, WalksSound
  <2>2. \A b \in Branch : RowSound(NewProgress.rows[b], cursor')
    BY NewSound
  <2> QED
    BY <1>1, <2>1, <2>2, FreshWalks
<1> QED
  BY <1>3, <1>5, <1>6 DEF Inv

LEMMA NextKeeps == Inv /\ [Next]_vars => Inv'
<1> SUFFICES ASSUME Inv, [Next]_vars PROVE Inv'
  OBVIOUS
<1>1. CASE UNCHANGED vars
  <2>1. Known' = Known /\ row' = row
    BY <1>1 DEF vars, Known, NodeOf, row, Current
  <2> QED
    BY <1>1, <2>1 DEF vars, Inv, TypeOK, Held, Attended, WalksSound
<1>2. CASE Work
  BY <1>2, OpenKeeps, StartKeeps, ObserveKeeps, SkipKeeps, LeaveKeeps, EnterKeeps,
     EndWalkKeeps, EndGraphKeeps, SealKeeps, FinishKeeps, CollectKeeps, EndBranchKeeps,
     IngestKeeps DEF Work
<1>3. CASE Fault
  BY <1>3, PauseKeeps, CrashKeeps, AbandonKeeps, ReconfigureKeeps, CollectKeeps,
     EndBranchKeeps, IngestKeeps DEF Fault
<1> QED
  BY <1>1, <1>2, <1>3 DEF Next

-----------------------------------------------------------------------------
(***************************************************************************)
(* The theorems.                                                           *)
(***************************************************************************)
LEMMA Invariant == Spec => []Inv
BY Initial, NextKeeps, PTL DEF Spec

(***************************************************************************)
(* Types: what the preparation, the cursors and the process may hold.      *)
(***************************************************************************)
THEOREM WalkTypes == Spec => []TypeOK
BY Invariant, PTL DEF Inv

\* Covered commits are closed under parents: each has its whole history among them.
LEMMA CoveredIsWhole ==
  ASSUME NEW N \in [Commit -> Node], Closed(N), NEW commits,
         \A c \in Commit : N[c] = "covered" => c \in commits,
         NEW sha \in Commit, N[sha] = "covered"
  PROVE  Whole(sha, commits)
<1> DEFINE S == {c \in Commit : N[c] = "covered"}
<1>1. S \in SUBSET commits /\ sha \in S
  OBVIOUS
<1>2. \A c \in S : ParentsOf(c) \subseteq S
  BY ParentTypes DEF Closed
<1> QED
  BY <1>1, <1>2 DEF Whole

(***************************************************************************)
(* A head that is called completed (progress, after advance) has its whole *)
(* history archived, for every graph and every way branches move.          *)
(***************************************************************************)
THEOREM CompletedArchived == Spec => []CompletedIsArchived
<1>1. Inv => CompletedIsArchived
  <2> SUFFICES ASSUME Inv, NEW b \in Branch, progress.rows[b].completed # None
               PROVE  Whole(progress.rows[b].completed, received)
    BY DEF CompletedIsArchived
  <2> DEFINE sha == progress.rows[b].completed
  <2>1. progress.rows[b] \in Row
    BY DEF Inv, TypeOK, Progress
  <2>2. sha \in Commit /\ cursor[sha] = "covered"
    BY <2>1, RowTypes DEF Inv, WalksSound, RowSound, Sha
  <2>3. /\ cursor \in [Commit -> Node] /\ Closed(cursor)
        /\ \A c \in Commit : cursor[c] = "covered" => c \in received
    BY DEF Inv, TypeOK, WalksSound, Held
  <2> HIDE DEF sha
  <2>4. Whole(sha, received)
    BY <2>2, <2>3, CoveredIsWhole
  <2> QED
    BY <2>4 DEF sha
<1> QED
  BY <1>1, Invariant, PTL

(***************************************************************************)
(* What a sealed manifest declares complete (walk_complete of seal) will   *)
(* be in the archive once its items are.                                   *)
(***************************************************************************)
THEOREM DeclaredWhole == Spec => []DeclaredIsWhole
<1>1. Inv => DeclaredIsWhole
  <2> SUFFICES ASSUME Inv, NEW b \in Branch, prep.seen[b] # None,
                      prep.progress.rows[b].completed = prep.seen[b]
               PROVE  Whole(prep.seen[b], received \cup prep.items)
    BY DEF DeclaredIsWhole
  <2> DEFINE sha == prep.seen[b]
             commits == received \cup prep.items
  <2>1. prep.progress.rows[b] \in Row
    BY DEF Inv, TypeOK, Preparation, Progress
  <2>2. sha \in Commit /\ Known[sha] = "covered"
    BY <2>1, RowTypes DEF Inv, WalksSound, RowSound, Sha
  <2>3. /\ Known \in [Commit -> Node] /\ Closed(Known)
        /\ \A c \in Commit : Known[c] = NodeOf(c)
    BY KnownType DEF Inv, WalksSound
  <2>4. \A c \in Commit : Known[c] = "covered" => c \in commits
    BY <2>3 DEF Inv, Held, NodeOf
  <2> HIDE DEF sha, commits
  <2>5. Whole(sha, commits)
    BY <2>2, <2>3, <2>4, CoveredIsWhole
  <2> QED
    BY <2>5 DEF sha, commits
<1> QED
  BY <1>1, Invariant, PTL

(***************************************************************************)
(* The conflict walk reports when it leaves a commit is never of its own   *)
(* making, however walks are interrupted and share ancestors.              *)
(***************************************************************************)
THEOREM WalksAgreeAlways == Spec => []WalksAgree
<1>1. Inv => WalksAgree
  <2> SUFFICES ASSUME Inv, Walking, Top.exiting, NodeOf(Top.sha) # "covered"
               PROVE  NodeOf(Top.sha) = "entered" /\ AllCovered(Top.sha)
    BY DEF WalksAgree
  <2> DEFINE n == Len(row.stack)
             c == Top.sha
  <2>1. /\ row \in Row /\ Owed(row.stack, Known) /\ n \in DOMAIN row.stack
        /\ row.stack[n] = Top /\ c \in Commit /\ Known[c] = NodeOf(c)
    BY WalkingFacts DEF RowSound
  <2>2. \A j \in DOMAIN row.stack : ~(j > n)
    BY <2>1, RowTypes
  <2>3. Known[c] = "entered" /\ \A p \in ParentsOf(c) : Known[p] = "covered"
    BY <2>1, <2>2 DEF Owed
  <2>4. \A p \in ParentsOf(c) : Known[p] = NodeOf(p)
    BY <2>1, ParentTypes, KnownType DEF Inv
  <2> QED
    BY <2>1, <2>3, <2>4 DEF AllCovered
<1> QED
  BY <1>1, Invariant, PTL
=============================================================================
