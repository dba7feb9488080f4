------------------------- MODULE ConversationProofs -------------------------
(***************************************************************************)
(* Proofs about Conversation, for any number of records, questions and     *)
(* handlers.                                                               *)
(***************************************************************************)
EXTENDS Conversation, FiniteSetTheorems, TLAPS

(***************************************************************************)
(* The order of the questions.                                             *)
(***************************************************************************)
\* The questions asked so far are the first ones.
InOrder == \E n \in 0..MaxTurns : Asked = 1..n

LEMMA NextTurn ==
  ASSUME InOrder
  PROVE  LET t == Cardinality(Asked) + 1
         IN /\ t \in Nat /\ t \notin Asked
            /\ t \in Turn => \E n \in 0..MaxTurns : Asked \cup {t} = 1..n
<1>1. PICK n \in 0..MaxTurns : Asked = 1..n
  BY DEF InOrder
<1>2. Cardinality(Asked) = n
  BY <1>1, FS_Interval, BoundsAssumption
<1>3. Asked \cup {n + 1} = 1..(n + 1)
  BY <1>1, BoundsAssumption
<1>4. n + 1 \in Turn => n + 1 \in 0..MaxTurns
  BY BoundsAssumption DEF Turn
<1> QED
  BY <1>1, <1>2, <1>3, <1>4, BoundsAssumption

(***************************************************************************)
(* Type correctness.                                                       *)
(***************************************************************************)
LEMMA RowUpdates ==
  ASSUME TypeOK, NEW t \in Turn
  PROVE  /\ Absent(t) \in TurnRow /\ Failed(t) \in TurnRow /\ Redacted(t) \in TurnRow
         /\ \A s \in TERMINAL : [turn[t] EXCEPT !.state = s] \in TurnRow
         /\ \A s \in Stage : Begun(t, s) \in TurnRow
         /\ \A s \in Stage : [turn[t] EXCEPT !.sent = @ \cup {s}] \in TurnRow
         /\ \A text \in SUBSET Record :
              AnswerStored(t, text) \in TurnRow /\ Selected(t, text) \in TurnRow
         /\ \A branch \in {"search", "reuse"}, text \in SUBSET Record :
              Planned(t, branch, text) \in TurnRow
         /\ \A text \in SUBSET Record :
              Clarified(t, text) \in TurnRow
<1>0. turn[t] \in TurnRow
  BY DEF TypeOK
<1>1. Absent(t) \in TurnRow
  BY DEF Absent, TurnRow
<1>2. \A s \in TERMINAL : [turn[t] EXCEPT !.state = s] \in TurnRow
  BY <1>0 DEF TurnRow
<1>3. Failed(t) \in TurnRow
  BY <1>0 DEF TurnRow, Failed, TERMINAL
<1>4. Redacted(t) \in TurnRow
  BY <1>0 DEF TurnRow, Redacted, TERMINAL
<1>5. ASSUME NEW s \in Stage PROVE Begun(t, s) \in TurnRow
  <2>1. While[s] \in Running
    BY DEF While, Running, Stage
  <2>2. turn[t].stages \cup {s} \in SUBSET Stage
    BY <1>0 DEF TurnRow
  <2> QED
    BY <1>0, <2>1, <2>2 DEF TurnRow, Begun
<1>6. ASSUME NEW s \in Stage PROVE [turn[t] EXCEPT !.sent = @ \cup {s}] \in TurnRow
  BY <1>0 DEF TurnRow
<1>7. ASSUME NEW text \in SUBSET Record PROVE AnswerStored(t, text) \in TurnRow
  BY <1>0 DEF TurnRow, AnswerStored, TERMINAL
<1>8. ASSUME NEW text \in SUBSET Record PROVE Selected(t, text) \in TurnRow
  BY <1>0 DEF TurnRow, Selected, TERMINAL, Waiting
<1>9. ASSUME NEW branch \in {"search", "reuse"}, NEW text \in SUBSET Record
      PROVE  Planned(t, branch, text) \in TurnRow
  BY <1>0 DEF TurnRow, Planned, Waiting
<1>10. ASSUME NEW text \in SUBSET Record
       PROVE  Clarified(t, text) \in TurnRow
  <2>1. \A h \in Turn : turn[h].origin \in SUBSET Turn
    BY DEF TypeOK, TurnRow
  <2>2. OriginOf(t) \in SUBSET Turn
    BY <1>0, <2>1 DEF OriginOf, Newest, TurnRow
  <2> QED
    BY <1>0, <2>2 DEF TurnRow, Clarified, TERMINAL
<1> QED
  BY <1>1, <1>2, <1>3, <1>4, <1>5, <1>6, <1>7, <1>8, <1>9, <1>10

(***************************************************************************)
(* The inductive invariant.                                                *)
(*                                                                         *)
(* Sound: the shape of the state.  Lineage: what a question stores comes   *)
(* from its sources, which contain those of its history, and a deleted     *)
(* source leaves it redacted.  Duties: one handler at most is at work on a *)
(* stage, and what it carries comes from the question's sources.           *)
(***************************************************************************)
IsCompleted(t) == turn[t].state = "completed"

Shape ==
  /\ offered \subseteq present
  /\ \A t \in Turn : turn[t].state = "absent" => turn[t] = Absent(t)
  /\ InOrder
  /\ conv = "deleted" => Asked = {}
  /\ \A w \in Worker : wk[w].pc # "idle" => wk[w].turn \in Turn /\ wk[w].stage \in Stage
Sound == TypeOK /\ Shape

\* One row by itself, in a world of these records.
RowKept(row, records) ==
  /\ row.text \subseteq row.sources /\ row.direct \subseteq row.sources
  /\ row.sent \subseteq row.stages
  /\ row.redacted => row.text = {} /\ row.state \in TERMINAL
  /\ ~row.redacted => row.sources \subseteq records

\* A row and those it refers to.
Tied(t) ==
  /\ \A h \in turn[t].history : IsCompleted(h) /\ turn[h].sources \subseteq turn[t].sources
  /\ \A h \in turn[t].origin : IsCompleted(h)
  /\ turn[t].reference \subseteq turn[t].history
  /\ turn[t].root = t \/ IsCompleted(turn[t].root)

Lineage == \A t \in Turn : RowKept(turn[t], present) /\ Tied(t)

AtWork(w) == wk[w].pc # "idle"
Duty(w) ==
  LET row == turn[wk[w].turn]
  IN /\ wk[w].stage \in row.stages /\ wk[w].text \subseteq row.sources
     /\ wk[w].pc \in {"begun", "prepared"} => wk[w].stage \notin row.sent
Duties ==
  conv # "deleted" =>
    /\ \A w \in Worker : AtWork(w) => Duty(w)
    /\ \A v, w \in Worker : AtWork(v) /\ AtWork(w) /\ wk[v].turn = wk[w].turn
                            /\ wk[v].stage = wk[w].stage => v = w

Inv == Sound /\ Lineage /\ Duties

(***************************************************************************)
(* A new question.                                                         *)
(***************************************************************************)
IsContext(c, t) ==
  /\ c.history \subseteq Completed \cup {h \in Turn : IsCompleted(h)}
  /\ c.reference \subseteq c.history
  /\ c.root = t \/ c.root \in c.history

LEMMA Contexts ==
  ASSUME Sound, Lineage, NEW t
  PROVE  /\ IsContext(Alone(t), t)
         /\ \A b \in Turn : IsCompleted(b) => IsContext(About(b), t)
         /\ \A last \in Newest(Completed) : IsContext(Following(last), t)
<1>0. /\ \A h \in Turn : turn[h] \in TurnRow
      /\ Completed \subseteq {h \in Turn : IsCompleted(h)}
      /\ Answered \subseteq Completed
  BY DEF Sound, TypeOK, Completed, Asked, Answered, IsCompleted
<1>1. \A h \in Turn : IsCompleted(h) => IsCompleted(turn[h].root) /\ turn[h].root \in Turn
  BY <1>0 DEF Lineage, Tied, TurnRow
<1>2. IsContext(Alone(t), t)
  BY DEF IsContext, Alone
<1>3. ASSUME NEW b \in Turn, IsCompleted(b) PROVE IsContext(About(b), t)
  BY <1>1, <1>3 DEF IsContext, About
<1>4. ASSUME NEW last \in Newest(Completed) PROVE IsContext(Following(last), t)
  <2> DEFINE pending == turn[last].outcome = "clarification"
             origin == IF pending THEN turn[last].origin ELSE {}
             reference == IF pending /\ turn[last].reference # {} THEN turn[last].reference
                          ELSE Newest(Answered)
  <2>1. last \in Turn /\ IsCompleted(last)
    BY <1>0 DEF Newest
  <2>2. Tied(last) /\ turn[last].history \subseteq Turn /\ turn[last].origin \subseteq Turn
    BY <1>0, <2>1 DEF Lineage, TurnRow
  <2>3. origin \subseteq {h \in Turn : IsCompleted(h)}
    BY <2>2 DEF Tied
  <2>4. reference \subseteq {h \in Turn : IsCompleted(h)}
    BY <1>0, <2>2 DEF Tied, Newest
  <2>5. LastTwo(Completed) \subseteq {h \in Turn : IsCompleted(h)}
    BY <1>0 DEF LastTwo
  <2>6. Following(last) =
          [history |-> LastTwo(Completed) \cup origin \cup reference \cup {turn[last].root},
           reference |-> reference, root |-> turn[last].root]
    BY DEF Following
  <2>7. turn[last].root \in {h \in Turn : IsCompleted(h)}
    BY <1>1, <2>1
  <2> HIDE DEF pending, origin, reference
  <2> QED
    BY <2>3, <2>4, <2>5, <2>6, <2>7 DEF IsContext
<1> QED
  BY <1>2, <1>3, <1>4

LEMMA Claimed ==
  ASSUME Inv, NEW c, NEW e \in Nat, Claim(c, e), IsContext(c, Cardinality(Asked) + 1)
  PROVE  Inv'
<1>01. PICK t : t = Cardinality(Asked) + 1
  OBVIOUS
<1>02. PICK row : row =
         [Absent(t) EXCEPT !.state = "created", !.epoch = e, !.history = c.history,
                           !.reference = c.reference, !.root = c.root,
                           !.sources = Inherited(c.history)]
  OBVIOUS
<1>03. IsContext(c, t)
  BY <1>01
<1>1. /\ t \in Turn /\ t \notin Asked /\ conv = "active"
      /\ \E n \in 0..MaxTurns : Asked \cup {t} = 1..n
  BY <1>01, NextTurn DEF Claim, Inv, Sound, Shape
<1>2. /\ Inherited(c.history) \subseteq offered /\ turn' = [turn EXCEPT ![t] = row]
      /\ epoch' = e /\ stale' = FALSE /\ time' = "live"
      /\ UNCHANGED <<present, offered, conv, wk>>
  BY <1>01, <1>02 DEF Claim
<1>3. c.history \subseteq Turn /\ \A h \in c.history : IsCompleted(h)
  BY DEF IsContext, Completed, Asked, IsCompleted
<1>4. /\ row.state = "created" /\ row.history = c.history /\ row.reference = c.reference
      /\ row.root = c.root /\ row.origin = {} /\ row.stages = {} /\ row.sent = {}
      /\ row.sources = Inherited(c.history) /\ row.direct = {} /\ row.text = {}
      /\ row.redacted = FALSE
  BY <1>02 DEF Absent
<1>5. /\ TypeOK /\ turn[t].state = "absent" /\ offered \subseteq present /\ present \subseteq Record
  BY <1>1 DEF Inv, Sound, Shape, TypeOK, Asked
<1>6. row \in TurnRow
  <2>1. c.root \in Turn /\ c.reference \in SUBSET Turn /\ Inherited(c.history) \in SUBSET Record
    BY <1>03, <1>1, <1>2, <1>3, <1>5 DEF IsContext
  <2> QED
    BY <1>02, <1>3, <2>1 DEF TurnRow, Absent, Waiting
<1>7. /\ turn' \in [Turn -> TurnRow] /\ turn'[t] = row
      /\ \A u \in Turn : u # t => turn'[u] = turn[u]
  BY <1>1, <1>2, <1>5, <1>6 DEF TypeOK
<1>8. Asked' = Asked \cup {t}
  BY <1>1, <1>4, <1>7 DEF Asked
<1>9. Sound'
  <2>1. TypeOK'
    BY <1>2, <1>5, <1>7 DEF TypeOK
  <2>2. InOrder'
    BY <1>1, <1>8 DEF InOrder
  <2>3. \A u \in Turn : turn'[u].state = "absent" => turn'[u] = Absent(u)
    BY <1>4, <1>7 DEF Inv, Sound, Shape
  <2> QED
    BY <1>1, <1>2, <2>1, <2>2, <2>3 DEF Sound, Shape, Inv, Absent
<1>10. \A u \in Turn : IsCompleted(u) => u # t /\ IsCompleted(u)'
  BY <1>5, <1>7 DEF IsCompleted
<1>11. ASSUME NEW u \in Turn PROVE (RowKept(turn[u], present) /\ Tied(u))'
  <2>1. CASE u = t
    <3>1. RowKept(row, present)
      BY <1>2, <1>4, <1>5 DEF RowKept
    <3>2. \A h \in c.history : turn[h].sources \subseteq Inherited(c.history)
      BY DEF Inherited
    <3>3. Tied(t)'
      BY <1>03, <1>3, <1>4, <1>7, <1>10, <3>2 DEF Tied, IsContext
    <3> QED
      BY <1>2, <1>7, <2>1, <3>1, <3>3 DEF RowKept
  <2>2. CASE u # t
    <3>1. RowKept(turn[u], present) /\ Tied(u) /\ turn'[u] = turn[u] /\ turn[u] \in TurnRow
      BY <1>5, <1>7, <2>2 DEF Inv, Lineage, TypeOK
    <3>2. (turn[u].history \cup turn[u].origin) \subseteq Turn /\ turn[u].root \in Turn
      BY <3>1 DEF TurnRow
    <3>3. Tied(u)'
      BY <1>7, <1>10, <3>1, <3>2 DEF Tied
    <3> QED
      BY <1>2, <3>1, <3>3 DEF RowKept
  <2> QED
    BY <2>1, <2>2
<1>12. \A w \in Worker : AtWork(w) => wk[w].turn # t /\ wk[w].turn \in Turn
  <2>1. turn[t].stages = {}
    <3>1. turn[t] = Absent(t)
      BY <1>1, <1>5 DEF Inv, Sound, Shape
    <3> QED
      BY <3>1 DEF Absent
  <2>2. \A w \in Worker : AtWork(w) => Duty(w) /\ wk[w].turn \in Turn
    BY <1>1 DEF Inv, Duties, Sound, Shape, AtWork
  <2> QED
    BY <2>1, <2>2 DEF Duty
<1>13. Duties'
  BY <1>1, <1>2, <1>7, <1>12 DEF Inv, Duties, Duty, AtWork
<1> QED
  BY <1>9, <1>11, <1>13 DEF Inv, Lineage

(***************************************************************************)
(* A step that changes one unfinished question.                            *)
(***************************************************************************)
Grows(t, row) ==
  /\ row \in TurnRow /\ row.state # "absent" /\ ~row.redacted
  /\ row.history = turn[t].history /\ row.reference = turn[t].reference
  /\ row.root = turn[t].root
  /\ turn[t].sources \subseteq row.sources /\ turn[t].stages \subseteq row.stages
  /\ RowKept(row, present)
  /\ \/ row.origin = turn[t].origin
     \/ row.state = "completed" /\ \A h \in row.origin : h = t \/ IsCompleted(h)

\* What every step but a claim and the deletion of the conversation keeps.
Same(t) ==
  /\ (turn'[t].state = "absent") <=> (turn[t].state = "absent")
  /\ turn[t].state = "absent" => turn'[t] = turn[t]
  /\ turn'[t] \in TurnRow
  /\ turn[t].sources \subseteq turn'[t].sources /\ turn[t].stages \subseteq turn'[t].stages
  /\ turn[t].state \in TERMINAL => turn'[t] \in {turn[t], Redacted(t)}
  /\ RowKept(turn'[t], present') /\ Tied(t)'

LEMMA OneRow ==
  ASSUME Sound, Lineage, NEW t \in Unfinished, NEW row, Grows(t, row),
         turn' = [turn EXCEPT ![t] = row], present' = present
  PROVE  \A u \in Turn : Same(u)
<1>0. t \in Turn /\ turn[t].state \notin TERMINAL /\ turn[t].state # "absent"
  BY DEF Unfinished, Asked
<1>1. /\ \A u \in Turn : turn[u] \in TurnRow /\ RowKept(turn[u], present) /\ Tied(u)
      /\ turn'[t] = row /\ \A u \in Turn : u # t => turn'[u] = turn[u]
  BY <1>0 DEF Sound, TypeOK, Lineage
<1>2. \A u \in Turn : IsCompleted(u) => u # t /\ IsCompleted(u)'
  BY <1>0, <1>1 DEF IsCompleted, TERMINAL
<1>3. ASSUME NEW u \in Turn, u # t PROVE Same(u)
  <2>1. Tied(u)'
    <3>1. (turn[u].history \cup turn[u].origin) \subseteq Turn /\ turn[u].root \in Turn
      BY <1>1 DEF TurnRow
    <3> QED
      BY <1>1, <1>2, <1>3, <3>1 DEF Tied
  <2> QED
    BY <1>1, <1>3, <2>1 DEF Same
<1>4. Same(t)
  <2>1. /\ (turn[t].history \cup turn[t].origin \cup row.origin) \subseteq Turn
        /\ turn[t].root \in Turn
    BY <1>0, <1>1 DEF TurnRow, Grows
  <2>2. \A h \in row.origin : IsCompleted(h)'
    <3>1. CASE row.origin = turn[t].origin
      BY <1>0, <1>1, <1>2, <2>1, <3>1 DEF Tied
    <3>2. CASE row.state = "completed" /\ \A h \in row.origin : h = t \/ IsCompleted(h)
      <4>1. IsCompleted(t)'
        BY <1>1, <3>2 DEF IsCompleted
      <4> QED
        BY <1>2, <2>1, <3>2, <4>1
    <3> QED
      BY <3>1, <3>2 DEF Grows
  <2>3. /\ \A h \in row.history : IsCompleted(h)' /\ turn'[h].sources \subseteq row.sources
        /\ row.reference \subseteq row.history
        /\ row.root = t \/ IsCompleted(row.root)'
    BY <1>0, <1>1, <1>2, <2>1 DEF Tied, Grows
  <2>4. Tied(t)'
    BY <1>1, <2>2, <2>3 DEF Tied
  <2> QED
    BY <1>0, <1>1, <2>4 DEF Same, Grows
<1> QED
  BY <1>3, <1>4

LEMMA NoRow ==
  ASSUME Sound, Lineage, turn' = turn, present' = present
  PROVE  \A u \in Turn : Same(u)
BY DEF Sound, TypeOK, Lineage, Same, Tied, IsCompleted

\* What is left of the questions when a record is deleted.
LEMMA AllRows ==
  ASSUME Sound, Lineage, NEW r \in Record, DeleteRecord(r)
  PROVE  \A u \in Turn : Same(u) /\ turn'[u].sent = turn[u].sent
<1>1. /\ \A u \in Turn : turn[u] \in TurnRow /\ RowKept(turn[u], present) /\ Tied(u)
      /\ \A u \in Turn : Redacted(u) \in TurnRow
      /\ present' = present \ {r}
  BY RowUpdates DEF Sound, TypeOK, Lineage, DeleteRecord
<1>2. ASSUME NEW u \in Turn
      PROVE  /\ Redacted(u).text = {} /\ Redacted(u).redacted = TRUE
             /\ Redacted(u).state = (IF turn[u].state \in TERMINAL THEN turn[u].state ELSE "failed")
             /\ Redacted(u).sources = turn[u].sources /\ Redacted(u).direct = turn[u].direct
             /\ Redacted(u).stages = turn[u].stages /\ Redacted(u).sent = turn[u].sent
             /\ Redacted(u).history = turn[u].history /\ Redacted(u).origin = turn[u].origin
             /\ Redacted(u).reference = turn[u].reference /\ Redacted(u).root = turn[u].root
  <2>1. turn[u] \in TurnRow
    BY <1>1
  <2>2. PICK s : s = IF turn[u].state \in TERMINAL THEN turn[u].state ELSE "failed"
    OBVIOUS
  <2>3. Redacted(u) = [turn[u] EXCEPT !.text = {}, !.redacted = TRUE, !.state = s]
    BY <2>2 DEF Redacted
  <2> QED
    BY <2>1, <2>2, <2>3 DEF TurnRow
<1>3. \A u \in Turn : turn'[u] = IF Depends(u, r) THEN Redacted(u) ELSE turn[u]
  BY DEF DeleteRecord
<1>4. \A u \in Turn : IsCompleted(u) => IsCompleted(u)'
  BY <1>2, <1>3 DEF IsCompleted, TERMINAL
<1>5. ASSUME NEW u \in Turn PROVE Same(u) /\ turn'[u].sent = turn[u].sent
  <2>1. (turn[u].history \cup turn[u].origin) \subseteq Turn /\ turn[u].root \in Turn
    BY <1>1 DEF TurnRow
  <2>2. \A v \in Turn : turn'[v].sources = turn[v].sources
    BY <1>2, <1>3
  <2>3. /\ turn'[u].history = turn[u].history /\ turn'[u].origin = turn[u].origin
        /\ turn'[u].reference = turn[u].reference /\ turn'[u].root = turn[u].root
        /\ turn'[u].stages = turn[u].stages /\ turn'[u].sent = turn[u].sent
    BY ZenonT(60), <1>2, <1>3
  <2>4. Tied(u)'
    BY <1>1, <1>4, <2>1, <2>2, <2>3 DEF Tied
  <2>5. RowKept(turn'[u], present')
    <3>1. CASE Depends(u, r)
      <4>1. turn'[u] = Redacted(u)
        BY <1>3, <3>1
      <4>2. Redacted(u).state \in TERMINAL
        BY <1>2 DEF TERMINAL
      <4>3. RowKept(Redacted(u), present')
        BY <1>1, <1>2, <4>2 DEF RowKept
      <4> QED
        BY <4>1, <4>3
    <3>2. CASE ~Depends(u, r)
      <4>1. turn'[u] = turn[u]
        BY <1>3, <3>2
      <4>2. turn[u].state = "absent" => turn[u].sources = {}
        <5>1. turn[u].state = "absent" => turn[u] = Absent(u)
          BY DEF Sound, Shape
        <5> QED
          BY <5>1 DEF Absent
      <4>3. r \notin turn[u].sources
        BY <3>2, <4>2 DEF Depends, Asked
      <4> QED
        BY <1>1, <4>1, <4>3 DEF RowKept
    <3> QED
      BY <3>1, <3>2
  <2>6. /\ (turn'[u].state = "absent") <=> (turn[u].state = "absent")
        /\ turn[u].state = "absent" => turn'[u] = turn[u]
    BY <1>2, <1>3 DEF Depends, Asked, TERMINAL
  <2> QED
    BY <1>1, <1>3, <2>2, <2>3, <2>4, <2>5, <2>6 DEF Same
<1> QED
  BY <1>5

\* What the handlers and the owner make of an unfinished question.
LEMMA Rows ==
  ASSUME Sound, Lineage, NEW t \in Unfinished
  PROVE  /\ \A s \in TERMINAL : Grows(t, [turn[t] EXCEPT !.state = s])
         /\ Grows(t, Failed(t))
         /\ \A s \in Stage : Grows(t, Begun(t, s))
         /\ \A s \in turn[t].stages : Grows(t, [turn[t] EXCEPT !.sent = @ \cup {s}])
         /\ \A text \in SUBSET Record : text \subseteq turn[t].sources =>
              /\ Grows(t, Clarified(t, text)) /\ Grows(t, AnswerStored(t, text))
              /\ \A branch \in {"search", "reuse"} : Grows(t, Planned(t, branch, text))
         /\ \A selection \in SUBSET Record : selection \subseteq present =>
              Grows(t, Selected(t, selection))
<1>0. /\ t \in Turn /\ turn[t].state \notin TERMINAL /\ turn[t].state # "absent"
      /\ turn[t] \in TurnRow /\ TypeOK /\ RowKept(turn[t], present) /\ Tied(t)
  BY DEF Unfinished, Asked, Sound, TypeOK, Lineage
<1>1. /\ ~turn[t].redacted /\ turn[t].sources \subseteq present
      /\ turn[t].text \subseteq turn[t].sources /\ turn[t].direct \subseteq turn[t].sources
      /\ turn[t].sent \subseteq turn[t].stages
  BY <1>0 DEF RowKept, TurnRow
<1>2. ASSUME NEW s \in TERMINAL PROVE Grows(t, [turn[t] EXCEPT !.state = s])
  <2>1. [turn[t] EXCEPT !.state = s] \in TurnRow
    BY <1>0, RowUpdates
  <2> QED
    BY <1>0, <1>1, <2>1 DEF Grows, RowKept, TurnRow, TERMINAL
<1>3. Grows(t, Failed(t))
  BY <1>2 DEF Failed, TERMINAL
<1>4. ASSUME NEW s \in Stage PROVE Grows(t, Begun(t, s))
  <2>1. Begun(t, s) \in TurnRow /\ While[s] \in Running
    BY <1>0, RowUpdates DEF While, Running, Stage
  <2>2. PICK state : state = While[s]
    OBVIOUS
  <2>3. Begun(t, s) = [turn[t] EXCEPT !.state = state, !.stages = @ \cup {s}]
    BY <2>2 DEF Begun
  <2> QED
    BY <1>0, <1>1, <2>1, <2>2, <2>3 DEF Grows, RowKept, TurnRow, Running
<1>5. ASSUME NEW s \in turn[t].stages PROVE Grows(t, [turn[t] EXCEPT !.sent = @ \cup {s}])
  <2>1. [turn[t] EXCEPT !.sent = @ \cup {s}] \in TurnRow
    BY <1>0, RowUpdates DEF TurnRow
  <2> QED
    BY <1>0, <1>1, <2>1 DEF Grows, RowKept, TurnRow
<1>6. ASSUME NEW text \in SUBSET Record, text \subseteq turn[t].sources
      PROVE  /\ Grows(t, Clarified(t, text)) /\ Grows(t, AnswerStored(t, text))
             /\ \A branch \in {"search", "reuse"} : Grows(t, Planned(t, branch, text))
  <2>1. Grows(t, AnswerStored(t, text))
    <3>1. AnswerStored(t, text) \in TurnRow
      BY <1>0, RowUpdates
    <3> QED
      BY <1>0, <1>1, <1>6, <3>1 DEF Grows, RowKept, TurnRow, AnswerStored, TERMINAL
  <2>2. ASSUME NEW branch \in {"search", "reuse"} PROVE Grows(t, Planned(t, branch, text))
    <3>1. Planned(t, branch, text) \in TurnRow
      BY <1>0, RowUpdates
    <3> QED
      BY <1>0, <1>1, <1>6, <3>1 DEF Grows, RowKept, TurnRow, Planned
  <2>3. Grows(t, Clarified(t, text))
    <3>1. Clarified(t, text) \in TurnRow
      BY <1>0, RowUpdates
    <3>2. \A h \in OriginOf(t) : h = t \/ IsCompleted(h)
      <4>1. turn[t].history \subseteq Turn /\ \A h \in turn[t].history : IsCompleted(h)
        BY <1>0 DEF TurnRow, Tied
      <4>2. \A u \in Turn : \A h \in turn[u].origin : IsCompleted(h)
        BY DEF Lineage, Tied
      <4>3. Newest({h \in turn[t].history : turn[h].outcome = "clarification"}) \subseteq Turn
        BY <4>1 DEF Newest
      <4> QED
        BY <4>2, <4>3 DEF OriginOf
    <3>3. PICK origin : origin = OriginOf(t)
      OBVIOUS
    <3>4. Clarified(t, text) =
            [turn[t] EXCEPT !.state = "completed", !.branch = "clarify",
                            !.outcome = "clarification", !.origin = origin, !.text = text]
      BY <3>3 DEF Clarified
    <3>5. /\ Clarified(t, text).origin = origin /\ Clarified(t, text).state = "completed"
          /\ Clarified(t, text).text = text /\ Clarified(t, text).redacted = FALSE
      BY <1>0, <1>1, <3>4 DEF TurnRow
    <3>6. /\ Clarified(t, text).sources = turn[t].sources
          /\ Clarified(t, text).direct = turn[t].direct
          /\ Clarified(t, text).stages = turn[t].stages /\ Clarified(t, text).sent = turn[t].sent
          /\ Clarified(t, text).history = turn[t].history
          /\ Clarified(t, text).reference = turn[t].reference
          /\ Clarified(t, text).root = turn[t].root
      BY <1>0, <3>4 DEF TurnRow
    <3>7. RowKept(Clarified(t, text), present)
      BY <1>1, <1>6, <3>5, <3>6 DEF RowKept
    <3> QED
      BY <3>1, <3>2, <3>3, <3>5, <3>6, <3>7 DEF Grows
  <2> QED
    BY <2>1, <2>2, <2>3
<1>7. ASSUME NEW selection \in SUBSET Record, selection \subseteq present
      PROVE  Grows(t, Selected(t, selection))
  <2>1. Selected(t, selection) \in TurnRow
    BY <1>0, RowUpdates
  <2>2. CASE selection = {}
    BY <1>0, <1>1, <2>1, <2>2 DEF Grows, RowKept, TurnRow, Selected, TERMINAL
  <2>3. CASE selection # {}
    <3>1. Selected(t, selection) =
            [turn[t] EXCEPT !.state = "ready", !.sources = @ \cup selection,
                            !.direct = @ \cup selection]
      BY <2>3 DEF Selected
    <3> QED
      BY <1>0, <1>1, <1>7, <2>1, <3>1 DEF Grows, RowKept, TurnRow
  <2> QED
    BY <2>2, <2>3
<1> QED
  BY <1>2, <1>3, <1>4, <1>5, <1>6, <1>7

LEMMA Kept ==
  ASSUME Sound, \A u \in Turn : Same(u),
         present' \in SUBSET Record, offered' \subseteq present',
         conv' \in {"active", "closed", "deleted"}, conv' = "deleted" => conv = "deleted",
         epoch' = epoch, stale' \in BOOLEAN, time' \in {"live", "overdue", "lapsed"},
         turn' = [u \in Turn |-> turn'[u]],
         wk' \in [Worker -> WorkerRow],
         \A w \in Worker : wk'[w].pc # "idle" => wk'[w].turn \in Turn /\ wk'[w].stage \in Stage
  PROVE  Sound' /\ Lineage'
<1>1. Asked' = Asked
  BY DEF Same, Asked
<1>2. TypeOK'
  <2>1. turn' \in [Turn -> TurnRow]
    BY DEF Same
  <2> QED
    BY <2>1 DEF Sound, TypeOK
<1>3. Shape'
  <2>1. \A u \in Turn : turn'[u].state = "absent" => turn'[u] = Absent(u)
    BY DEF Sound, Shape, Same
  <2> QED
    BY <1>1, <2>1 DEF Sound, Shape, InOrder, Absent
<1> QED
  BY <1>2, <1>3 DEF Sound, Lineage, Same

(***************************************************************************)
(* The handlers' duties.                                                   *)
(***************************************************************************)
\* A handler that goes on with its stage, or is done with it.
Proceeds(w, r) ==
  /\ r \in WorkerRow
  /\ r.pc = "idle" \/
       /\ AtWork(w) /\ r.turn = wk[w].turn /\ r.stage = wk[w].stage
       /\ r.text \subseteq wk[w].text \cup turn[wk[w].turn].sources
       /\ r.pc \in {"begun", "prepared"} => wk[w].pc \in {"begun", "prepared"}

LEMMA Unmoved ==
  ASSUME Sound, Duties, \A u \in Turn : Same(u) /\ turn'[u].sent = turn[u].sent,
         conv' = "deleted" => conv = "deleted", conv = "deleted" => conv' = "deleted", wk' = wk
  PROVE  Duties'
<1>1. \A w \in Worker : AtWork(w) => wk[w].turn \in Turn
  BY DEF Sound, Shape, AtWork
<1>2. \A u \in Turn : turn[u].sources \subseteq turn'[u].sources
                      /\ turn[u].stages \subseteq turn'[u].stages
                      /\ turn'[u].sent = turn[u].sent
  BY DEF Same
<1>3. ASSUME conv' # "deleted", NEW w \in Worker, AtWork(w)
      PROVE  wk[w].stage \in turn'[wk[w].turn].stages
             /\ wk[w].text \subseteq turn'[wk[w].turn].sources
             /\ (wk[w].pc \in {"begun", "prepared"} => wk[w].stage \notin turn'[wk[w].turn].sent)
  <2>1. Duty(w) /\ wk[w].turn \in Turn
    BY <1>1, <1>3 DEF Duties
  <2> QED
    BY <1>2, <2>1 DEF Duty
<1> QED
  BY <1>3 DEF Duties, Duty, AtWork

LEMMA Proceeding ==
  ASSUME Sound, Duties, \A u \in Turn : Same(u) /\ turn'[u].sent = turn[u].sent,
         conv' = conv, NEW w \in Worker, NEW r, Proceeds(w, r), wk' = [wk EXCEPT ![w] = r]
  PROVE  Duties'
<1>1. /\ wk'[w] = r /\ \A v \in Worker : v # w => wk'[v] = wk[v]
  BY DEF Sound, TypeOK
<1>2. \A u \in Turn : turn[u].sources \subseteq turn'[u].sources
                      /\ turn[u].stages \subseteq turn'[u].stages
                      /\ turn'[u].sent = turn[u].sent
  BY DEF Same
<1>3. ASSUME NEW v \in Worker, AtWork(v)'
      PROVE  /\ AtWork(v) /\ wk'[v].turn = wk[v].turn /\ wk'[v].stage = wk[v].stage
             /\ wk'[v].text \subseteq wk[v].text \cup turn[wk[v].turn].sources
             /\ wk'[v].pc \in {"begun", "prepared"} => wk[v].pc \in {"begun", "prepared"}
             /\ wk[v].turn \in Turn
  <2>1. AtWork(v) /\ wk'[v].turn = wk[v].turn /\ wk'[v].stage = wk[v].stage
    BY <1>1, <1>3 DEF Proceeds, AtWork
  <2>2. wk[v].turn \in Turn
    BY <2>1 DEF Sound, Shape, AtWork
  <2> QED
    BY <1>1, <1>3, <2>1, <2>2 DEF Proceeds, AtWork
<1>4. ASSUME conv' # "deleted", NEW v \in Worker, AtWork(v)'
      PROVE  Duty(v)'
  <2>1. Duty(v)
    BY <1>3, <1>4 DEF Duties
  <2> QED
    BY <1>2, <1>3, <1>4, <2>1 DEF Duty
<1>5. conv' # "deleted" =>
        \A v, x \in Worker : AtWork(v)' /\ AtWork(x)' /\ wk'[v].turn = wk'[x].turn
                             /\ wk'[v].stage = wk'[x].stage => v = x
  BY <1>3 DEF Duties
<1> QED
  BY <1>4, <1>5 DEF Duties

LEMMA Beginning ==
  ASSUME Inv, NEW w \in Worker, NEW t \in Turn, NEW s \in Stage,
         Begin(w, t, s), Permitted(t)
  PROVE  Inv'
<1>0. Sound /\ Lineage /\ Duties /\ TypeOK
  BY DEF Inv, Sound
<1>1. /\ turn' = [turn EXCEPT ![t] = Begun(t, s)]
      /\ wk' = [wk EXCEPT ![w] = [pc |-> "begun", turn |-> t, stage |-> s, text |-> {}]]
      /\ s \notin turn[t].stages /\ turn[t].state = From[s] /\ conv = "active"
      /\ wk[w].pc = "idle"
      /\ UNCHANGED <<present, offered, conv, epoch, stale, time>>
  BY DEF Begin, MayBegin, clocks
<1>2. t \in Unfinished
  BY <1>1 DEF From, Stage, Unfinished, Asked, TERMINAL
<1>3. \A u \in Turn : Same(u)
  BY <1>0, <1>1, <1>2, Rows, OneRow
<1>4. /\ turn'[t] = Begun(t, s) /\ \A u \in Turn : u # t => turn'[u] = turn[u]
      /\ wk'[w] = [pc |-> "begun", turn |-> t, stage |-> s, text |-> {}]
      /\ \A v \in Worker : v # w => wk'[v] = wk[v]
  BY <1>0, <1>1 DEF TypeOK
<1>5. /\ Begun(t, s).stages = turn[t].stages \cup {s} /\ Begun(t, s).sent = turn[t].sent
      /\ Begun(t, s).sources = turn[t].sources
  BY <1>0 DEF Begun, TypeOK, TurnRow
<1>6. wk' \in [Worker -> WorkerRow]
  BY <1>0, <1>1 DEF TypeOK, WorkerRow, PC
<1>7. Sound' /\ Lineage'
  <2>1. \A v \in Worker : wk'[v].pc # "idle" => wk'[v].turn \in Turn /\ wk'[v].stage \in Stage
    BY <1>0, <1>4 DEF Sound, Shape
  <2>2. turn' = [u \in Turn |-> turn'[u]]
    BY <1>0, <1>1 DEF TypeOK
  <2> QED
    BY <1>0, <1>1, <1>3, <1>6, <2>1, <2>2, Kept DEF TypeOK, Sound, Shape
<1>8. turn[t].sent \subseteq turn[t].stages
  BY <1>0 DEF Lineage, RowKept
<1>9. ASSUME NEW v \in Worker, v # w, AtWork(v)
      PROVE  /\ Duty(v) /\ wk[v].turn \in Turn
             /\ ~(wk[v].turn = t /\ wk[v].stage = s)
  <2>1. Duty(v) /\ wk[v].turn \in Turn
    BY <1>0, <1>1, <1>9 DEF Duties, Sound, Shape, AtWork
  <2> QED
    BY <1>1, <2>1 DEF Duty
<1>10. ASSUME NEW v \in Worker, AtWork(v)' PROVE Duty(v)'
  <2>1. CASE v = w
    BY <1>1, <1>4, <1>5, <1>8, <2>1 DEF Duty
  <2>2. CASE v # w
    <3>1. AtWork(v) /\ wk'[v] = wk[v]
      BY <1>4, <1>10, <2>2 DEF AtWork
    <3>2. Duty(v) /\ wk[v].turn \in Turn
      BY <1>9, <2>2, <3>1
    <3> QED
      BY <1>4, <1>5, <3>1, <3>2 DEF Duty
  <2> QED
    BY <2>1, <2>2
<1>11. \A v, x \in Worker : AtWork(v)' /\ AtWork(x)' /\ wk'[v].turn = wk'[x].turn
                            /\ wk'[v].stage = wk'[x].stage => v = x
  BY <1>0, <1>1, <1>4, <1>9 DEF Duties, AtWork
<1> QED
  BY <1>7, <1>10, <1>11 DEF Inv, Duties

\* Only one handler is at the stage, and has not dispatched it before.
LEMMA Dispatching ==
  ASSUME Inv, NEW w \in Worker, Dispatch(w)
  PROVE  /\ Inv' /\ wk[w].turn \in Unfinished
         /\ wk[w].stage \notin turn[wk[w].turn].sent
         /\ wk[w].text \subseteq offered
<1>0. Sound /\ Lineage /\ Duties /\ TypeOK
  BY DEF Inv, Sound
<1>01. PICK t, s : t = wk[w].turn /\ s = wk[w].stage
  OBVIOUS
<1>02. PICK row : row = [turn[t] EXCEPT !.sent = @ \cup {s}]
  OBVIOUS
<1>1. /\ wk[w].pc = "prepared" /\ conv = "active" /\ turn[t].state = While[s]
      /\ turn[t].sources \subseteq offered
      /\ turn' = [turn EXCEPT ![t] = row]
      /\ wk' = [wk EXCEPT ![w].pc = "sending"]
      /\ UNCHANGED <<present, offered, conv, epoch, stale, time>>
  BY <1>01, <1>02 DEF Dispatch, Live, Permitted, Goto, clocks
<1>2. t \in Turn /\ s \in Stage /\ Duty(w)
  BY <1>0, <1>01, <1>1 DEF Sound, Shape, Duties, AtWork
<1>3. t \in Unfinished
  BY <1>1, <1>2 DEF While, Stage, Unfinished, Asked, TERMINAL
<1>4. s \in turn[t].stages /\ s \notin turn[t].sent /\ wk[w].text \subseteq turn[t].sources
  BY <1>01, <1>1, <1>2 DEF Duty
<1>5. \A u \in Turn : Same(u)
  BY <1>0, <1>02, <1>1, <1>3, <1>4, Rows, OneRow
<1>6. /\ turn'[t] = row /\ \A u \in Turn : u # t => turn'[u] = turn[u]
      /\ row.sent = turn[t].sent \cup {s} /\ row.stages = turn[t].stages
      /\ row.sources = turn[t].sources
  BY <1>0, <1>02, <1>1, <1>2 DEF TypeOK, TurnRow
<1>7. /\ wk' \in [Worker -> WorkerRow] /\ wk'[w].pc = "sending"
      /\ \A v \in Worker : /\ v # w => wk'[v] = wk[v]
                           /\ wk'[v].turn = wk[v].turn /\ wk'[v].stage = wk[v].stage
                           /\ wk'[v].text = wk[v].text
  BY <1>0, <1>1 DEF TypeOK, WorkerRow, PC
<1>8. Sound' /\ Lineage'
  <2>1. \A v \in Worker : wk'[v].pc # "idle" => wk'[v].turn \in Turn /\ wk'[v].stage \in Stage
    BY <1>0, <1>01, <1>2, <1>7 DEF Sound, Shape
  <2>2. turn' = [u \in Turn |-> turn'[u]]
    BY <1>0, <1>1 DEF TypeOK
  <2> QED
    BY <1>0, <1>1, <1>5, <1>7, <2>1, <2>2, Kept DEF TypeOK, Sound, Shape
<1>9. \A v \in Worker : AtWork(v)' => AtWork(v)
  BY <1>1, <1>7 DEF AtWork
<1>10. ASSUME NEW v \in Worker, AtWork(v)' PROVE Duty(v)'
  <2>1. Duty(v) /\ wk[v].turn \in Turn
    BY <1>0, <1>1, <1>9, <1>10 DEF Duties, Sound, Shape, AtWork
  <2>2. v # w => ~(wk[v].turn = t /\ wk[v].stage = s)
    BY <1>0, <1>01, <1>1, <1>9, <1>10 DEF Duties, AtWork
  <2>3. CASE v = w
    BY <1>01, <1>4, <1>6, <1>7, <2>3 DEF Duty
  <2>4. CASE v # w
    BY <1>6, <1>7, <2>1, <2>2, <2>4 DEF Duty
  <2> QED
    BY <2>3, <2>4
<1>11. \A v, x \in Worker : AtWork(v)' /\ AtWork(x)' /\ wk'[v].turn = wk'[x].turn
                            /\ wk'[v].stage = wk'[x].stage => v = x
  BY <1>0, <1>1, <1>7, <1>9 DEF Duties
<1> QED
  BY <1>01, <1>1, <1>3, <1>4, <1>8, <1>10, <1>11 DEF Inv, Duties

(***************************************************************************)
(* Every step.                                                             *)
(***************************************************************************)
Settled ==
  \A t \in Turn : turn[t].state \in TERMINAL => turn'[t] \in {turn[t], Redacted(t), Absent(t)}

\* A step that leaves the questions as they are.
LEMMA Untouched ==
  ASSUME Inv, turn' = turn, present' = present, offered' \subseteq present,
         conv' \in {"active", "closed", "deleted"}, conv' = "deleted" <=> conv = "deleted",
         epoch' = epoch, stale' \in BOOLEAN, time' \in {"live", "overdue", "lapsed"},
         \/ wk' = wk
         \/ conv' = conv /\ \E w \in Worker : \E r \in WorkerRow :
              Proceeds(w, r) /\ wk' = [wk EXCEPT ![w] = r]
  PROVE  Inv' /\ Settled
<1>1. Sound /\ Lineage /\ Duties /\ TypeOK /\ \A u \in Turn : Same(u)
  BY NoRow DEF Inv, Sound
<1>2. CASE wk' = wk
  <2>1. Duties'
    BY <1>1, <1>2, Unmoved
  <2>2. Sound' /\ Lineage'
    BY <1>1, <1>2, Kept DEF TypeOK, Sound, Shape
  <2> QED
    BY <2>1, <2>2 DEF Inv, Settled
<1>3. ASSUME conv' = conv, NEW w \in Worker, NEW r \in WorkerRow, Proceeds(w, r),
             wk' = [wk EXCEPT ![w] = r]
      PROVE  Inv' /\ Settled
  <2>1. Duties'
    BY <1>1, <1>3, Proceeding
  <2>2. \A v \in Worker : wk'[v].pc # "idle" => wk'[v].turn \in Turn /\ wk'[v].stage \in Stage
    BY <1>1, <1>3 DEF TypeOK, Sound, Shape, Proceeds, AtWork
  <2>3. Sound' /\ Lineage'
    BY <1>1, <1>3, <2>2, Kept DEF TypeOK
  <2> QED
    BY <2>1, <2>3 DEF Inv, Settled
<1> QED
  BY <1>2, <1>3

\* A step that changes one unfinished question.
LEMMA Moved ==
  ASSUME Inv, NEW t \in Unfinished, NEW row, Grows(t, row), row.sent = turn[t].sent,
         turn' = [turn EXCEPT ![t] = row],
         UNCHANGED <<present, offered, conv, epoch, clocks>>,
         wk' = wk \/ \E w \in Worker : wk' = [wk EXCEPT ![w] = Idle]
  PROVE  Inv' /\ Settled
<1>0. UNCHANGED <<stale, time>> /\ t \in Turn
  BY DEF clocks, Unfinished, Asked
<1>1. Sound /\ Lineage /\ Duties /\ TypeOK
  BY DEF Inv, Sound
<1>2. \A u \in Turn : Same(u)
  BY <1>1, OneRow
<1>3. \A u \in Turn : turn'[u].sent = turn[u].sent
  BY <1>0, <1>1 DEF TypeOK
<1>4. Duties'
  <2>1. CASE wk' = wk
    BY <1>1, <1>2, <1>3, <2>1, Unmoved
  <2>2. ASSUME NEW w \in Worker, wk' = [wk EXCEPT ![w] = Idle] PROVE Duties'
    <3>1. Proceeds(w, Idle)
      BY DEF Proceeds, Idle, WorkerRow, PC
    <3> QED
      BY <1>1, <1>2, <1>3, <2>2, <3>1, Proceeding
  <2> QED
    BY <2>1, <2>2
<1>5. Idle \in WorkerRow /\ Idle.pc = "idle"
  BY DEF Idle, WorkerRow, PC
<1>6. wk' \in [Worker -> WorkerRow]
  BY <1>1, <1>5 DEF TypeOK
<1>7. \A v \in Worker : wk'[v].pc # "idle" => wk'[v].turn \in Turn /\ wk'[v].stage \in Stage
  BY <1>1, <1>5 DEF TypeOK, Sound, Shape
<1>8. turn' = [u \in Turn |-> turn'[u]]
  BY <1>1 DEF TypeOK
<1>9. Sound' /\ Lineage'
  BY <1>0, <1>1, <1>2, <1>6, <1>7, <1>8, Kept DEF TypeOK, Sound, Shape
<1> QED
  BY <1>2, <1>4, <1>9 DEF Inv, Settled, Same

LEMMA OwnerStep ==
  ASSUME Inv, Owner
  PROVE  Inv' /\ Settled
<1>0. Sound /\ Lineage /\ TypeOK
  BY DEF Inv, Sound
<1>1. ASSUME NEW c, NEW e \in Nat, Claim(c, e), IsContext(c, Cardinality(Asked) + 1)
      PROVE  Inv' /\ Settled
  <2>1. PICK t : t = Cardinality(Asked) + 1
    OBVIOUS
  <2>2. t \notin Asked /\ t \in Turn
    BY <1>0, <1>1, <2>1, NextTurn DEF Sound, Shape, Claim
  <2>3. \A u \in Turn : u # t => turn'[u] = turn[u]
    BY <1>0, <1>1, <2>1 DEF Claim, TypeOK
  <2>4. Settled
    BY <2>2, <2>3 DEF Settled, Asked, TERMINAL
  <2> QED
    BY <1>1, <2>4, Claimed
<1>2. CASE AskAfresh
  <2>1. epoch + 1 \in Nat
    BY <1>0 DEF TypeOK
  <2> QED
    BY <1>0, <1>1, <1>2, <2>1, Contexts DEF AskAfresh
<1>3. CASE AskFirst
  BY <1>0, <1>1, <1>3, Contexts DEF AskFirst, TypeOK
<1>4. CASE AskNext
  BY <1>0, <1>1, <1>4, Contexts DEF AskNext, TypeOK
<1>5. ASSUME NEW t \in Turn, AskAbout(t) PROVE Inv' /\ Settled
  BY <1>0, <1>1, <1>5, Contexts DEF AskAbout, TypeOK, IsCompleted
<1>6. ASSUME NEW t \in Turn, Stop(t) PROVE Inv' /\ Settled
  <2>1. [turn[t] EXCEPT !.state = "stopped"].sent = turn[t].sent
    BY <1>0 DEF TypeOK, TurnRow
  <2> QED
    BY <1>0, <1>6, <2>1, Rows, Moved DEF Stop, TERMINAL
<1>7. ASSUME NEW t \in Turn, Interrupt(t) PROVE Inv' /\ Settled
  <2>1. [turn[t] EXCEPT !.state = "interrupted"].sent = turn[t].sent
    BY <1>0 DEF TypeOK, TurnRow
  <2> QED
    BY <1>0, <1>7, <2>1, Rows, Moved DEF Interrupt, TERMINAL
<1>8. CASE CloseOrReopen
  BY <1>0, <1>8, Untouched DEF CloseOrReopen, clocks, TypeOK, Sound, Shape
<1>9. CASE Delete
  <2>1. /\ turn' = [t \in Turn |-> Absent(t)] /\ conv' = "deleted" /\ wk' = wk
        /\ UNCHANGED <<present, offered, epoch, stale, time>>
    BY <1>9 DEF Delete, clocks
  <2>2. \A t \in Turn : Absent(t) \in TurnRow
    BY <1>0, RowUpdates
  <2>3. Asked' = {}
    BY <2>1 DEF Asked, Absent
  <2>4. InOrder'
    <3>1. 0 \in 0..MaxTurns /\ 1..0 = {}
      BY BoundsAssumption
    <3> QED
      BY <2>3, <3>1 DEF InOrder
  <2>5. \A t \in Turn : turn'[t] = Absent(t)
    BY <2>1
  <2>6. Sound'
    BY <1>0, <2>1, <2>2, <2>3, <2>4, <2>5 DEF Sound, TypeOK, Shape, Absent
  <2>7. ASSUME NEW t \in Turn PROVE (RowKept(turn[t], present) /\ Tied(t))'
    <3>1. RowKept(Absent(t), present')
      BY DEF RowKept, Absent
    <3>2. Tied(t)'
      <4>1. /\ turn'[t].history = {} /\ turn'[t].origin = {}
            /\ turn'[t].reference = {} /\ turn'[t].root = t
        <5>1. /\ Absent(t).history = {} /\ Absent(t).origin = {}
              /\ Absent(t).reference = {} /\ Absent(t).root = t
          BY DEF Absent
        <5>2. turn'[t] = Absent(t)
          BY <2>5, <2>7
        <5> QED
          BY <5>1, <5>2
      <4> QED
        BY <4>1 DEF Tied
    <3> QED
      BY <2>5, <3>1, <3>2 DEF RowKept
  <2> QED
    BY <2>1, <2>5, <2>6, <2>7 DEF Inv, Lineage, Duties, Settled
<1> QED
  BY <1>2, <1>3, <1>4, <1>5, <1>6, <1>7, <1>8, <1>9 DEF Owner

LEMMA RecordsStep ==
  ASSUME Inv, Records
  PROVE  Inv' /\ Settled
<1>0. Sound /\ Lineage /\ Duties /\ TypeOK
  BY DEF Inv, Sound
<1>1. ASSUME NEW set \in SUBSET Record, Change(set) PROVE Inv' /\ Settled
  BY <1>0, <1>1, Untouched DEF Change, TypeOK
<1>2. ASSUME NEW set \in SUBSET Record, Reindex(set) PROVE Inv' /\ Settled
  BY <1>0, <1>2, Untouched DEF Reindex, clocks, TypeOK
<1>3. ASSUME NEW r \in Record, DeleteRecord(r) PROVE Inv' /\ Settled
  <2>1. \A u \in Turn : Same(u) /\ turn'[u].sent = turn[u].sent
    BY <1>0, <1>3, AllRows
  <2>2. /\ present' = present \ {r} /\ offered' = offered \ {r} /\ wk' = wk
        /\ UNCHANGED <<conv, epoch, time>> /\ stale' \in BOOLEAN
        /\ turn' = [u \in Turn |-> turn'[u]]
    BY <1>0, <1>3 DEF DeleteRecord, TypeOK
  <2>3. Duties'
    BY <1>0, <2>1, <2>2, Unmoved
  <2>4. Sound' /\ Lineage'
    BY <1>0, <2>1, <2>2, Kept DEF Sound, TypeOK, Shape
  <2> QED
    BY <2>1, <2>3, <2>4 DEF Inv, Settled, Same
<1> QED
  BY <1>1, <1>2, <1>3 DEF Records

\* A handler's transaction on its own question, when the stage is still live.
LEMMA Publishing ==
  ASSUME Inv, NEW w \in Worker, NEW s \in Stage, MayPublish(w, s)
  PROVE  /\ wk[w].turn \in Unfinished /\ wk[w].turn \in Turn
         /\ wk[w].text \in SUBSET Record
         /\ wk[w].text \subseteq turn[wk[w].turn].sources
         /\ turn[wk[w].turn].sources \subseteq offered
<1>0. Sound /\ Duties /\ TypeOK
  BY DEF Inv, Sound
<1>1. /\ AtWork(w) /\ conv = "active" /\ turn[wk[w].turn].state = While[s]
      /\ turn[wk[w].turn].sources \subseteq offered
  BY DEF MayPublish, Live, Permitted, AtWork
<1>2. wk[w].turn \in Turn /\ Duty(w)
  BY <1>0, <1>1 DEF Sound, Shape, Duties, AtWork
<1>3. wk[w].turn \in Unfinished
  BY <1>1, <1>2 DEF While, Stage, Unfinished, Asked, TERMINAL
<1> QED
  BY <1>0, <1>1, <1>2, <1>3 DEF Duty, TypeOK, WorkerRow

LEMMA Published ==
  ASSUME Inv, NEW w \in Worker, NEW row, Publish(w, row), wk[w].turn \in Unfinished,
         Grows(wk[w].turn, row), row.sent = turn[wk[w].turn].sent
  PROVE  Inv' /\ Settled
BY Moved DEF Publish

LEMMA HandlerStep ==
  ASSUME Inv, NEW w \in Worker, Handler(w)
  PROVE  /\ Inv' /\ Settled
         /\ \A v \in Worker : wk[v].pc # "sending" /\ wk'[v].pc = "sending" => Dispatch(v)
<1> DEFINE Quiet == \A v \in Worker : wk'[v].pc = "sending" => wk[v].pc = "sending"
<1>0. Sound /\ Lineage /\ Duties /\ TypeOK /\ wk[w] \in WorkerRow
  BY DEF Inv, Sound, TypeOK
<1>00. /\ Idle \in WorkerRow /\ Proceeds(w, Idle) /\ Idle.pc = "idle"
  BY DEF Proceeds, Idle, WorkerRow, PC
<1>01. wk' = [wk EXCEPT ![w] = Idle] => Quiet
  BY <1>0, <1>00 DEF TypeOK
<1>02. \A t \in Unfinished, s \in Stage :
         /\ \A text : Clarified(t, text).sent = turn[t].sent
         /\ \A text : AnswerStored(t, text).sent = turn[t].sent
         /\ \A text, branch : Planned(t, branch, text).sent = turn[t].sent
         /\ \A selection : Selected(t, selection).sent = turn[t].sent
         /\ Failed(t).sent = turn[t].sent
  BY <1>0 DEF Unfinished, Asked, TypeOK, TurnRow, Clarified, AnswerStored, Planned, Selected, Failed
<1>03. ASSUME NEW r \in WorkerRow, Proceeds(w, r), wk' = [wk EXCEPT ![w] = r],
              r.pc = "sending" => wk[w].pc = "sending",
              UNCHANGED <<present, offered, conv, epoch, turn, clocks>>
       PROVE  Inv' /\ Settled /\ Quiet
  <2>1. Quiet
    BY <1>0, <1>03 DEF TypeOK
  <2> QED
    BY <1>0, <1>03, <2>1, Untouched DEF clocks, TypeOK, Sound, Shape
<1>1. ASSUME NEW t \in Turn, NEW s \in Stage, Begin(w, t, s) PROVE Inv' /\ Settled /\ Quiet
  <2>1. t \in Unfinished
    BY <1>1 DEF Begin, MayBegin, From, Stage, Unfinished, Asked, TERMINAL
  <2>2. CASE Permitted(t)
    <3>1. /\ turn' = [turn EXCEPT ![t] = Begun(t, s)]
          /\ wk' = [wk EXCEPT ![w] = [pc |-> "begun", turn |-> t, stage |-> s, text |-> {}]]
      BY <1>1, <2>2 DEF Begin
    <3>2. Quiet
      BY <1>0, <3>1 DEF TypeOK
    <3>3. Settled
      BY <1>0, <2>1, <3>1 DEF Settled, TypeOK, Unfinished
    <3> QED
      BY <1>1, <2>2, <3>2, <3>3, Beginning
  <2>3. CASE ~Permitted(t)
    BY <1>0, <1>1, <1>02, <2>1, <2>3, Rows, Moved DEF Begin
  <2> QED
    BY <2>2, <2>3
<1>2. CASE Prepare(w)
  <2>1. PICK r : r = [wk[w] EXCEPT !.pc = "prepared", !.text = Material(wk[w].turn, wk[w].stage)]
    OBVIOUS
  <2>2. /\ AtWork(w) /\ wk[w].pc = "begun" /\ conv = "active" /\ wk' = [wk EXCEPT ![w] = r]
        /\ UNCHANGED <<present, offered, conv, epoch, turn, clocks>>
    BY <1>0, <1>2, <2>1 DEF Prepare, Live, AtWork, TypeOK
  <2>3. wk[w].turn \in Turn /\ wk[w].stage \in Stage
    BY <1>0, <2>2 DEF Sound, Shape
  <2>4. Material(wk[w].turn, wk[w].stage) \subseteq turn[wk[w].turn].sources
    <3> DEFINE t == wk[w].turn
    <3>1. /\ turn[t].history \subseteq Turn /\ RowKept(turn[t], present) /\ Tied(t)
          /\ \A h \in Turn : RowKept(turn[h], present)
      BY <1>0, <2>3 DEF Lineage, TypeOK, TurnRow
    <3>2. Dialogue(t) \subseteq turn[t].sources
      BY <3>1 DEF Dialogue, Tied, RowKept
    <3> QED
      BY <3>1, <3>2 DEF Material, RowKept
  <2>5. turn[wk[w].turn].sources \subseteq Record
    BY <1>0, <2>3 DEF TypeOK, TurnRow
  <2>6. /\ r.pc = "prepared" /\ r.turn = wk[w].turn /\ r.stage = wk[w].stage
        /\ r.text = Material(wk[w].turn, wk[w].stage) /\ r \in WorkerRow
    BY <1>0, <2>1, <2>4, <2>5 DEF WorkerRow, PC
  <2>7. Proceeds(w, r)
    BY <2>2, <2>4, <2>6 DEF Proceeds
  <2> QED
    BY <1>03, <2>2, <2>6, <2>7
<1>3. CASE Dispatch(w)
  <2>1. Settled
    <3>1. wk[w].turn \in Unfinished
      BY <1>3, Dispatching
    <3> QED
      BY <1>0, <1>3, <3>1 DEF Dispatch, Settled, TypeOK, Unfinished
  <2>2. \A v \in Worker : wk[v].pc # "sending" /\ wk'[v].pc = "sending" => v = w
    BY <1>0, <1>3 DEF Dispatch, Goto, TypeOK
  <2> QED
    BY <1>3, <2>1, <2>2, Dispatching
<1>4. CASE Respond(w)
  <2>1. PICK r : r = [wk[w] EXCEPT !.pc = "replied"]
    OBVIOUS
  <2>2. /\ r \in WorkerRow /\ r.pc = "replied" /\ r.turn = wk[w].turn /\ r.stage = wk[w].stage
        /\ r.text = wk[w].text
    BY <1>0, <2>1 DEF WorkerRow, PC
  <2>3. wk' = [wk EXCEPT ![w] = r] /\ AtWork(w)
    BY <1>4, <2>1 DEF Respond, Goto, AtWork
  <2> QED
    BY <1>4, <1>03, <2>2, <2>3 DEF Respond, Proceeds
<1>5. CASE Raise(w)
  <2>1. PICK r : r = [wk[w] EXCEPT !.pc = "failing"]
    OBVIOUS
  <2>2. /\ r \in WorkerRow /\ r.pc = "failing" /\ r.turn = wk[w].turn /\ r.stage = wk[w].stage
        /\ r.text = wk[w].text
    BY <1>0, <2>1 DEF WorkerRow, PC
  <2>3. wk' = [wk EXCEPT ![w] = r] /\ AtWork(w)
    BY <1>5, <2>1 DEF Raise, Goto, AtWork
  <2> QED
    BY <1>5, <1>03, <2>2, <2>3 DEF Raise, Proceeds
<1>6. CASE Crash(w)
  BY <1>6, <1>00, <1>03 DEF Crash
<1>7. CASE RecordFailure(w)
  <2>1. CASE wk[w].turn \in Unfinished
    <3>1. turn' = [turn EXCEPT ![wk[w].turn] = Failed(wk[w].turn)]
      BY <1>7, <2>1 DEF RecordFailure
    <3>2. wk' = [wk EXCEPT ![w] = Idle] /\ UNCHANGED <<present, offered, conv, epoch, clocks>>
      BY <1>7 DEF RecordFailure
    <3>3. Grows(wk[w].turn, Failed(wk[w].turn))
      BY <1>0, <2>1, Rows
    <3>4. Failed(wk[w].turn).sent = turn[wk[w].turn].sent
      BY <1>02, <2>1 DEF Stage
    <3> QED
      BY <1>01, <2>1, <3>1, <3>2, <3>3, <3>4, Moved
  <2>2. CASE wk[w].turn \notin Unfinished
    BY <1>7, <1>00, <1>03, <2>2 DEF RecordFailure
  <2> QED
    BY <2>1, <2>2
<1>8. ASSUME NEW branch \in {"search", "reuse", "clarify"}, PublishPlan(w, branch)
      PROVE  Inv' /\ Settled /\ Quiet
  <2>1. /\ wk[w].turn \in Unfinished /\ wk[w].text \in SUBSET Record
        /\ wk[w].text \subseteq turn[wk[w].turn].sources
    BY <1>8, Publishing DEF PublishPlan, Stage
  <2>2. CASE branch = "clarify"
    <3>1. Publish(w, Clarified(wk[w].turn, wk[w].text))
      BY <1>8, <2>2 DEF PublishPlan
    <3>2. Grows(wk[w].turn, Clarified(wk[w].turn, wk[w].text))
      BY <1>0, <2>1, Rows
    <3> QED
      BY <1>01, <1>02, <2>1, <3>1, <3>2, Published DEF Publish, Stage
  <2>3. CASE branch # "clarify"
    <3>1. Publish(w, Planned(wk[w].turn, branch, wk[w].text))
      BY <1>8, <2>3 DEF PublishPlan
    <3>2. Grows(wk[w].turn, Planned(wk[w].turn, branch, wk[w].text))
      BY <1>0, <2>1, <2>3, Rows
    <3> QED
      BY <1>01, <1>02, <2>1, <3>1, <3>2, Published DEF Publish, Stage
  <2> QED
    BY <2>2, <2>3
<1>9. ASSUME NEW s \in {"search", "evidence"}, NEW found \in SUBSET Record,
             NEW selection \in SUBSET Record, PublishSelection(w, s, found, selection)
      PROVE  Inv' /\ Settled /\ Quiet
  <2>1. PICK t : t = wk[w].turn
    OBVIOUS
  <2>2. /\ t \in Unfinished /\ t \in Turn /\ turn[t].sources \subseteq offered
    BY <1>9, <2>1, Publishing DEF PublishSelection, Stage
  <2>3. /\ found \subseteq offered
        /\ selection \subseteq found \cup UNION {turn[h].direct : h \in turn[t].reference}
        /\ Publish(w, Selected(t, selection))
    BY <1>9, <2>1 DEF PublishSelection
  <2>4. UNION {turn[h].direct : h \in turn[t].reference} \subseteq turn[t].sources
    <3>1. /\ turn[t].history \subseteq Turn /\ Tied(t) /\ \A h \in Turn : RowKept(turn[h], present)
      BY <1>0, <2>2 DEF Lineage, TypeOK, TurnRow
    <3> QED
      BY <3>1 DEF Tied, RowKept
  <2>5. selection \subseteq present
    BY <1>0, <2>2, <2>3, <2>4 DEF Sound, Shape
  <2>6. Grows(t, Selected(t, selection))
    BY <1>0, <2>2, <2>5, Rows
  <2> QED
    BY <1>01, <1>02, <2>1, <2>2, <2>3, <2>6, Published DEF Publish, Stage
<1>10. CASE PublishAnswer(w)
  <2>1. /\ wk[w].turn \in Unfinished /\ wk[w].text \in SUBSET Record
        /\ wk[w].text \subseteq turn[wk[w].turn].sources
    BY <1>10, Publishing DEF PublishAnswer, Stage
  <2>2. Publish(w, AnswerStored(wk[w].turn, wk[w].text))
    BY <1>10 DEF PublishAnswer
  <2>3. Grows(wk[w].turn, AnswerStored(wk[w].turn, wk[w].text))
    BY <1>0, <2>1, Rows
  <2> QED
    BY <1>01, <1>02, <2>1, <2>2, <2>3, Published DEF Publish, Stage
<1> QED
  BY <1>1, <1>2, <1>3, <1>4, <1>5, <1>6, <1>7, <1>8, <1>9, <1>10 DEF Handler

LEMMA Steps ==
  ASSUME Inv, [Next]_vars
  PROVE  /\ Inv' /\ Settled
         /\ \A v \in Worker : wk[v].pc # "sending" /\ wk'[v].pc = "sending" => Dispatch(v)
<1>0. TypeOK /\ Sound
  BY DEF Inv, Sound
<1>1. CASE Owner
  <2>1. wk' = wk
    BY <1>1 DEF Owner, AskAfresh, AskFirst, AskNext, AskAbout, Claim, Stop, Interrupt,
                CloseOrReopen, Delete
  <2> QED
    BY <1>1, <2>1, OwnerStep
<1>2. CASE Records
  <2>1. wk' = wk
    BY <1>2 DEF Records, Change, Reindex, DeleteRecord
  <2> QED
    BY <1>2, <2>1, RecordsStep
<1>3. ASSUME NEW w \in Worker, Handler(w)
      PROVE  /\ Inv' /\ Settled
             /\ \A v \in Worker : wk[v].pc # "sending" /\ wk'[v].pc = "sending" => Dispatch(v)
  BY <1>3, HandlerStep
<1>4. ASSUME NEW t \in Turn, Elapse(t) PROVE Inv' /\ Settled /\ wk' = wk
  BY <1>0, <1>4, Untouched DEF Elapse, TypeOK, Sound, Shape
<1>5. CASE UNCHANGED vars
  BY <1>0, <1>5, Untouched DEF vars, TypeOK, Sound, Shape
<1> QED
  BY <1>1, <1>2, <1>3, <1>4, <1>5 DEF Next, vars

LEMMA Always == Spec => []Inv
<1>1. Init => Inv
  <2> SUFFICES ASSUME Init PROVE Inv
    OBVIOUS
  <2>1. /\ \A t \in Turn : turn[t] = Absent(t)
        /\ \A w \in Worker : wk[w].pc = "idle"
    BY DEF Init, Idle
  <2>2. TypeOK
    <3>1. \A t \in Turn : Absent(t) \in TurnRow
      BY DEF Absent, TurnRow
    <3>2. Idle \in WorkerRow
      BY DEF Idle, WorkerRow, PC
    <3> QED
      BY <3>1, <3>2 DEF Init, TypeOK
  <2>3. Asked = {}
    <3>1. \A t \in Turn : Absent(t).state = "absent"
      BY DEF Absent
    <3> QED
      BY <2>1, <3>1 DEF Asked
  <2>4. InOrder
    <3>1. 0 \in 0..MaxTurns /\ 1..0 = {}
      BY BoundsAssumption
    <3> QED
      BY <2>3, <3>1 DEF InOrder
  <2>5. Sound
    BY <2>1, <2>2, <2>3, <2>4 DEF Sound, Shape, Init
  <2>6. ASSUME NEW t \in Turn PROVE RowKept(turn[t], present) /\ Tied(t)
    <3>1. /\ Absent(t).history = {} /\ Absent(t).origin = {} /\ Absent(t).reference = {}
          /\ Absent(t).root = t /\ RowKept(Absent(t), present)
      BY DEF Absent, RowKept
    <3>2. turn[t] = Absent(t)
      BY <2>1
    <3> QED
      BY <3>1, <3>2 DEF Tied
  <2>7. Duties
    BY <2>1 DEF Duties, AtWork
  <2> QED
    BY <2>5, <2>6, <2>7 DEF Inv, Lineage
<1>2. Inv /\ [Next]_vars => Inv'
  BY Steps
<1> QED
  BY <1>1, <1>2, PTL DEF Spec

(***************************************************************************)
(* The theorems.                                                           *)
(***************************************************************************)
\* Every variable keeps its type.
THEOREM TypeCorrect == Spec => []TypeOK
<1>1. Inv => TypeOK
  BY DEF Inv, Sound
<1> QED
  BY <1>1, Always, PTL

\* What a conversation stores was made from records that still exist.
THEOREM DeletedLeavesNoTrace == Spec => []NoTraceOfDeleted
<1>1. Inv => NoTraceOfDeleted
  BY DEF Inv, Lineage, RowKept, NoTraceOfDeleted, Sound, TypeOK, TurnRow
<1> QED
  BY <1>1, Always, PTL

\* What is on its way to the provider may be sent there, until the call ends.
THEOREM OnlyPermittedIsSent == Spec => []SentIsPermitted
<1>1. Init => SentIsPermitted
  BY DEF Init, SentIsPermitted, Idle
<1>2. Inv /\ SentIsPermitted /\ [Next]_vars => SentIsPermitted'
  <2> SUFFICES ASSUME Inv, SentIsPermitted, [Next]_vars, NEW w \in Worker,
                      wk'[w].pc = "sending"
               PROVE  wk'[w].text \subseteq offered'
    BY DEF SentIsPermitted
  <2>0. TypeOK
    BY DEF Inv, Sound
  <2>1. CASE wk[w].pc # "sending"
    <3>1. Dispatch(w)
      BY <2>1, Steps
    <3>2. wk'[w].text = wk[w].text /\ offered' = offered
      BY <2>0, <3>1 DEF Dispatch, Goto, TypeOK
    <3> QED
      BY <3>1, <3>2, Dispatching
  <2>2. CASE wk[w].pc = "sending"
    <3>1. wk[w].text \subseteq offered
      BY <2>2 DEF SentIsPermitted
    <3>2. ~Records
      BY <2>2 DEF Records, Change, Reindex, DeleteRecord, LockFree
    <3>3. offered' = offered
      BY <3>2 DEF Next, vars, Owner, AskAfresh, AskFirst, AskNext, AskAbout, Claim, Stop,
                  Interrupt, CloseOrReopen, Delete, Handler, Begin, Prepare, Dispatch, Respond,
                  PublishPlan, PublishSelection, PublishAnswer, Publish, Raise, RecordFailure,
                  Crash, Elapse
    <3>4. wk'[w].text = wk[w].text
      <4>1. ASSUME NEW v \in Worker, Handler(v) PROVE wk'[w] = wk[w] \/ wk'[w].text = wk[w].text
        <5>1. CASE v # w
          BY <2>0, <4>1, <5>1 DEF Handler, Begin, Prepare, Dispatch, Respond, PublishPlan,
             PublishSelection, PublishAnswer, Publish, Raise, RecordFailure, Crash, Goto, TypeOK
        <5>2. CASE v = w
          <6>1. ~RecordFailure(v) /\ ~Prepare(v) /\ ~Respond(v) /\ ~Raise(v) /\ ~Crash(v)
            <7>1. ~RecordFailure(v) /\ ~Prepare(v)
              BY <2>2, <5>2 DEF RecordFailure, Prepare
            <7>2. ~Respond(v)
              BY <2>0, <5>2 DEF Respond, Goto, TypeOK, WorkerRow
            <7>3. ~Raise(v)
              BY <2>0, <5>2 DEF Raise, Goto, TypeOK, WorkerRow
            <7>4. ~Crash(v)
              BY <2>0, <5>2 DEF Crash, Idle, TypeOK
            <7> QED
              BY <7>1, <7>2, <7>3, <7>4
          <6> QED
            BY <2>0, <2>2, <4>1, <5>2, <6>1 DEF Handler, Begin, Dispatch, PublishPlan,
               PublishSelection, PublishAnswer, MayPublish
        <5> QED
          BY <5>1, <5>2
      <4>2. CASE ~\E v \in Worker : Handler(v)
        BY <3>2, <4>2 DEF Next, vars, Owner, AskAfresh, AskFirst, AskNext, AskAbout, Claim,
           Stop, Interrupt, CloseOrReopen, Delete, Elapse
      <4> QED
        BY <4>1, <4>2
    <3> QED
      BY <3>1, <3>3, <3>4
  <2> QED
    BY <2>1, <2>2
<1> QED
  BY <1>1, <1>2, Always, PTL DEF Spec

\* A settled question changes only by losing its texts, or with the conversation.
THEOREM SettledQuestionsStay == Spec => SettledTurnsStay
<1>1. Inv /\ [Next]_vars =>
        [\A t \in Turn : turn[t].state \in TERMINAL =>
           turn'[t] \in {turn[t], Redacted(t), Absent(t)}]_vars
  BY Steps DEF Settled
<1> QED
  BY <1>1, Always, PTL DEF Spec, SettledTurnsStay

\* No stage of a question is sent to the provider twice.
THEOREM NothingPaidTwice == Spec => PaidOnce
<1>1. Inv /\ [Next]_vars =>
        [\A w \in Worker : wk[w].pc # "sending" /\ wk'[w].pc = "sending" =>
           LET t == wk[w].turn
           IN t \in Unfinished /\ wk[w].stage \notin turn[t].sent]_vars
  BY Steps, Dispatching
<1> QED
  BY <1>1, Always, PTL DEF Spec, PaidOnce
=============================================================================
