---------------------------- MODULE Conversation ----------------------------
(***************************************************************************)
(* One saved conversation: questions asked one after another, each planned,*)
(* searched and answered in stages that HTTP handlers run and a provider   *)
(* charges for, while the owner's records are edited, withdrawn and        *)
(* deleted under them.                                                     *)
(*                                                                         *)
(* Every transaction that reads records holds the owner's advisory lock    *)
(* shared, every writer of records holds it exclusively; the transactions  *)
(* on the conversation lock its row.  So a transaction is an action, and   *)
(* only the guard, a session that keeps the shared lock while the provider *)
(* is called, outlives one.                                                *)
(*                                                                         *)
(* Abstractions.  A source is a record at its current version.  A stored   *)
(* text is the set of records it was made from.  The policy revision is    *)
(* only compared with the one a turn was claimed at, so it is known whether *)
(* that is still the revision.  Two deadlines of 120 s, of the question    *)
(* from its claim and of a stage from its beginning, pass in that order.   *)
(* Both facts are kept for the unfinished question alone: there is one at  *)
(* most, and a settled one is turned away before they are looked at.       *)
(* Request ids and conversation revisions only turn calls away, size       *)
(* limits and budgets (see AiUsage) only make a stage fail: any stage may  *)
(* fail at any point.                                                      *)
(***************************************************************************)
EXTENDS Naturals, FiniteSets

CONSTANTS
  Record,     \* the owner's records
  Worker,     \* handlers of stage requests
  MaxTurns,   \* bound: questions in the conversation
  None        \* no turn, no stage

ASSUME BoundsAssumption == MaxTurns \in Nat
Turn == 1..MaxTurns
Stage == {"plan", "search", "evidence", "answer"}
ASSUME NoneAssumption == None \notin Turn /\ None \notin Stage

VARIABLES
  present,   \* the records not deleted
  offered,   \* those whose current version is indexed and allowed to external AI
  conv,      \* AnswerConversation.state, or "deleted"
  epoch,     \* AnswerConversation.context_epoch
  turn,      \* AnswerTurn rows with their AnswerTurnSource rows, by seq
  stale,     \* the policy revision moved on since the unfinished one was claimed
  time,      \* which deadlines of the unfinished one have passed
  wk         \* the control state of each handler

vars == <<present, offered, conv, epoch, turn, stale, time, wk>>
clocks == <<stale, time>>

TERMINAL == {"completed", "failed", "stopped", "interrupted"}
From == [s \in Stage |-> CASE s = "plan" -> "created" [] s = "answer" -> "ready" [] OTHER -> "planned"]
While == [s \in Stage |-> CASE s = "plan" -> "planning" [] s = "search" -> "searching"
                            [] s = "evidence" -> "selecting" [] s = "answer" -> "answering"]
Waiting == {"created", "planned", "ready"}
Running == {"planning", "searching", "selecting", "answering"}

\* stages and sent: t.stages, and those of them with a dispatch intent.
\* sources and direct: the anchors, and those of them selected for the answer.
\* text: the records the stored answer and resolved question were made from.
\* reference and origin: the question referred to, and that of
\* context_summary["pending_origin"], if there is one.
TurnRow ==
  [state : {"absent"} \cup Waiting \cup Running \cup TERMINAL,
   outcome : {"none", "answer", "clarification", "no_evidence"},
   branch : {"none", "search", "reuse", "clarify"},
   epoch : Nat, history : SUBSET Turn, reference : SUBSET Turn, root : Turn,
   origin : SUBSET Turn, stages : SUBSET Stage, sent : SUBSET Stage,
   sources : SUBSET Record, direct : SUBSET Record, text : SUBSET Record,
   redacted : BOOLEAN]

PC == {"idle", "begun", "prepared", "sending", "replied", "failing"}
WorkerRow == [pc : PC, turn : Turn \cup {None}, stage : Stage \cup {None}, text : SUBSET Record]

Idle == [pc |-> "idle", turn |-> None, stage |-> None, text |-> {}]
Absent(t) ==
  [state |-> "absent", outcome |-> "none", branch |-> "none", epoch |-> 0,
   history |-> {}, reference |-> {}, root |-> t, origin |-> {},
   stages |-> {}, sent |-> {}, sources |-> {}, direct |-> {}, text |-> {},
   redacted |-> FALSE]

TypeOK ==
  /\ present \in SUBSET Record
  /\ offered \in SUBSET Record
  /\ conv \in {"active", "closed", "deleted"}
  /\ epoch \in Nat
  /\ turn \in [Turn -> TurnRow]
  /\ stale \in BOOLEAN
  /\ time \in {"live", "overdue", "lapsed"}
  /\ wk \in [Worker -> WorkerRow]

Init ==
  /\ present = Record
  /\ offered \in SUBSET Record
  /\ conv = "active"
  /\ epoch = 0
  /\ turn = [t \in Turn |-> Absent(t)]
  /\ stale = FALSE
  /\ time = "live"
  /\ wk = [w \in Worker |-> Idle]

-----------------------------------------------------------------------------
(***************************************************************************)
(* The context of a question.                                              *)
(***************************************************************************)
Asked == {t \in Turn : turn[t].state # "absent"}
Unfinished == {t \in Asked : turn[t].state \notin TERMINAL}
Completed == {t \in Asked : turn[t].state = "completed" /\ turn[t].epoch = epoch}
Answered == {t \in Completed : turn[t].outcome = "answer" /\ turn[t].direct # {}}

\* The newest of a set of questions, if it has any.
Newest(S) == {t \in S : \A u \in S : u <= t}
LastTwo(S) == {t \in S : Cardinality({u \in S : u > t}) < 2}

\* A question that starts afresh, or follows nothing.
Alone(t) == [history |-> {}, reference |-> {}, root |-> t]

\* A follow-up on a chosen answer.
About(b) == [history |-> {b, turn[b].root}, reference |-> {b}, root |-> turn[b].root]

\* The question after the last one: its history is the last two, the question a
\* pending clarification goes back to, the latest answer made from sources, and
\* where the thread began.
Following(last) ==
  LET pending == turn[last].outcome = "clarification"
      origin == IF pending THEN turn[last].origin ELSE {}
      reference == IF pending /\ turn[last].reference # {} THEN turn[last].reference
                   ELSE Newest(Answered)
  IN [history |-> LastTwo(Completed) \cup origin \cup reference \cup {turn[last].root},
      reference |-> reference, root |-> turn[last].root]

\* Every source of every question of the history is a source of the follow-up.
Inherited(history) == UNION {turn[h].sources : h \in history}

-----------------------------------------------------------------------------
(***************************************************************************)
(* What stages and writers do to one row.                                  *)
(***************************************************************************)
Failed(t) == [turn[t] EXCEPT !.state = "failed"]

\* The stage is begun: nobody will begin it again.
Begun(t, s) == [turn[t] EXCEPT !.state = While[s], !.stages = @ \cup {s}]

Planned(t, branch, text) ==
  [turn[t] EXCEPT !.state = "planned", !.branch = branch, !.text = text]

\* The question a clarification goes back to, through the ones before it.
OriginOf(t) ==
  LET asked == Newest({h \in turn[t].history : turn[h].outcome = "clarification"})
  IN IF asked = {} THEN {t} ELSE UNION {turn[h].origin : h \in asked}

Clarified(t, text) ==
  [turn[t] EXCEPT !.state = "completed", !.branch = "clarify", !.outcome = "clarification",
                  !.origin = OriginOf(t), !.text = text]

Selected(t, selection) ==
  IF selection = {}
  THEN [turn[t] EXCEPT !.state = "completed", !.outcome = "no_evidence"]
  ELSE [turn[t] EXCEPT !.state = "ready", !.sources = @ \cup selection,
                       !.direct = @ \cup selection]

AnswerStored(t, text) ==
  [turn[t] EXCEPT !.state = "completed", !.outcome = "answer", !.text = @ \cup text]

\* Neither the answer nor the resolved question survives a deleted source.
Redacted(t) ==
  [turn[t] EXCEPT !.text = {}, !.redacted = TRUE,
                  !.state = IF @ \in TERMINAL THEN @ ELSE "failed"]

\* Mutant: only the turns that selected the record are redacted.
SelectedFrom(t, r) == t \in Asked /\ r \in turn[t].direct

\* The turns deleting a record redacts: those with an anchor in it.
Depends(t, r) == t \in Asked /\ r \in turn[t].sources

-----------------------------------------------------------------------------
(***************************************************************************)
(* The owner's conversation.                                               *)
(***************************************************************************)
Claim(context, e) ==
  LET t == Cardinality(Asked) + 1
  IN /\ conv = "active"
     /\ Unfinished = {}
     /\ t \in Turn
     /\ \A h \in context.history : ~turn[h].redacted
     /\ Inherited(context.history) \subseteq offered
     /\ turn' = [turn EXCEPT ![t] =
          [Absent(t) EXCEPT !.state = "created", !.epoch = e, !.history = context.history,
                            !.reference = context.reference, !.root = context.root,
                            !.sources = Inherited(context.history)]]
     /\ epoch' = e
     /\ stale' = FALSE /\ time' = "live"
     /\ UNCHANGED <<present, offered, conv, wk>>

AskAfresh == Claim(Alone(Cardinality(Asked) + 1), epoch + 1)
AskFirst == Completed = {} /\ Claim(Alone(Cardinality(Asked) + 1), epoch)
AskNext == \E last \in Newest(Completed) : Claim(Following(last), epoch)
AskAbout(b) ==
  /\ turn[b].state = "completed" /\ turn[b].outcome = "answer"
  /\ Claim(About(b), epoch)

Stop(t) ==
  /\ t \in Unfinished
  /\ turn' = [turn EXCEPT ![t].state = "stopped"]
  /\ UNCHANGED <<present, offered, conv, epoch, clocks, wk>>

Interrupt(t) ==
  /\ t \in Unfinished
  /\ time # "live"
  /\ turn' = [turn EXCEPT ![t].state = "interrupted"]
  /\ UNCHANGED <<present, offered, conv, epoch, clocks, wk>>

CloseOrReopen ==
  /\ conv # "deleted"
  /\ Unfinished = {}
  /\ conv' = IF conv = "active" THEN "closed" ELSE "active"
  /\ UNCHANGED <<present, offered, epoch, turn, clocks, wk>>

\* Takes no owner lock: a call may be under way.
Delete ==
  /\ conv # "deleted"
  /\ conv' = "deleted"
  /\ turn' = [t \in Turn |-> Absent(t)]
  /\ UNCHANGED <<present, offered, epoch, clocks, wk>>

-----------------------------------------------------------------------------
(***************************************************************************)
(* The owner's records.  A writer waits for the guards of calls under way. *)
(***************************************************************************)
\* Mutant: a writer does not wait for a call under way.
LockIgnored == TRUE

LockFree == \A w \in Worker : wk[w].pc # "sending"

\* An edit, a choice of version, a permission, a source state, a policy.
Change(set) ==
  /\ LockFree
  /\ set \subseteq present
  /\ offered' = set
  /\ stale' = (stale \/ Unfinished # {})
  /\ UNCHANGED <<present, conv, epoch, turn, time, wk>>

\* New records and rebuilt passages leave the policy revision alone.
Reindex(set) ==
  /\ LockFree
  /\ set \subseteq present /\ set # offered
  /\ offered' = set
  /\ UNCHANGED <<present, conv, epoch, turn, clocks, wk>>

DeleteRecord(r) ==
  /\ LockFree
  /\ r \in present
  /\ present' = present \ {r}
  /\ offered' = offered \ {r}
  /\ turn' = [t \in Turn |-> IF Depends(t, r) THEN Redacted(t) ELSE turn[t]]
  /\ stale' = (stale \/ Unfinished # {})
  /\ UNCHANGED <<conv, epoch, time, wk>>

-----------------------------------------------------------------------------
(***************************************************************************)
(* A handler of stage requests.                                            *)
(***************************************************************************)
Goto(w, pc) == wk' = [wk EXCEPT ![w].pc = pc]

\* Mutant: a stage that was begun and not finished may be begun again.
MayBeginAgain(t, s) == turn[t].state \in {From[s], While[s]}

MayBegin(t, s) ==
  /\ s \notin turn[t].stages
  /\ turn[t].state = From[s]
  /\ s = "search" => turn[t].branch = "search"
  /\ s = "evidence" => turn[t].branch = "reuse"

\* The metadata gate: every source of the turn may be sent.
Permitted(t) == turn[t].sources \subseteq offered

\* Mutant: only the deadlines and the policy are looked at.
LiveInTime(t, s) == conv = "active" /\ turn[t].state # "absent" /\ ~stale /\ time # "lapsed"

\* check_live: the stage is the one under way, and nothing has superseded it.
Live(t, s) ==
  /\ conv = "active"
  /\ turn[t].state = While[s]
  /\ ~turn[t].redacted /\ ~stale
  /\ time # "lapsed"

\* What the request of the stage is made from, while the history can be read.
Dialogue(t) == UNION {turn[h].text : h \in turn[t].history}
Material(t, s) ==
  CASE s = "plan" -> Dialogue(t)
    [] s = "answer" -> Dialogue(t) \cup turn[t].text \cup turn[t].direct
    [] OTHER -> turn[t].text
Readable(t) == \A h \in turn[t].history : turn[h].state # "absent" /\ ~turn[h].redacted

\* A question without history is its own plan, and reuse asks nobody.
Paid(t, s) == s # "evidence" /\ (s = "plan" => turn[t].history # {})

Begin(w, t, s) ==
  /\ wk[w].pc = "idle"
  /\ conv = "active" /\ time = "live"
  /\ MayBegin(t, s)
  /\ IF Permitted(t)
     THEN /\ turn' = [turn EXCEPT ![t] = Begun(t, s)]
          /\ wk' = [wk EXCEPT ![w] = [pc |-> "begun", turn |-> t, stage |-> s, text |-> {}]]
     ELSE /\ turn' = [turn EXCEPT ![t] = Failed(t)]
          /\ UNCHANGED wk
  /\ UNCHANGED <<present, offered, conv, epoch, clocks>>

\* Inside the paid slot, before the reservation.
Prepare(w) ==
  LET t == wk[w].turn
      s == wk[w].stage
  IN /\ wk[w].pc = "begun"
     /\ Live(t, s) /\ Permitted(t) /\ Readable(t) /\ Paid(t, s)
     /\ wk' = [wk EXCEPT ![w].pc = "prepared", ![w].text = Material(t, s)]
     /\ UNCHANGED <<present, offered, conv, epoch, turn, clocks>>

\* Everything again under the guard, and the request leaves.
Dispatch(w) ==
  LET t == wk[w].turn
      s == wk[w].stage
  IN /\ wk[w].pc = "prepared"
     /\ Live(t, s) /\ Permitted(t) /\ Readable(t)
     /\ time = "live"
     /\ wk[w].text = Material(t, s)
     /\ turn' = [turn EXCEPT ![t].sent = @ \cup {s}]
     /\ Goto(w, "sending")
     /\ UNCHANGED <<present, offered, conv, epoch, clocks>>

\* The reply is here, the guard gone, the payment settled.
Respond(w) ==
  /\ wk[w].pc = "sending"
  /\ Goto(w, "replied")
  /\ UNCHANGED <<present, offered, conv, epoch, turn, clocks>>

MayPublish(w, s) ==
  LET t == wk[w].turn
  IN /\ wk[w].stage = s
     /\ wk[w].pc = "replied" \/ (wk[w].pc = "begun" /\ ~Paid(t, s))
     /\ Live(t, s) /\ Permitted(t)

Publish(w, row) ==
  /\ turn' = [turn EXCEPT ![wk[w].turn] = row]
  /\ wk' = [wk EXCEPT ![w] = Idle]
  /\ UNCHANGED <<present, offered, conv, epoch, clocks>>

PublishPlan(w, branch) ==
  /\ MayPublish(w, "plan")
  /\ branch = "search" \/ Paid(wk[w].turn, "plan")
  /\ Publish(w, IF branch = "clarify" THEN Clarified(wk[w].turn, wk[w].text)
                ELSE Planned(wk[w].turn, branch, wk[w].text))

\* Found by the search, or taken over from the answer the question refers to.
PublishSelection(w, s, found, selection) ==
  LET t == wk[w].turn
      taken == UNION {turn[h].direct : h \in turn[t].reference}
  IN /\ MayPublish(w, s)
     /\ found \subseteq offered /\ (s = "evidence" => found = {})
     /\ selection \subseteq found \cup taken
     /\ Readable(t)
     /\ Publish(w, Selected(t, selection))

PublishAnswer(w) ==
  /\ MayPublish(w, "answer")
  /\ Publish(w, AnswerStored(wk[w].turn, wk[w].text))

\* Any step may raise: a check, the slot, the budget, the provider, a parser.
Raise(w) ==
  /\ wk[w].pc \in {"begun", "prepared", "sending", "replied"}
  /\ Goto(w, "failing")
  /\ UNCHANGED <<present, offered, conv, epoch, turn, clocks>>

RecordFailure(w) ==
  LET t == wk[w].turn
  IN /\ wk[w].pc = "failing"
     /\ turn' = IF t \in Unfinished THEN [turn EXCEPT ![t] = Failed(t)] ELSE turn
     /\ wk' = [wk EXCEPT ![w] = Idle]
     /\ UNCHANGED <<present, offered, conv, epoch, clocks>>

\* The server stops: the stage stays begun, and no one resumes it.
Crash(w) ==
  /\ wk[w].pc # "idle"
  /\ wk' = [wk EXCEPT ![w] = Idle]
  /\ UNCHANGED <<present, offered, conv, epoch, turn, clocks>>

\* First the question's deadline passes, then that of its latest stage.
Elapse(t) ==
  /\ t \in Unfinished
  /\ \/ time = "live" /\ time' = "overdue"
     \/ time = "overdue" /\ turn[t].stages # {} /\ time' = "lapsed"
  /\ UNCHANGED <<present, offered, conv, epoch, turn, stale, wk>>

Owner ==
  \/ AskAfresh \/ AskFirst \/ AskNext \/ CloseOrReopen \/ Delete
  \/ \E t \in Turn : AskAbout(t) \/ Stop(t) \/ Interrupt(t)
Records ==
  \/ \E set \in SUBSET Record : Change(set) \/ Reindex(set)
  \/ \E r \in Record : DeleteRecord(r)
Handler(w) ==
  \/ \E t \in Turn, s \in Stage : Begin(w, t, s)
  \/ Prepare(w) \/ Dispatch(w) \/ Respond(w) \/ PublishAnswer(w)
  \/ \E branch \in {"search", "reuse", "clarify"} : PublishPlan(w, branch)
  \/ \E s \in {"search", "evidence"}, found, selection \in SUBSET Record :
       PublishSelection(w, s, found, selection)
  \/ Raise(w) \/ RecordFailure(w) \/ Crash(w)
Next ==
  \/ Owner \/ Records
  \/ \E w \in Worker : Handler(w)
  \/ \E t \in Turn : Elapse(t)
Spec == Init /\ [][Next]_vars

-----------------------------------------------------------------------------
(***************************************************************************)
(* Properties.                                                             *)
(***************************************************************************)
\* Nothing the conversation stores was made from a deleted record: neither an
\* answer that selected it, nor a follow-up that only inherited it, nor a reply
\* that was on its way when the record was deleted (redact_sources, execute).
NoTraceOfDeleted == \A t \in Turn : turn[t].text \subseteq present

\* What a request on its way to the provider was made from may be sent there as
\* long as it is: no permission is withdrawn and nothing edited or deleted
\* between the last check and the end of the call (paid).
SentIsPermitted == \A w \in Worker : wk[w].pc = "sending" => wk[w].text \subseteq offered

\* A settled question stays as it is, whoever is late: only the deletion of a
\* source may still take its texts away (execute, change, redact_sources).
SettledTurnsStay ==
  [][\A t \in Turn : turn[t].state \in TERMINAL =>
       turn'[t] \in {turn[t], Redacted(t), Absent(t)}]_vars

\* The provider is asked at most once for a stage of a question, whatever is
\* requested again, crashes or fails, and only for a question that is still
\* open (begin, paid).
PaidOnce ==
  [][\A w \in Worker : wk[w].pc # "sending" /\ wk'[w].pc = "sending" =>
       LET t == wk[w].turn
       IN t \in Unfinished /\ wk[w].stage \notin turn[t].sent]_vars
=============================================================================
