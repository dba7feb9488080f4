------------------------------ MODULE AiUsage ------------------------------
(***************************************************************************)
(* The ledger of paid AI calls (app/services/ai_usage.py) and the callers   *)
(* that spend from it (embedding_call, rerank_call, answer_call and         *)
(* conversation_stages, which share one protocol): take the call slot of    *)
(* the billing scope, reserve the worst case of the call, record that its   *)
(* outcome is uncertain, send, and settle what was used.                    *)
(*                                                                         *)
(* A call is made in a billing scope and for a run (an owner and a run id). *)
(* Money is counted in micro-dollars, as the code counts it, and a sum of   *)
(* charges is the number of units it is made of.                            *)
(***************************************************************************)
EXTENDS Integers, FiniteSets

CONSTANTS
  Caller,        \* threads and worker processes that make paid calls
  Scope,         \* billing scopes: processes may be configured differently
  Run,           \* runs, each of one owner
  AttemptId,     \* rows of the ledger
  Request,       \* what may be asked for: purpose, pinned prices and bounds
  MonthlyLimit,  \* embedding_monthly_limit_micro_usd
  RunLimit,      \* the limit of each run, over all scopes and months
  CallLimit,     \* how many calls each run may make, 0 when that is not limited
  MaxMonth,      \* bound: months that pass
  NoCaller,
  NoAttempt

Priced == {"rerank", "answer", "followup"}
Purpose == Priced \cup {"document", "query"}

\* Prices are micro-dollars for a million tokens; output is free for embeddings.
RequestType == [purpose : Purpose, input_price : Nat, output_price : Nat,
                input : Nat \ {0}, output : Nat]

ASSUME CallersAssumption == NoCaller \notin Caller
ASSUME AttemptsAssumption == IsFiniteSet(AttemptId) /\ NoAttempt \notin AttemptId
ASSUME RequestsAssumption == Request \subseteq RequestType
ASSUME LimitsAssumption ==
  /\ MonthlyLimit \in Nat
  /\ RunLimit \in [Run -> Nat]
  /\ CallLimit \in [Run -> Nat]
  /\ MaxMonth \in Nat \ {0}

VARIABLES
  attempts,     \* the table ai_usage_attempts
  slot,         \* session lock 13033 of a scope: the caller that is in a call
  run_lock,     \* transaction lock 13034 of a run
  billing_lock, \* transaction lock 13032 of a scope
  caller,       \* where each caller is
  month,        \* the current month
  bill          \* the provider: what it does with the call of an attempt

vars == <<attempts, slot, run_lock, billing_lock, caller, month, bill>>

----------------------------------------------------------------------------
\* Costs

Cost(r, input, output) ==
  IF r.purpose \in Priced
    THEN (input * r.input_price + output * r.output_price + 999999) \div 1000000
    ELSE (input + 49) \div 50

\* What a reservation holds: the cost of the most the call can use.
Reserved(r) == Cost(r, r.input, r.output)

\* What a settled call costs, at the prices its row was reserved with.
Spent(r, used) == Cost(r, used.input, used.output)

Usage(r) == [input : 1 .. r.input, output : 0 .. r.output]

\* What the provider does with a call: an unknown fate until it is charged or free.
Nothing == [input |-> 0, output |-> 0]
Unsent == [state |-> "unsent", used |-> Nothing]

----------------------------------------------------------------------------
\* The rows

Month == 1 .. MaxMonth
Status == {"reserved", "uncertain", "spent", "released"}

NoRow == [status |-> "none"]
Row == [status : Status, scope : Scope, run : Run, month : Month,
        request : Request, spent : Nat]

Exists(a) == attempts[a].status # "none"
Open(a) == attempts[a].status \in {"reserved", "uncertain"}
Active(a) == attempts[a].status \in {"reserved", "uncertain", "spent"}

Charge(a) == IF attempts[a].status = "spent" THEN attempts[a].spent
                                             ELSE Reserved(attempts[a].request)

\* The units of money the rows of S stand for, and how many they are.
Units(S) == UNION {{a} \X (1 .. Charge(a)) : a \in S}
Total(S) == Cardinality(Units(S))

\* What counts against the month m of a scope: the month's own calls and those of
\* any month whose outcome is not known.
InMonth(s, m) ==
  {a \in AttemptId : Active(a) /\ attempts[a].scope = s
                     /\ (attempts[a].month = m \/ Open(a))}

InRun(r) == {a \in AttemptId : Active(a) /\ attempts[a].run = r}

----------------------------------------------------------------------------
\* The callers

Phase == {"idle", "slot", "run", "billing", "passed", "reserved", "marked",
          "sent", "adrift"}

Idle == [phase |-> "idle"]

\* A call on its way: month is read when the reservation is assessed, id is the row.
Call == [phase : Phase \ {"idle"}, scope : Scope, run : Run, request : Request,
         month : Month, id : AttemptId \cup {NoAttempt}]

In(c, phase) == caller[c].phase = phase

At(c, phase) == caller' = [caller EXCEPT ![c].phase = phase]
Over(c) == caller' = [caller EXCEPT ![c] = Idle]

\* Leaving call_slot, and the end of the reserving transaction.
Without(locks, c) ==
  [k \in DOMAIN locks |-> IF locks[k] = c THEN NoCaller ELSE locks[k]]
LeaveSlot(c) == slot' = Without(slot, c)
EndTransaction(c) == /\ run_lock' = Without(run_lock, c)
                     /\ billing_lock' = Without(billing_lock, c)

Init ==
  /\ attempts = [a \in AttemptId |-> NoRow]
  /\ slot = [s \in Scope |-> NoCaller]
  /\ run_lock = [r \in Run |-> NoCaller]
  /\ billing_lock = [s \in Scope |-> NoCaller]
  /\ caller = [c \in Caller |-> Idle]
  /\ month = 1
  /\ bill = [a \in AttemptId |-> Unsent]

\* The rows that are left, when every reservation on its way has taken its own.
RowsLeft ==
  Cardinality({c \in Caller : caller[c].phase \in {"slot", "run", "billing", "passed"}})
    < Cardinality({a \in AttemptId : ~Exists(a)})

\* call_slot: a scope has one paid call at a time; a busy slot raises at once.
EnterSlot(c, s, r, q) ==
  /\ In(c, "idle")
  /\ RowsLeft
  /\ slot[s] = NoCaller
  /\ slot' = [slot EXCEPT ![s] = c]
  /\ caller' = [caller EXCEPT ![c] = [phase |-> "slot", scope |-> s, run |-> r,
                  request |-> q, month |-> month, id |-> NoAttempt]]
  /\ UNCHANGED <<attempts, run_lock, billing_lock, month, bill>>

\* The call is given up before it reserves: its payload cannot be prepared.
GiveUp(c) ==
  /\ In(c, "slot")
  /\ Over(c)
  /\ LeaveSlot(c)
  /\ UNCHANGED <<attempts, run_lock, billing_lock, month, bill>>

\* Mutant: reservations of one run do not wait for each other.
LockRunShared(c) ==
  /\ In(c, "slot")
  /\ run_lock' = [run_lock EXCEPT ![caller[c].run] = c]
  /\ At(c, "run")
  /\ UNCHANGED <<attempts, slot, billing_lock, month, bill>>

\* reserve: the lock of the run, then that of the scope, then the sums.
LockRun(c) ==
  /\ In(c, "slot")
  /\ run_lock[caller[c].run] = NoCaller
  /\ run_lock' = [run_lock EXCEPT ![caller[c].run] = c]
  /\ At(c, "run")
  /\ UNCHANGED <<attempts, slot, billing_lock, month, bill>>

LockBilling(c) ==
  /\ In(c, "run")
  /\ billing_lock[caller[c].scope] = NoCaller
  /\ billing_lock' = [billing_lock EXCEPT ![caller[c].scope] = c]
  /\ At(c, "billing")
  /\ UNCHANGED <<attempts, slot, run_lock, month, bill>>

Fits(s, r, q) ==
  /\ CallLimit[r] # 0 => Cardinality(InRun(r)) < CallLimit[r]
  /\ Total(InMonth(s, month)) + Reserved(q) <= MonthlyLimit
  /\ Total(InRun(r)) + Reserved(q) <= RunLimit[r]

Assess(c) ==
  /\ In(c, "billing")
  /\ Fits(caller[c].scope, caller[c].run, caller[c].request)
  /\ caller' = [caller EXCEPT ![c].phase = "passed", ![c].month = month]
  /\ UNCHANGED <<attempts, slot, run_lock, billing_lock, month, bill>>

\* Mutant: a refused reservation keeps its transaction open.
ExhaustedOpen(c) ==
  /\ In(c, "billing")
  /\ ~Fits(caller[c].scope, caller[c].run, caller[c].request)
  /\ Over(c)
  /\ LeaveSlot(c)
  /\ UNCHANGED <<attempts, run_lock, billing_lock, month, bill>>

Exhausted(c) ==
  /\ In(c, "billing")
  /\ ~Fits(caller[c].scope, caller[c].run, caller[c].request)
  /\ Over(c)
  /\ LeaveSlot(c)
  /\ EndTransaction(c)
  /\ UNCHANGED <<attempts, month, bill>>

\* The row is inserted and the reservation committed.
Reserve(c, a) ==
  /\ In(c, "passed")
  /\ ~Exists(a)
  /\ attempts' = [attempts EXCEPT ![a] =
       [status |-> "reserved", scope |-> caller[c].scope, run |-> caller[c].run,
        month |-> caller[c].month, request |-> caller[c].request, spent |-> 0]]
  /\ caller' = [caller EXCEPT ![c].phase = "reserved", ![c].id = a]
  /\ EndTransaction(c)
  /\ UNCHANGED <<slot, month, bill>>

----------------------------------------------------------------------------
\* Settlement

MaySettle(a) ==
  /\ billing_lock[attempts[a].scope] = NoCaller
  /\ Open(a)

Settle(a, status, spent) ==
  /\ MaySettle(a)
  /\ attempts' = [attempts EXCEPT ![a].status = status, ![a].spent = spent]

\* Uncertain before it is sent, so that a kill cannot lose a possible charge.
Mark(c) ==
  /\ In(c, "reserved")
  /\ Settle(caller[c].id, "uncertain", 0)
  /\ At(c, "marked")
  /\ UNCHANGED <<slot, run_lock, billing_lock, month, bill>>

\* The last checks, under the owner's lock, refuse: nothing was sent.
Block(c) ==
  /\ In(c, "marked")
  /\ Settle(caller[c].id, "released", 0)
  /\ Over(c)
  /\ LeaveSlot(c)
  /\ UNCHANGED <<run_lock, billing_lock, month, bill>>

Send(c) ==
  /\ In(c, "marked")
  /\ bill' = [bill EXCEPT ![caller[c].id].state = "sent"]
  /\ At(c, "sent")
  /\ UNCHANGED <<attempts, slot, run_lock, billing_lock, month>>

\* Mutant: the output of a call is not paid for.
AnswerCheaper(c) ==
  /\ In(c, "sent")
  /\ LET a == caller[c].id
         r == attempts[a].request
     IN  /\ bill[a].state = "charged"
         /\ Settle(a, "spent", Cost(r, bill[a].used.input, 0))
  /\ Over(c)
  /\ LeaveSlot(c)
  /\ UNCHANGED <<run_lock, billing_lock, month, bill>>

\* An answer with a valid usage.
Answer(c) ==
  /\ In(c, "sent")
  /\ LET a == caller[c].id
         r == attempts[a].request
     IN  /\ bill[a].state = "charged"
         /\ Settle(a, "spent", Spent(r, bill[a].used))
  /\ Over(c)
  /\ LeaveSlot(c)
  /\ UNCHANGED <<run_lock, billing_lock, month, bill>>

\* Mutant: a call that timed out is taken for one that cost nothing.
FailReleased(c) ==
  /\ In(c, "sent")
  /\ Settle(caller[c].id, "released", 0)
  /\ Over(c)
  /\ LeaveSlot(c)
  /\ UNCHANGED <<run_lock, billing_lock, month, bill>>

\* A timeout, a refusal or an answer whose usage is not valid.
Fail(c) ==
  /\ In(c, "sent")
  /\ Settle(caller[c].id, "uncertain", 0)
  /\ Over(c)
  /\ LeaveSlot(c)
  /\ UNCHANGED <<run_lock, billing_lock, month, bill>>

\* The process ends, or an error ends the call and leaves its row as it is.
Crash(c) ==
  /\ ~In(c, "idle")
  /\ Over(c)
  /\ LeaveSlot(c)
  /\ EndTransaction(c)
  /\ UNCHANGED <<attempts, month, bill>>

\* The connection that holds the slot is lost while the call prepares to send on
\* others: it can still send, and nothing it learns can be recorded.
LoseConnection(c) ==
  /\ In(c, "marked")
  /\ At(c, "adrift")
  /\ LeaveSlot(c)
  /\ UNCHANGED <<attempts, run_lock, billing_lock, month, bill>>

SendAdrift(c) ==
  /\ In(c, "adrift")
  /\ bill' = [bill EXCEPT ![caller[c].id].state = "sent"]
  /\ Over(c)
  /\ UNCHANGED <<attempts, slot, run_lock, billing_lock, month>>

----------------------------------------------------------------------------
\* The operator, the provider and the calendar

\* No caller holds the attempt any more and the provider did not charge it.
Free(a) ==
  \/ bill[a].state = "free"
  \/ bill[a].state = "unsent" /\ \A c \in Caller : ~In(c, "idle") => caller[c].id # a

\* reconcile, inside the call slot: the most the call can have cost, or nothing.
SettleMax(a) ==
  /\ Exists(a)
  /\ slot[attempts[a].scope] = NoCaller
  /\ Settle(a, "spent", Reserved(attempts[a].request))
  /\ UNCHANGED <<slot, run_lock, billing_lock, caller, month, bill>>

ConfirmNoCharge(a) ==
  /\ Exists(a)
  /\ slot[attempts[a].scope] = NoCaller
  /\ Free(a)
  /\ Settle(a, "released", 0)
  /\ UNCHANGED <<slot, run_lock, billing_lock, caller, month, bill>>

\* The provider charges a call that was sent for what it used, early or late, or not.
Provide(a) ==
  /\ bill[a].state = "sent"
  /\ \/ \E used \in Usage(attempts[a].request) :
          bill' = [bill EXCEPT ![a] = [state |-> "charged", used |-> used]]
     \/ bill' = [bill EXCEPT ![a].state = "free"]
  /\ UNCHANGED <<attempts, slot, run_lock, billing_lock, caller, month>>

NextMonth ==
  /\ month < MaxMonth
  /\ month' = month + 1
  /\ UNCHANGED <<attempts, slot, run_lock, billing_lock, caller, bill>>

----------------------------------------------------------------------------
Progress(c) ==
  \/ LockRun(c) \/ LockBilling(c)
  \/ Assess(c) \/ Exhausted(c) \/ (\E a \in AttemptId : Reserve(c, a))
  \/ Mark(c) \/ Block(c) \/ Send(c) \/ Answer(c) \/ Fail(c)
  \/ SendAdrift(c)

Next ==
  \/ \E c \in Caller :
       \/ \E s \in Scope, r \in Run, q \in Request : EnterSlot(c, s, r, q)
       \/ Progress(c)
       \/ GiveUp(c)
       \/ Crash(c)
       \/ LoseConnection(c)
  \/ \E a \in AttemptId : SettleMax(a) \/ ConfirmNoCharge(a) \/ Provide(a)
  \/ NextMonth

Spec == Init /\ [][Next]_vars

\* A caller's step is not delayed for ever; PostgreSQL grants a lock in the order it
\* was asked for, so a caller that waits for one gets it.
Fairness ==
  \A c \in Caller : WF_vars(Progress(c)) /\ SF_vars(LockRun(c)) /\ SF_vars(LockBilling(c))

FairSpec == Spec /\ Fairness

----------------------------------------------------------------------------
\* Properties

TypeOK ==
  /\ attempts \in [AttemptId -> Row \cup {NoRow}]
  /\ slot \in [Scope -> Caller \cup {NoCaller}]
  /\ run_lock \in [Run -> Caller \cup {NoCaller}]
  /\ billing_lock \in [Scope -> Caller \cup {NoCaller}]
  /\ caller \in [Caller -> Call \cup {Idle}]
  /\ month \in Month
  /\ bill \in [AttemptId -> [state : {"unsent", "sent", "free", "charged"},
                             used : [input : Nat, output : Nat]]]

\* What the provider charged for the calls of a scope and a month.
Billed(s, m) ==
  {a \in AttemptId : Exists(a) /\ attempts[a].scope = s /\ attempts[a].month = m
                     /\ bill[a].state = "charged"}
BilledUnits(s, m) ==
  UNION {{a} \X (1 .. Spent(attempts[a].request, bill[a].used)) : a \in Billed(s, m)}

\* The provider never charges a scope more for the calls of one month than the monthly
\* limit, whatever crashes, times out, is answered late or is reconciled, and however
\* calls in different scopes and months interleave (reserve, settle, reconcile).
BillWithinLimit ==
  \A s \in Scope, m \in Month : Cardinality(BilledUnits(s, m)) <= MonthlyLimit

\* What reserve counts against a scope never exceeds the limit: the calls of the current
\* month and those of earlier months whose outcome is unknown, so a month does not begin
\* with more at stake than it may spend.
ExposureWithinLimit == \A s \in Scope : Total(InMonth(s, month)) <= MonthlyLimit

\* A run keeps to its limits of money and calls across billing scopes and months
\* (the lock of the run in reserve: a changed scope does not reset them).
RunWithinLimits ==
  \A r \in Run :
    /\ Total(InRun(r)) <= RunLimit[r]
    /\ CallLimit[r] # 0 => Cardinality(InRun(r)) <= CallLimit[r]

\* A call that was charged is on the ledger, for no less than it cost: neither a kill
\* between reservation and settlement, nor a late charge after a timeout, nor a lost
\* connection leaves a charge the budget does not see.
LedgerCoversBill ==
  \A a \in AttemptId : bill[a].state = "charged" =>
    Active(a) /\ Spent(attempts[a].request, bill[a].used) <= Charge(a)

\* A settled attempt stays as it was settled: an operator that reconciles twice does
\* not turn a cost into a release (settle refuses ATTEMPT_ALREADY_SETTLED).
SettledForGood ==
  [][\A a \in AttemptId :
       attempts[a].status \in {"spent", "released"} => attempts'[a] = attempts[a]]_vars

\* Calls of two scopes that wait for each other's locks would hold their slots for
\* ever: a scope's slot always comes free (the lock order in reserve, the end of
\* every path out of call_slot).
SlotComesFree == \A s \in Scope : slot[s] # NoCaller ~> slot[s] = NoCaller

=============================================================================
