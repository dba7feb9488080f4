--------------------------- MODULE AiUsageProofs ---------------------------
(***************************************************************************)
(* Proofs about AiUsage: for any callers, scopes, runs, prices and limits   *)
(* the provider never charges a scope more than its monthly limit.          *)
(***************************************************************************)
EXTENDS AiUsage, FiniteSetTheorems, TLAPS

(***************************************************************************)
(* Costs.                                                                  *)
(***************************************************************************)
LEMMA ProductGrows ==
  ASSUME NEW x \in Nat, NEW y \in Nat, NEW p \in Nat, x <= y
  PROVE  x * p \in Nat /\ y * p \in Nat /\ x * p <= y * p
<1>1. PICK d \in Nat : y = x + d
  <2>1. y - x \in Nat /\ y = x + (y - x)
    OBVIOUS
  <2> QED
    BY <2>1
<1>2. y * p = x * p + d * p
  BY <1>1
<1>3. x * p \in Nat /\ d * p \in Nat
  OBVIOUS
<1> QED
  BY <1>2, <1>3

LEMMA QuotientGrows ==
  ASSUME NEW x \in Nat, NEW y \in Nat, x <= y
  PROVE  /\ (x + 999999) \div 1000000 \in Nat
         /\ (x + 999999) \div 1000000 <= (y + 999999) \div 1000000
         /\ (x + 49) \div 50 \in Nat
         /\ (x + 49) \div 50 <= (y + 49) \div 50
OBVIOUS

\* A call that keeps to the bounds it was reserved with costs no more than was reserved.
LEMMA CostsBounded ==
  ASSUME NEW r \in RequestType
  PROVE  /\ Reserved(r) \in Nat
         /\ \A used \in Usage(r) : Spent(r, used) \in Nat /\ Spent(r, used) <= Reserved(r)
<1>1. ASSUME NEW i \in Nat, NEW o \in Nat, i <= r.input, o <= r.output
      PROVE  Cost(r, i, o) \in Nat /\ Cost(r, i, o) <= Cost(r, r.input, r.output)
  <2>1. r.input \in Nat /\ r.output \in Nat /\ r.input_price \in Nat /\ r.output_price \in Nat
    BY DEF RequestType
  <2>2. CASE r.purpose \in Priced
    <3> DEFINE x == i * r.input_price + o * r.output_price
               y == r.input * r.input_price + r.output * r.output_price
    <3>1. x \in Nat /\ y \in Nat /\ x <= y
      <4>1. /\ i * r.input_price \in Nat /\ r.input * r.input_price \in Nat
            /\ i * r.input_price <= r.input * r.input_price
        BY <1>1, <2>1, ProductGrows
      <4>2. /\ o * r.output_price \in Nat /\ r.output * r.output_price \in Nat
            /\ o * r.output_price <= r.output * r.output_price
        BY <1>1, <2>1, ProductGrows
      <4> QED
        BY <4>1, <4>2
    <3>2. /\ Cost(r, i, o) = (x + 999999) \div 1000000
          /\ Cost(r, r.input, r.output) = (y + 999999) \div 1000000
      BY <2>2 DEF Cost
    <3> HIDE DEF x, y
    <3> QED
      BY <3>1, <3>2, QuotientGrows
  <2>3. CASE r.purpose \notin Priced
    BY <1>1, <2>1, <2>3, QuotientGrows DEF Cost
  <2> QED
    BY <2>2, <2>3
<1>2. r.input \in Nat /\ r.output \in Nat
  BY DEF RequestType
<1>3. Reserved(r) \in Nat
  BY <1>1, <1>2 DEF Reserved
<1>4. ASSUME NEW used \in Usage(r)
      PROVE  Spent(r, used) \in Nat /\ Spent(r, used) <= Reserved(r)
  <2>1. /\ used.input \in Nat /\ used.input <= r.input
        /\ used.output \in Nat /\ used.output <= r.output
    BY <1>2, <1>4 DEF Usage
  <2> QED
    BY <1>1, <2>1 DEF Spent, Reserved
<1> QED
  BY <1>3, <1>4

(***************************************************************************)
(* Type correctness.                                                       *)
(***************************************************************************)
LEMMA Typed ==
  ASSUME TypeOK
  PROVE  /\ \A c \in Caller : ~In(c, "idle") => caller[c] \in Call
         /\ \A a \in AttemptId : Exists(a) => attempts[a] \in Row
         /\ \A a \in AttemptId : Exists(a) => attempts[a].request \in RequestType
<1>1. ASSUME NEW c \in Caller, ~In(c, "idle") PROVE caller[c] \in Call
  BY <1>1 DEF TypeOK, In, Idle
<1>2. ASSUME NEW a \in AttemptId, Exists(a) PROVE attempts[a] \in Row
  BY <1>2 DEF TypeOK, Exists, NoRow
<1>3. ASSUME NEW a \in AttemptId, Exists(a) PROVE attempts[a].request \in RequestType
  BY <1>2, <1>3, RequestsAssumption DEF Row
<1> QED
  BY <1>1, <1>2, <1>3

LEMMA CallerTyped ==
  ASSUME TypeOK, NEW c \in Caller
  PROVE  /\ Over(c) => caller' \in [Caller -> Call \cup {Idle}]
         /\ \A phase \in Phase \ {"idle"} : ~In(c, "idle") /\ At(c, phase)
               => caller' \in [Caller -> Call \cup {Idle}]
<1>1. caller \in [Caller -> Call \cup {Idle}]
  BY DEF TypeOK
<1>2. ASSUME Over(c) PROVE caller' \in [Caller -> Call \cup {Idle}]
  BY <1>1, <1>2 DEF Over
<1>3. ASSUME NEW phase \in Phase \ {"idle"}, ~In(c, "idle"), At(c, phase)
      PROVE  caller' \in [Caller -> Call \cup {Idle}]
  <2>1. caller[c] \in Call
    BY <1>3, Typed
  <2>2. [caller[c] EXCEPT !.phase = phase] \in Call
    BY <2>1 DEF Call
  <2>3. caller' = [caller EXCEPT ![c] = [caller[c] EXCEPT !.phase = phase]]
    BY <1>3 DEF At
  <2> QED
    BY <1>1, <2>2, <2>3
<1> QED
  BY <1>2, <1>3

LEMMA LocksTyped ==
  ASSUME NEW c, NEW K, NEW locks \in [K -> Caller \cup {NoCaller}]
  PROVE  Without(locks, c) \in [K -> Caller \cup {NoCaller}]
BY DEF Without

LEMMA LeavingTyped ==
  ASSUME TypeOK, NEW c \in Caller
  PROVE  /\ LeaveSlot(c) => slot' \in [Scope -> Caller \cup {NoCaller}]
         /\ EndTransaction(c) => /\ run_lock' \in [Run -> Caller \cup {NoCaller}]
                                 /\ billing_lock' \in [Scope -> Caller \cup {NoCaller}]
BY LocksTyped DEF TypeOK, LeaveSlot, EndTransaction

(***************************************************************************)
(* The inductive invariant.                                                *)
(***************************************************************************)
Holds(c, a) ==
  caller[c].phase \in {"reserved", "marked", "sent", "adrift"} /\ caller[c].id = a

\* A caller in a call holds the slot of its scope, and in a transaction its locks.
LocksHeld ==
  \A c \in Caller :
    /\ ~In(c, "idle") /\ ~In(c, "adrift") => slot[caller[c].scope] = c
    /\ caller[c].phase \in {"run", "billing", "passed"} => run_lock[caller[c].run] = c
    /\ caller[c].phase \in {"billing", "passed"} => billing_lock[caller[c].scope] = c

\* The row a caller holds is its own, and open while it can still be settled by it.
RowHeld(c, a) ==
  /\ Active(a)
  /\ attempts[a].scope = caller[c].scope
  /\ ~In(c, "adrift") => Open(a)
  /\ ~In(c, "sent") => bill[a].state = "unsent"

RowsHeld ==
  /\ \A c \in Caller, a \in AttemptId : Holds(c, a) => RowHeld(c, a)
  /\ \A c \in Caller : caller[c].phase \in {"reserved", "marked", "sent", "adrift"}
                         => caller[c].id \in AttemptId
  /\ \A c \in Caller : caller[c].phase \in {"slot", "run", "billing", "passed"}
                         => caller[c].id = NoAttempt
  /\ \A c, d \in Caller, a \in AttemptId : Holds(c, a) /\ Holds(d, a) => c = d

\* What a row can say of the call it stands for.
RowSound(a) ==
  /\ attempts[a].month <= month
  /\ Reserved(attempts[a].request) <= MonthlyLimit
  /\ Charge(a) <= Reserved(attempts[a].request)
  /\ bill[a].state \in {"sent", "charged"} => Active(a)
  /\ bill[a].state = "charged" =>
       /\ bill[a].used \in Usage(attempts[a].request)
       /\ Spent(attempts[a].request, bill[a].used) <= Charge(a)
  /\ bill[a].state # "charged" => Charge(a) = Reserved(attempts[a].request)

RowsSound ==
  /\ \A a \in AttemptId : Exists(a) => RowSound(a)
  /\ \A a \in AttemptId : ~Exists(a) => bill[a].state = "unsent"

\* The rows of a month, whatever became of them.
Booked(s, m) ==
  {a \in AttemptId : Active(a) /\ attempts[a].scope = s /\ attempts[a].month = m}

\* What was found to fit still fits when it is inserted.
StillFits(c) ==
  /\ caller[c].month <= month
  /\ \A a \in AttemptId :
       Exists(a) /\ attempts[a].scope = caller[c].scope
         => attempts[a].month <= caller[c].month
  /\ CallLimit[caller[c].run] # 0
       => Cardinality(InRun(caller[c].run)) < CallLimit[caller[c].run]
  /\ Total(InMonth(caller[c].scope, caller[c].month)) + Reserved(caller[c].request)
       <= MonthlyLimit
  /\ Total(InRun(caller[c].run)) + Reserved(caller[c].request)
       <= RunLimit[caller[c].run]

BookedWithinLimit ==
  \A s \in Scope, m \in Month : Total(Booked(s, m)) <= MonthlyLimit

Budgets ==
  /\ \A c \in Caller : In(c, "passed") => StillFits(c)
  /\ ExposureWithinLimit
  /\ BookedWithinLimit
  /\ RunWithinLimits

IInv == TypeOK /\ LocksHeld /\ RowsHeld /\ RowsSound /\ Budgets

(***************************************************************************)
(* Initially nothing is at stake.                                          *)
(***************************************************************************)
LEMMA InitInv ==
  ASSUME Init
  PROVE  IInv
<1>1. TypeOK
  BY LimitsAssumption DEF Init, TypeOK, NoRow, Idle, Unsent, Nothing, Month
<1>2. LocksHeld /\ RowsHeld
  BY DEF Init, LocksHeld, RowsHeld, Holds, In, Idle
<1>3. RowsSound
  BY DEF Init, RowsSound, Exists, NoRow, Unsent
<1>4. \A a \in AttemptId : ~Active(a)
  BY DEF Init, Active, NoRow
<1>5. /\ \A s \in Scope, m \in Month : InMonth(s, m) = {} /\ Booked(s, m) = {}
      /\ \A r \in Run : InRun(r) = {}
  BY <1>4 DEF InMonth, Booked, InRun
<1>6. Total({}) = 0
  BY FS_EmptySet DEF Total, Units
<1>7. month \in Month
  BY <1>1 DEF TypeOK
<1>8. ExposureWithinLimit /\ BookedWithinLimit
  <2>1. \A s \in Scope, m \in Month : Total(InMonth(s, m)) = 0 /\ Total(Booked(s, m)) = 0
    BY <1>5, <1>6
  <2>2. 0 <= MonthlyLimit
    BY LimitsAssumption
  <2> QED
    BY <1>7, <2>1, <2>2 DEF ExposureWithinLimit, BookedWithinLimit
<1>9. RunWithinLimits
  BY <1>5, <1>6, LimitsAssumption, FS_EmptySet DEF RunWithinLimits
<1>10. \A c \in Caller : ~In(c, "passed")
  BY DEF Init, In, Idle
<1> QED
  BY <1>1, <1>2, <1>3, <1>8, <1>9, <1>10 DEF IInv, Budgets

(***************************************************************************)
(* Steps of a caller that leave the ledger alone.                          *)
(***************************************************************************)
LEMMA LedgerAlone ==
  ASSUME RowsSound, UNCHANGED <<attempts, month, bill>>
  PROVE  RowsSound'
BY DEF RowsSound, RowSound, Exists, Active, Charge

LEMMA TotalsAlone ==
  ASSUME UNCHANGED attempts
  PROVE  /\ \A S : Total(S)' = Total(S)
         /\ \A s, m : InMonth(s, m)' = InMonth(s, m) /\ Booked(s, m)' = Booked(s, m)
         /\ \A r : InRun(r)' = InRun(r)
         /\ \A a : Exists(a)' = Exists(a) /\ Active(a)' = Active(a) /\ Open(a)' = Open(a)
                   /\ Charge(a)' = Charge(a)
<1>1. \A a : Exists(a)' = Exists(a) /\ Active(a)' = Active(a) /\ Open(a)' = Open(a)
             /\ Charge(a)' = Charge(a)
  BY DEF Exists, Active, Open, Charge
<1>2. \A S : Total(S)' = Total(S)
  BY <1>1 DEF Total, Units
<1>3. \A s, m : InMonth(s, m)' = InMonth(s, m) /\ Booked(s, m)' = Booked(s, m)
  BY <1>1 DEF InMonth, Booked
<1>4. \A r : InRun(r)' = InRun(r)
  BY <1>1 DEF InRun
<1> QED
  BY <1>1, <1>2, <1>3, <1>4

LEMMA BudgetsAlone ==
  ASSUME Budgets, UNCHANGED <<attempts, month>>,
         \A c \in Caller : In(c, "passed")' => In(c, "passed") /\ caller'[c] = caller[c]
  PROVE  Budgets'
<1>1. ASSUME NEW c \in Caller, In(c, "passed")' PROVE StillFits(c)'
  <2>1. StillFits(c) /\ caller'[c] = caller[c]
    BY <1>1 DEF Budgets
  <2> QED
    BY <2>1, TotalsAlone DEF StillFits
<1>2. ExposureWithinLimit' /\ BookedWithinLimit' /\ RunWithinLimits'
  BY TotalsAlone DEF Budgets, ExposureWithinLimit, BookedWithinLimit, RunWithinLimits
<1> QED
  BY <1>1, <1>2 DEF Budgets

OthersStay(c) == \A d \in Caller : d # c => caller'[d] = caller[d]

\* No lock of another caller is taken away.
OthersKeep(c) ==
  \A d \in Caller : d # c =>
    /\ \A s \in Scope : slot[s] = d => slot'[s] = d
    /\ \A r \in Run : run_lock[r] = d => run_lock'[r] = d
    /\ \A s \in Scope : billing_lock[s] = d => billing_lock'[s] = d

LEMMA LocksMove ==
  ASSUME TypeOK, LocksHeld, NEW c \in Caller, OthersStay(c), OthersKeep(c),
         ~In(c, "idle")' /\ ~In(c, "adrift")' => slot'[caller'[c].scope] = c,
         caller'[c].phase \in {"run", "billing", "passed"} => run_lock'[caller'[c].run] = c,
         caller'[c].phase \in {"billing", "passed"} => billing_lock'[caller'[c].scope] = c
  PROVE  LocksHeld'
<1>1. ASSUME NEW d \in Caller, d # c
      PROVE  /\ ~In(d, "idle")' /\ ~In(d, "adrift")' => slot'[caller'[d].scope] = d
             /\ caller'[d].phase \in {"run", "billing", "passed"} => run_lock'[caller'[d].run] = d
             /\ caller'[d].phase \in {"billing", "passed"} => billing_lock'[caller'[d].scope] = d
  <2>1. caller'[d] = caller[d]
    BY <1>1 DEF OthersStay
  <2>2. ~In(d, "idle") => caller[d].scope \in Scope /\ caller[d].run \in Run
    BY Typed DEF Call
  <2> QED
    BY <1>1, <2>1, <2>2 DEF LocksHeld, OthersKeep, In
<1> QED
  BY <1>1 DEF LocksHeld

LEMMA RowsMove ==
  ASSUME TypeOK, RowsHeld, NEW c \in Caller, OthersStay(c), UNCHANGED <<attempts, bill>>,
         \/ caller'[c] = Idle
         \/ /\ caller'[c].phase \in {"slot", "run", "billing", "passed"}
            /\ caller'[c].id = NoAttempt
         \/ /\ In(c, "marked") /\ caller'[c].phase = "adrift"
            /\ caller'[c].id = caller[c].id /\ caller'[c].scope = caller[c].scope
  PROVE  RowsHeld'
<1>1. \A a \in AttemptId : Holds(c, a)' => Holds(c, a)
  BY DEF Holds, Idle, In
<1>2. \A d \in Caller, a \in AttemptId : d # c => Holds(d, a)' = Holds(d, a)
  BY DEF Holds, OthersStay
<1>3. ASSUME NEW d \in Caller, NEW a \in AttemptId, Holds(d, a)' PROVE RowHeld(d, a)'
  <2>1. Holds(d, a) /\ RowHeld(d, a)
    BY <1>1, <1>2, <1>3 DEF RowsHeld
  <2>2. CASE d # c
    BY <2>1, <2>2 DEF RowHeld, OthersStay, Active, Open, In
  <2>3. CASE d = c
    BY <1>3, <2>1, <2>3 DEF RowHeld, Active, Open, In, Idle, Holds
  <2> QED
    BY <2>2, <2>3
<1>4. \A d \in Caller : caller'[d].phase \in {"reserved", "marked", "sent", "adrift"}
                          => caller'[d].id \in AttemptId
  BY DEF RowsHeld, OthersStay, Idle, In
<1>5. \A d \in Caller : caller'[d].phase \in {"slot", "run", "billing", "passed"}
                          => caller'[d].id = NoAttempt
  BY DEF RowsHeld, OthersStay, Idle
<1>6. \A d, e \in Caller, a \in AttemptId : Holds(d, a)' /\ Holds(e, a)' => d = e
  BY <1>1, <1>2 DEF RowsHeld
<1> QED
  BY <1>3, <1>4, <1>5, <1>6 DEF RowsHeld

LEMMA Leaving ==
  ASSUME TypeOK, NEW c \in Caller, Over(c), LeaveSlot(c),
         EndTransaction(c) \/ UNCHANGED <<run_lock, billing_lock>>
  PROVE  /\ caller'[c] = Idle
         /\ OthersStay(c)
         /\ OthersKeep(c)
<1>1. caller'[c] = Idle /\ OthersStay(c)
  BY DEF Over, OthersStay, TypeOK
<1>2. OthersKeep(c)
  BY DEF OthersKeep, LeaveSlot, EndTransaction, Without, TypeOK
<1> QED
  BY <1>1, <1>2

LEMMA Ending ==
  ASSUME IInv, NEW c \in Caller, Over(c), LeaveSlot(c),
         EndTransaction(c) \/ UNCHANGED <<run_lock, billing_lock>>,
         UNCHANGED <<attempts, month, bill>>
  PROVE  IInv'
<1>1. /\ caller'[c] = Idle
      /\ OthersStay(c)
      /\ OthersKeep(c)
  BY Leaving DEF IInv
<1>2. TypeOK'
  BY CallerTyped, LeavingTyped DEF IInv, TypeOK
<1>3. LocksHeld'
  BY <1>1, LocksMove DEF IInv, In, Idle
<1>4. RowsHeld'
  BY <1>1, RowsMove DEF IInv
<1>5. Budgets'
  BY <1>1, BudgetsAlone DEF IInv, OthersStay, In, Idle
<1> QED
  BY <1>2, <1>3, <1>4, <1>5, LedgerAlone DEF IInv

LEMMA LockRunInv ==
  ASSUME IInv, NEW c \in Caller, LockRun(c)
  PROVE  IInv'
<1>1. caller[c] \in Call /\ caller'[c] = [caller[c] EXCEPT !.phase = "run"]
  BY Typed DEF IInv, TypeOK, LockRun, In, At
<1>2. /\ caller'[c].phase = "run" /\ caller'[c].id = caller[c].id
      /\ caller'[c].scope = caller[c].scope /\ caller'[c].run = caller[c].run
  BY <1>1 DEF Call
<1>3. OthersStay(c)
  BY DEF LockRun, At, OthersStay, IInv, TypeOK
<1>4. OthersKeep(c)
  BY CallersAssumption DEF LockRun, OthersKeep, IInv, TypeOK, LeaveSlot, Without
<1>5. TypeOK'
  <2>1. caller' \in [Caller -> Call \cup {Idle}]
    BY CallerTyped DEF IInv, LockRun, Phase, In
  <2>2. UNCHANGED <<attempts, month, bill>>
    BY DEF LockRun
  <2>3. /\ slot' \in [Scope -> Caller \cup {NoCaller}]
        /\ run_lock' \in [Run -> Caller \cup {NoCaller}]
        /\ billing_lock' \in [Scope -> Caller \cup {NoCaller}]
    BY LeavingTyped DEF LockRun, IInv, TypeOK
  <2> QED
    BY <2>1, <2>2, <2>3 DEF IInv, TypeOK
<1>6. LocksHeld'
  <2>1. caller[c].scope \in Scope /\ caller[c].run \in Run
    BY <1>1 DEF Call
  <2>2. /\ ~In(c, "idle")' /\ ~In(c, "adrift")' => slot'[caller'[c].scope] = c
        /\ caller'[c].phase \in {"run", "billing", "passed"} => run_lock'[caller'[c].run] = c
        /\ caller'[c].phase \in {"billing", "passed"} => billing_lock'[caller'[c].scope] = c
    BY <1>2, <2>1 DEF IInv, TypeOK, LocksHeld, LockRun, In
  <2> QED
    BY <1>3, <1>4, <2>2, LocksMove DEF IInv
<1>7. RowsHeld'
  BY <1>2, <1>3, RowsMove DEF IInv, RowsHeld, LockRun, In
<1>8. Budgets'
  BY <1>2, <1>3, BudgetsAlone DEF IInv, OthersStay, LockRun, In
<1> QED
  BY <1>5, <1>6, <1>7, <1>8, LedgerAlone DEF IInv, LockRun

LEMMA LockBillingInv ==
  ASSUME IInv, NEW c \in Caller, LockBilling(c)
  PROVE  IInv'
<1>1. caller[c] \in Call /\ caller'[c] = [caller[c] EXCEPT !.phase = "billing"]
  BY Typed DEF IInv, TypeOK, LockBilling, In, At
<1>2. /\ caller'[c].phase = "billing" /\ caller'[c].id = caller[c].id
      /\ caller'[c].scope = caller[c].scope /\ caller'[c].run = caller[c].run
  BY <1>1 DEF Call
<1>3. OthersStay(c)
  BY DEF LockBilling, At, OthersStay, IInv, TypeOK
<1>4. OthersKeep(c)
  BY CallersAssumption DEF LockBilling, OthersKeep, IInv, TypeOK, LeaveSlot, Without
<1>5. TypeOK'
  <2>1. caller' \in [Caller -> Call \cup {Idle}]
    BY CallerTyped DEF IInv, LockBilling, Phase, In
  <2>2. UNCHANGED <<attempts, month, bill>>
    BY DEF LockBilling
  <2>3. /\ slot' \in [Scope -> Caller \cup {NoCaller}]
        /\ run_lock' \in [Run -> Caller \cup {NoCaller}]
        /\ billing_lock' \in [Scope -> Caller \cup {NoCaller}]
    BY LeavingTyped DEF LockBilling, IInv, TypeOK
  <2> QED
    BY <2>1, <2>2, <2>3 DEF IInv, TypeOK
<1>6. LocksHeld'
  <2>1. caller[c].scope \in Scope /\ caller[c].run \in Run
    BY <1>1 DEF Call
  <2>2. /\ ~In(c, "idle")' /\ ~In(c, "adrift")' => slot'[caller'[c].scope] = c
        /\ caller'[c].phase \in {"run", "billing", "passed"} => run_lock'[caller'[c].run] = c
        /\ caller'[c].phase \in {"billing", "passed"} => billing_lock'[caller'[c].scope] = c
    BY <1>2, <2>1 DEF IInv, TypeOK, LocksHeld, LockBilling, In
  <2> QED
    BY <1>3, <1>4, <2>2, LocksMove DEF IInv
<1>7. RowsHeld'
  BY <1>2, <1>3, RowsMove DEF IInv, RowsHeld, LockBilling, In
<1>8. Budgets'
  BY <1>2, <1>3, BudgetsAlone DEF IInv, OthersStay, LockBilling, In
<1> QED
  BY <1>5, <1>6, <1>7, <1>8, LedgerAlone DEF IInv, LockBilling

LEMMA LoseConnectionInv ==
  ASSUME IInv, NEW c \in Caller, LoseConnection(c)
  PROVE  IInv'
<1>1. caller[c] \in Call /\ caller'[c] = [caller[c] EXCEPT !.phase = "adrift"]
  BY Typed DEF IInv, TypeOK, LoseConnection, In, At
<1>2. /\ caller'[c].phase = "adrift" /\ caller'[c].id = caller[c].id
      /\ caller'[c].scope = caller[c].scope /\ caller'[c].run = caller[c].run
  BY <1>1 DEF Call
<1>3. OthersStay(c)
  BY DEF LoseConnection, At, OthersStay, IInv, TypeOK
<1>4. OthersKeep(c)
  BY CallersAssumption DEF LoseConnection, OthersKeep, IInv, TypeOK, LeaveSlot, Without
<1>5. TypeOK'
  <2>1. caller' \in [Caller -> Call \cup {Idle}]
    BY CallerTyped DEF IInv, LoseConnection, Phase, In
  <2>2. UNCHANGED <<attempts, month, bill>>
    BY DEF LoseConnection
  <2>3. /\ slot' \in [Scope -> Caller \cup {NoCaller}]
        /\ run_lock' \in [Run -> Caller \cup {NoCaller}]
        /\ billing_lock' \in [Scope -> Caller \cup {NoCaller}]
    BY LeavingTyped DEF LoseConnection, IInv, TypeOK
  <2> QED
    BY <2>1, <2>2, <2>3 DEF IInv, TypeOK
<1>6. LocksHeld'
  <2>1. caller[c].scope \in Scope /\ caller[c].run \in Run
    BY <1>1 DEF Call
  <2>2. /\ ~In(c, "idle")' /\ ~In(c, "adrift")' => slot'[caller'[c].scope] = c
        /\ caller'[c].phase \in {"run", "billing", "passed"} => run_lock'[caller'[c].run] = c
        /\ caller'[c].phase \in {"billing", "passed"} => billing_lock'[caller'[c].scope] = c
    BY <1>2, <2>1 DEF IInv, TypeOK, LocksHeld, LoseConnection, In
  <2> QED
    BY <1>3, <1>4, <2>2, LocksMove DEF IInv
<1>7. RowsHeld'
  BY <1>2, <1>3, RowsMove DEF IInv, RowsHeld, LoseConnection, In
<1>8. Budgets'
  BY <1>2, <1>3, BudgetsAlone DEF IInv, OthersStay, LoseConnection, In
<1> QED
  BY <1>5, <1>6, <1>7, <1>8, LedgerAlone DEF IInv, LoseConnection

LEMMA AssessInv ==
  ASSUME IInv, NEW c \in Caller, Assess(c)
  PROVE  IInv'
<1>1. /\ caller[c] \in Call
      /\ caller'[c] = [caller[c] EXCEPT !.phase = "passed", !.month = month]
  BY Typed DEF IInv, TypeOK, Assess, In
<1>2. /\ caller'[c].phase = "passed" /\ caller'[c].id = caller[c].id
      /\ caller'[c].scope = caller[c].scope /\ caller'[c].run = caller[c].run
      /\ caller'[c].request = caller[c].request /\ caller'[c].month = month
      /\ caller'[c] \in Call
  BY <1>1 DEF Call, Phase, IInv, TypeOK
<1>3. OthersStay(c) /\ OthersKeep(c)
  BY DEF Assess, OthersStay, OthersKeep, IInv, TypeOK
<1>4. TypeOK'
  <2>1. caller' \in [Caller -> Call \cup {Idle}]
    BY <1>2 DEF IInv, TypeOK, Assess
  <2> QED
    BY <2>1 DEF IInv, TypeOK, Assess
<1>5. LocksHeld'
  <2>1. /\ slot'[caller'[c].scope] = c /\ run_lock'[caller'[c].run] = c
        /\ billing_lock'[caller'[c].scope] = c
    BY <1>2 DEF IInv, LocksHeld, Assess, In
  <2> QED
    BY <1>3, <2>1, LocksMove DEF IInv
<1>6. RowsHeld'
  BY <1>2, <1>3, RowsMove DEF IInv, RowsHeld, Assess, In
<1>7. StillFits(c)'
  <2>1. Fits(caller[c].scope, caller[c].run, caller[c].request)
    BY DEF Assess
  <2>2. month \in Nat
    BY DEF IInv, TypeOK, Month
  <2>3. \A a \in AttemptId : Exists(a) => attempts[a].month <= month
    BY DEF IInv, RowsSound, RowSound
  <2>4. StillFits(c)' <=>
          /\ month <= month
          /\ \A a \in AttemptId :
               Exists(a) /\ attempts[a].scope = caller[c].scope => attempts[a].month <= month
          /\ Fits(caller[c].scope, caller[c].run, caller[c].request)
    BY <1>2, TotalsAlone DEF StillFits, Fits, Assess
  <2> QED
    BY <2>1, <2>2, <2>3, <2>4
<1>8. Budgets'
  <2>1. ASSUME NEW d \in Caller, In(d, "passed")', d # c PROVE StillFits(d)'
    <3>1. caller'[d] = caller[d] /\ StillFits(d)
      BY <1>3, <2>1 DEF OthersStay, IInv, Budgets, In
    <3> QED
      BY <3>1, TotalsAlone DEF StillFits, Assess
  <2>2. ExposureWithinLimit' /\ BookedWithinLimit' /\ RunWithinLimits'
    BY TotalsAlone DEF IInv, Budgets, ExposureWithinLimit, BookedWithinLimit, RunWithinLimits,
                       Assess
  <2> QED
    BY <1>7, <2>1, <2>2 DEF Budgets
<1> QED
  BY <1>4, <1>5, <1>6, <1>8, LedgerAlone DEF IInv, Assess

LEMMA EnterSlotInv ==
  ASSUME IInv, NEW c \in Caller, NEW s \in Scope, NEW r \in Run, NEW q \in Request,
         EnterSlot(c, s, r, q)
  PROVE  IInv'
<1> DEFINE call == [phase |-> "slot", scope |-> s, run |-> r, request |-> q,
                    month |-> month, id |-> NoAttempt]
<1>1. caller'[c] = call
  BY DEF EnterSlot, IInv, TypeOK
<1>2. OthersStay(c)
  BY DEF EnterSlot, OthersStay, IInv, TypeOK
<1>3. OthersKeep(c)
  BY CallersAssumption DEF EnterSlot, OthersKeep, IInv, TypeOK
<1>4. TypeOK'
  <2>1. call \in Call
    BY DEF Call, Phase, IInv, TypeOK
  <2>2. caller' \in [Caller -> Call \cup {Idle}]
    BY <2>1 DEF IInv, TypeOK, EnterSlot
  <2> QED
    BY <2>2 DEF IInv, TypeOK, EnterSlot
<1>5. LocksHeld'
  <2>1. slot'[s] = c
    BY DEF EnterSlot, IInv, TypeOK
  <2> QED
    BY <1>1, <1>2, <1>3, <2>1, LocksMove DEF IInv, In
<1>6. RowsHeld'
  BY <1>1, <1>2, RowsMove DEF IInv, EnterSlot
<1>7. Budgets'
  BY <1>1, <1>2, BudgetsAlone DEF IInv, OthersStay, EnterSlot, In
<1> QED
  BY <1>4, <1>5, <1>6, <1>7, LedgerAlone DEF IInv, EnterSlot

(***************************************************************************)
(* Sums of charges.                                                        *)
(***************************************************************************)
LEMMA ChargeTyped ==
  ASSUME TypeOK, RowsSound, NEW a \in AttemptId, Exists(a)
  PROVE  /\ Charge(a) \in Nat
         /\ Charge(a) <= Reserved(attempts[a].request)
         /\ Charge(a) <= MonthlyLimit
         /\ Reserved(attempts[a].request) \in Nat
<1>1. attempts[a] \in Row /\ Reserved(attempts[a].request) \in Nat
  BY Typed, CostsBounded
<1>2. Charge(a) \in Nat
  BY <1>1 DEF Charge, Row
<1> QED
  BY <1>1, <1>2, LimitsAssumption DEF RowsSound, RowSound

LEMMA UnitsFinite ==
  ASSUME TypeOK, RowsSound, NEW S \in SUBSET AttemptId, \A a \in S : Exists(a)
  PROVE  IsFiniteSet(Units(S)) /\ Total(S) \in Nat
<1>1. IsFiniteSet(AttemptId \X (1 .. MonthlyLimit))
  <2>1. IsFiniteSet(1 .. MonthlyLimit)
    BY LimitsAssumption, FS_Interval
  <2> QED
    BY <2>1, AttemptsAssumption, FS_Product
<1>2. \A a \in S : Charge(a) \in Nat /\ Charge(a) <= MonthlyLimit
  BY ChargeTyped
<1>3. Units(S) \in SUBSET (AttemptId \X (1 .. MonthlyLimit))
  BY <1>2, LimitsAssumption DEF Units
<1>4. IsFiniteSet(Units(S))
  BY <1>1, <1>3, FS_Subset
<1> QED
  BY <1>4, FS_CardinalityType DEF Total

\* Fewer rows, each with a charge that is no larger, add up to no more.
LEMMA TotalLowers ==
  ASSUME TypeOK, RowsSound, NEW S \in SUBSET AttemptId, NEW T \in SUBSET S,
         \A a \in S : Exists(a),
         \A a \in T : Charge(a)' \in Nat /\ Charge(a)' <= Charge(a)
  PROVE  Total(T)' \in Nat /\ Total(T)' <= Total(S)
<1>1. IsFiniteSet(Units(S)) /\ Total(S) \in Nat
  BY UnitsFinite
<1>2. \A a \in S : Charge(a) \in Nat
  BY ChargeTyped
<1>3. Units(T)' \in SUBSET Units(S)
  BY <1>2 DEF Units
<1>4. IsFiniteSet(Units(T)') /\ Cardinality(Units(T))' <= Cardinality(Units(S))
  BY <1>1, <1>3, FS_Subset
<1>5. Cardinality(Units(T))' \in Nat
  BY <1>4, FS_CardinalityType
<1> QED
  BY <1>4, <1>5 DEF Total

\* A new row adds its charge.
LEMMA TotalGrows ==
  ASSUME TypeOK, RowsSound, NEW S \in SUBSET AttemptId, NEW b \in AttemptId, b \notin S,
         NEW T, T = S \cup {b},
         \A a \in S : Exists(a),
         \A a \in S : Charge(a)' = Charge(a),
         Charge(b)' \in Nat
  PROVE  Total(S) \in Nat /\ Total(T)' = Total(S) + Charge(b)'
<1> DEFINE n == Charge(b)'
           B == {b} \X (1 .. n)
<1>1. IsFiniteSet(Units(S))
  BY UnitsFinite
<1>2. IsFiniteSet(B) /\ Cardinality(B) = n
  <2>1. IsFiniteSet({b}) /\ Cardinality({b}) = 1
    BY FS_Singleton
  <2>2. IsFiniteSet(1 .. n) /\ Cardinality(1 .. n) = n
    BY FS_Interval
  <2> HIDE DEF n
  <2>3. IsFiniteSet(B) /\ Cardinality(B) = 1 * Cardinality(1 .. n)
    BY <2>1, <2>2, FS_Product
  <2> QED
    BY <2>2, <2>3 DEF n
<1>3. Units(T)' = Units(S) \cup B
  BY DEF Units
<1>4. Units(S) \cap B = {}
  BY DEF Units
<1>5. Cardinality(Units(S) \cup B) = Cardinality(Units(S)) + n
  <2>1. Cardinality(Units(S) \cup B) = Cardinality(Units(S)) + Cardinality(B)
                                         - Cardinality(Units(S) \cap B)
    BY <1>1, <1>2, FS_Union
  <2>2. Cardinality(Units(S) \cap B) = 0
    BY <1>4, FS_EmptySet
  <2>3. Cardinality(Units(S)) \in Nat
    BY <1>1, FS_CardinalityType
  <2> QED
    BY <1>2, <2>1, <2>2, <2>3
<1> QED
  BY <1>3, <1>5, UnitsFinite DEF Total

\* Fewer rows add up to no more.
LEMMA TotalOrdered ==
  ASSUME TypeOK, RowsSound, NEW S \in SUBSET AttemptId, NEW T \in SUBSET S,
         \A a \in S : Exists(a)
  PROVE  Total(T) \in Nat /\ Total(S) \in Nat /\ Total(T) <= Total(S)
<1>1. Units(T) \in SUBSET Units(S)
  BY DEF Units
<1>2. IsFiniteSet(Units(S)) /\ Total(S) \in Nat /\ Total(T) \in Nat
  BY UnitsFinite
<1> QED
  BY <1>1, <1>2, FS_Subset DEF Total

LEMMA RowsExist ==
  /\ \A s, m : InMonth(s, m) \in SUBSET AttemptId /\ \A a \in InMonth(s, m) : Exists(a)
  /\ \A s, m : Booked(s, m) \in SUBSET InMonth(s, m)
  /\ \A r : InRun(r) \in SUBSET AttemptId /\ \A a \in InRun(r) : Exists(a)
BY DEF InMonth, Booked, InRun, Active, Exists

(***************************************************************************)
(* Steps that only lower what is at stake.                                 *)
(***************************************************************************)
Lowers(a) ==
  Exists(a)' =>
    /\ Exists(a)
    /\ attempts'[a].scope = attempts[a].scope /\ attempts'[a].run = attempts[a].run
    /\ attempts'[a].month = attempts[a].month
    /\ Active(a)' => Active(a)
    /\ Open(a)' => Open(a)
    /\ Charge(a)' \in Nat /\ Charge(a)' <= Charge(a)

LEMMA BudgetsLower ==
  ASSUME IInv, \A a \in AttemptId : Lowers(a), month' = month,
         \A c \in Caller : In(c, "passed")' => In(c, "passed") /\ caller'[c] = caller[c]
  PROVE  Budgets'
<1>1. \A s, m : InMonth(s, m)' \in SUBSET InMonth(s, m) /\ Booked(s, m)' \in SUBSET Booked(s, m)
  BY DEF Lowers, InMonth, Booked, Active, Exists
<1>2. \A r : InRun(r)' \in SUBSET InRun(r)
  BY DEF Lowers, InRun, Active, Exists
<1>3. \A a \in AttemptId : Active(a)' => Charge(a)' \in Nat /\ Charge(a)' <= Charge(a)
  BY DEF Lowers, Active, Exists
<1>4. ASSUME NEW s, NEW m
      PROVE  /\ Total(InMonth(s, m))' \in Nat /\ Total(InMonth(s, m)) \in Nat
             /\ Total(InMonth(s, m))' <= Total(InMonth(s, m))
  <2> DEFINE S == InMonth(s, m)
             T == InMonth(s, m)'
  <2>1. S \in SUBSET AttemptId /\ T \in SUBSET S /\ \A a \in S : Exists(a)
    BY <1>1, RowsExist
  <2>2. \A a \in T : Charge(a)' \in Nat /\ Charge(a)' <= Charge(a)
    BY <1>3 DEF InMonth
  <2> QED
    BY <2>1, <2>2, TotalLowers, UnitsFinite DEF IInv
<1>5. ASSUME NEW s, NEW m
      PROVE  /\ Total(Booked(s, m))' \in Nat /\ Total(Booked(s, m)) \in Nat
             /\ Total(Booked(s, m))' <= Total(Booked(s, m))
  <2> DEFINE S == Booked(s, m)
             T == Booked(s, m)'
  <2>1. S \in SUBSET AttemptId /\ T \in SUBSET S /\ \A a \in S : Exists(a)
    BY <1>1, RowsExist
  <2>2. \A a \in T : Charge(a)' \in Nat /\ Charge(a)' <= Charge(a)
    BY <1>3 DEF Booked
  <2> QED
    BY <2>1, <2>2, TotalLowers, UnitsFinite DEF IInv
<1>6. ASSUME NEW r
      PROVE  /\ Total(InRun(r))' \in Nat /\ Total(InRun(r)) \in Nat
             /\ Total(InRun(r))' <= Total(InRun(r))
             /\ Cardinality(InRun(r))' \in Nat /\ Cardinality(InRun(r)) \in Nat
             /\ Cardinality(InRun(r))' <= Cardinality(InRun(r))
  <2> DEFINE S == InRun(r)
             T == InRun(r)'
  <2>1. S \in SUBSET AttemptId /\ T \in SUBSET S /\ \A a \in S : Exists(a)
    BY <1>2, RowsExist
  <2>2. \A a \in T : Charge(a)' \in Nat /\ Charge(a)' <= Charge(a)
    BY <1>3 DEF InRun
  <2>3. IsFiniteSet(S) /\ IsFiniteSet(T) /\ Cardinality(T) <= Cardinality(S)
    BY <2>1, AttemptsAssumption, FS_Subset
  <2>4. Cardinality(S) \in Nat /\ Cardinality(T) \in Nat
    BY <2>3, FS_CardinalityType
  <2>5. /\ Total(InRun(r))' \in Nat /\ Total(InRun(r)) \in Nat
        /\ Total(InRun(r))' <= Total(InRun(r))
    BY <2>1, <2>2, TotalLowers, UnitsFinite DEF IInv
  <2> QED
    BY <2>3, <2>4, <2>5
<1>7. ASSUME NEW c \in Caller, In(c, "passed")' PROVE StillFits(c)'
  <2>1. StillFits(c) /\ caller'[c] = caller[c] /\ caller[c] \in Call
    BY <1>7, Typed DEF IInv, Budgets, In
  <2>2. /\ Reserved(caller[c].request) \in Nat
        /\ CallLimit[caller[c].run] \in Nat /\ RunLimit[caller[c].run] \in Nat
    BY <2>1, CostsBounded, RequestsAssumption, LimitsAssumption DEF Call
  <2>3. /\ caller'[c].month <= month'
        /\ \A a \in AttemptId :
             Exists(a)' /\ attempts'[a].scope = caller'[c].scope
               => attempts'[a].month <= caller'[c].month
    BY <2>1 DEF StillFits, Lowers
  <2>4. /\ CallLimit[caller[c].run] # 0
             => Cardinality(InRun(caller[c].run))' < CallLimit[caller[c].run]
        /\ Total(InRun(caller[c].run))' + Reserved(caller[c].request) <= RunLimit[caller[c].run]
    <3>1. /\ CallLimit[caller[c].run] # 0
               => Cardinality(InRun(caller[c].run)) < CallLimit[caller[c].run]
          /\ Total(InRun(caller[c].run)) + Reserved(caller[c].request) <= RunLimit[caller[c].run]
      BY <2>1 DEF StillFits
    <3> QED
      BY <1>6, <2>1, <2>2, <3>1
  <2>5. Total(InMonth(caller[c].scope, caller[c].month))' + Reserved(caller[c].request)
          <= MonthlyLimit
    BY <1>4, <2>1, <2>2, LimitsAssumption DEF StillFits
  <2> QED
    BY <2>1, <2>3, <2>4, <2>5 DEF StillFits
<1>8. ExposureWithinLimit'
  BY <1>4, LimitsAssumption DEF IInv, Budgets, ExposureWithinLimit
<1>9. BookedWithinLimit'
  BY <1>5, LimitsAssumption DEF IInv, Budgets, BookedWithinLimit
<1>10. RunWithinLimits'
  BY <1>6, LimitsAssumption DEF IInv, Budgets, RunWithinLimits
<1> QED
  BY <1>7, <1>8, <1>9, <1>10 DEF Budgets

(***************************************************************************)
(* Settlement.                                                             *)
(***************************************************************************)
\* The step settles the open row a, and says what it may given what the provider did.
Settles(a) ==
  /\ Open(a)
  /\ attempts' \in [AttemptId -> Row \cup {NoRow}]
  /\ \A b \in AttemptId : b # a => attempts'[b] = attempts[b]
  /\ attempts'[a].scope = attempts[a].scope
  /\ attempts'[a].run = attempts[a].run
  /\ attempts'[a].month = attempts[a].month
  /\ attempts'[a].request = attempts[a].request
  /\ attempts'[a].status \in {"uncertain", "spent", "released"}
  /\ attempts'[a].spent \in Nat
  /\ attempts'[a].spent <= Reserved(attempts[a].request)
  /\ bill[a].state \in {"sent", "charged"} => attempts'[a].status # "released"
  /\ attempts'[a].status = "spent" /\ bill[a].state = "charged"
       => Spent(attempts[a].request, bill[a].used) <= attempts'[a].spent
  /\ attempts'[a].status = "spent" /\ bill[a].state # "charged"
       => attempts'[a].spent = Reserved(attempts[a].request)

LEMMA SettledRows ==
  ASSUME IInv, NEW a \in AttemptId, Settles(a), UNCHANGED <<month, bill>>
  PROVE  /\ \A b \in AttemptId : Lowers(b)
         /\ RowsSound'
<1>1. /\ Exists(a) /\ Exists(a)'
      /\ Active(a) /\ Active(a)' = (attempts'[a].status # "released")
      /\ Open(a) /\ Open(a)' = (attempts'[a].status = "uncertain")
  BY DEF Settles, Exists, Active, Open
<1>2. /\ Charge(a)' = IF attempts'[a].status = "spent" THEN attempts'[a].spent
                                                       ELSE Reserved(attempts[a].request)
      /\ Charge(a) = Reserved(attempts[a].request)
  BY DEF Settles, Open, Charge
<1>3. Reserved(attempts[a].request) \in Nat
  BY <1>1, ChargeTyped DEF IInv
<1>4. \A b \in AttemptId : b # a =>
        /\ Exists(b)' = Exists(b) /\ Active(b)' = Active(b) /\ Open(b)' = Open(b)
        /\ Charge(b)' = Charge(b) /\ attempts'[b] = attempts[b]
  BY DEF Settles, Exists, Active, Open, Charge
<1>5. ASSUME NEW b \in AttemptId PROVE Lowers(b)
  <2>1. CASE b = a
    <3>1. Lowers(a)
      BY <1>1, <1>2, <1>3 DEF Lowers, Settles
    <3> QED
      BY <2>1, <3>1
  <2>2. CASE b # a
    <3>1. Exists(b) => Charge(b) \in Nat
      BY ChargeTyped DEF IInv
    <3> QED
      BY <1>4, <2>2, <3>1 DEF Lowers
  <2> QED
    BY <2>1, <2>2
<1>6. ASSUME NEW b \in AttemptId, Exists(b)' PROVE RowSound(b)'
  <2>1. RowSound(b)
    BY <1>1, <1>4, <1>6 DEF IInv, RowsSound
  <2>2. CASE b = a
    <3>1. RowSound(a)'
      BY <1>1, <1>2, <1>3, <2>1, <2>2 DEF RowSound, Settles
    <3> QED
      BY <2>2, <3>1
  <2>3. CASE b # a
    BY <1>4, <2>1, <2>3 DEF RowSound
  <2> QED
    BY <2>2, <2>3
<1>7. \A b \in AttemptId : ~Exists(b)' => bill'[b].state = "unsent"
  BY <1>1, <1>4 DEF IInv, RowsSound
<1> QED
  BY <1>5, <1>6, <1>7 DEF RowsSound

\* No caller goes on with a settled row, but one that is adrift.
LEMMA SettledHeld ==
  ASSUME IInv, NEW a \in AttemptId, Settles(a), UNCHANGED bill,
         \A c \in Caller :
           \/ caller'[c] = Idle
           \/ caller'[c] = caller[c] /\ (Holds(c, a) =>
                In(c, "adrift") /\ attempts'[a].status = "spent")
           \/ /\ Holds(c, a) /\ In(c, "reserved") /\ caller'[c].phase = "marked"
              /\ caller'[c].id = a /\ caller'[c].scope = caller[c].scope
              /\ attempts'[a].status = "uncertain"
  PROVE  RowsHeld'
<1>1. \A c \in Caller, b \in AttemptId : Holds(c, b)' => Holds(c, b)
  BY DEF Holds, Idle
<1>2. ASSUME NEW c \in Caller, NEW b \in AttemptId, Holds(c, b)' PROVE RowHeld(c, b)'
  <2>1. Holds(c, b) /\ RowHeld(c, b)
    BY <1>1, <1>2 DEF IInv, RowsHeld
  <2>2. /\ caller'[c].scope = caller[c].scope
        /\ ~In(c, "adrift")' => ~In(c, "adrift")
        /\ ~In(c, "sent")' => ~In(c, "sent")
    BY <1>2, <2>1 DEF In, Idle, Holds
  <2>3. CASE b = a
    <3>1. /\ attempts'[a].status \in {"uncertain", "spent"}
          /\ ~In(c, "adrift")' => attempts'[a].status = "uncertain"
      BY <1>2, <2>1, <2>2, <2>3 DEF Idle, Holds, In
    <3> QED
      BY <2>1, <2>2, <2>3, <3>1 DEF RowHeld, Active, Open, Settles, In
  <2>4. CASE b # a
    <3>1. attempts'[b] = attempts[b]
      BY <2>4 DEF Settles
    <3> QED
      BY <2>1, <2>2, <3>1 DEF RowHeld, Active, Open, In
  <2> QED
    BY <2>3, <2>4
<1>3. \A c \in Caller : caller'[c].phase \in {"reserved", "marked", "sent", "adrift"}
                          => caller'[c].id \in AttemptId
  BY DEF IInv, RowsHeld, Idle
<1>4. \A c \in Caller : caller'[c].phase \in {"slot", "run", "billing", "passed"}
                          => caller'[c].id = NoAttempt
  BY DEF IInv, RowsHeld, Idle
<1>5. \A c, d \in Caller, b \in AttemptId : Holds(c, b)' /\ Holds(d, b)' => c = d
  BY <1>1 DEF IInv, RowsHeld
<1> QED
  BY <1>2, <1>3, <1>4, <1>5 DEF RowsHeld

\* The caller that settles its row leaves the call.
LEMMA SettlingLeaves ==
  ASSUME IInv, NEW c \in Caller, NEW a \in AttemptId, Holds(c, a), Settles(a),
         Over(c), LeaveSlot(c), UNCHANGED <<run_lock, billing_lock, month, bill>>
  PROVE  IInv'
<1>1. caller'[c] = Idle /\ OthersStay(c) /\ OthersKeep(c)
  BY Leaving DEF IInv
<1>2. (\A b \in AttemptId : Lowers(b)) /\ RowsSound'
  BY SettledRows
<1>3. RowsHeld'
  <2>1. \A d \in Caller : d # c => ~Holds(d, a)
    BY DEF IInv, RowsHeld
  <2> QED
    BY <1>1, <2>1, SettledHeld DEF OthersStay
<1>4. TypeOK'
  <2>1. caller' \in [Caller -> Call \cup {Idle}]
    BY CallerTyped DEF IInv
  <2>2. slot' \in [Scope -> Caller \cup {NoCaller}]
    BY LeavingTyped DEF IInv
  <2> QED
    BY <2>1, <2>2 DEF Settles, IInv, TypeOK
<1>5. LocksHeld'
  BY <1>1, LocksMove DEF IInv, In, Idle
<1>6. Budgets'
  BY <1>1, <1>2, BudgetsLower DEF OthersStay, In, Idle
<1> QED
  BY <1>2, <1>3, <1>4, <1>5, <1>6 DEF IInv

LEMMA BlockInv ==
  ASSUME IInv, NEW c \in Caller, Block(c)
  PROVE  IInv'
<1> DEFINE a == caller[c].id
<1>1. a \in AttemptId /\ Holds(c, a) /\ RowHeld(c, a)
  BY DEF Block, Holds, IInv, RowsHeld, In
<1>2. Open(a) /\ Exists(a) /\ bill[a].state = "unsent"
  BY <1>1 DEF RowHeld, Block, In, Active, Exists, Settle, MaySettle
<1>3. attempts[a] \in Row /\ Reserved(attempts[a].request) \in Nat
  BY <1>1, <1>2, Typed, ChargeTyped DEF IInv
<1>4. attempts' = [attempts EXCEPT ![a] =
                     [attempts[a] EXCEPT !.status = "released", !.spent = 0]]
  BY DEF Block, Settle
<1> HIDE DEF a
<1>5. Settles(a)
  <2>1. [attempts[a] EXCEPT !.status = "released", !.spent = 0] \in Row
    BY <1>3 DEF Row, Status
  <2>2. attempts' \in [AttemptId -> Row \cup {NoRow}]
    BY <1>4, <2>1 DEF IInv, TypeOK
  <2>3. attempts'[a] = [attempts[a] EXCEPT !.status = "released", !.spent = 0]
    BY <1>1, <1>4 DEF IInv, TypeOK
  <2>4. \A b \in AttemptId : b # a => attempts'[b] = attempts[b]
    BY <1>4 DEF IInv, TypeOK
  <2> QED
    BY <1>2, <1>3, <2>2, <2>3, <2>4 DEF Settles, Row
<1> QED
  BY <1>1, <1>5, SettlingLeaves DEF Block

LEMMA FailInv ==
  ASSUME IInv, NEW c \in Caller, Fail(c)
  PROVE  IInv'
<1> DEFINE a == caller[c].id
<1>1. a \in AttemptId /\ Holds(c, a) /\ RowHeld(c, a)
  BY DEF Fail, Holds, IInv, RowsHeld, In
<1>2. Open(a) /\ Exists(a)
  BY <1>1 DEF RowHeld, Fail, In, Active, Exists, Settle, MaySettle
<1>3. attempts[a] \in Row /\ Reserved(attempts[a].request) \in Nat
  BY <1>1, <1>2, Typed, ChargeTyped DEF IInv
<1>4. attempts' = [attempts EXCEPT ![a] =
                     [attempts[a] EXCEPT !.status = "uncertain", !.spent = 0]]
  BY DEF Fail, Settle
<1> HIDE DEF a
<1>5. Settles(a)
  <2>1. [attempts[a] EXCEPT !.status = "uncertain", !.spent = 0] \in Row
    BY <1>3 DEF Row, Status
  <2>2. attempts' \in [AttemptId -> Row \cup {NoRow}]
    BY <1>4, <2>1 DEF IInv, TypeOK
  <2>3. attempts'[a] = [attempts[a] EXCEPT !.status = "uncertain", !.spent = 0]
    BY <1>1, <1>4 DEF IInv, TypeOK
  <2>4. \A b \in AttemptId : b # a => attempts'[b] = attempts[b]
    BY <1>4 DEF IInv, TypeOK
  <2> QED
    BY <1>2, <1>3, <2>2, <2>3, <2>4 DEF Settles, Row
<1> QED
  BY <1>1, <1>5, SettlingLeaves DEF Fail

LEMMA AnswerInv ==
  ASSUME IInv, NEW c \in Caller, Answer(c)
  PROVE  IInv'
<1> DEFINE a == caller[c].id
           spent == Spent(attempts[a].request, bill[a].used)
<1>1. a \in AttemptId /\ Holds(c, a) /\ RowHeld(c, a)
  BY DEF Answer, Holds, IInv, RowsHeld, In
<1>2. Open(a) /\ Exists(a) /\ bill[a].state = "charged"
  BY <1>1 DEF RowHeld, Answer, In, Active, Exists, Settle, MaySettle
<1>3. /\ attempts[a] \in Row /\ Reserved(attempts[a].request) \in Nat
      /\ attempts[a].request \in RequestType
  BY <1>1, <1>2, Typed, ChargeTyped DEF IInv
<1>4. attempts' = [attempts EXCEPT ![a] =
                     [attempts[a] EXCEPT !.status = "spent", !.spent = spent]]
  BY DEF Answer, Settle
<1>5. spent \in Nat /\ spent <= Reserved(attempts[a].request)
  <2>1. bill[a].used \in Usage(attempts[a].request)
    BY <1>1, <1>2 DEF IInv, RowsSound, RowSound
  <2> QED
    BY <1>3, <2>1, CostsBounded
<1> HIDE DEF a
<1>6. Settles(a)
  <2> HIDE DEF spent
  <2>1. [attempts[a] EXCEPT !.status = "spent", !.spent = spent] \in Row
    BY <1>3, <1>5 DEF Row, Status
  <2>2. attempts' \in [AttemptId -> Row \cup {NoRow}]
    BY <1>4, <2>1 DEF IInv, TypeOK
  <2>3. attempts'[a] = [attempts[a] EXCEPT !.status = "spent", !.spent = spent]
    BY <1>1, <1>4 DEF IInv, TypeOK
  <2>4. \A b \in AttemptId : b # a => attempts'[b] = attempts[b]
    BY <1>4 DEF IInv, TypeOK
  <2>5. Spent(attempts[a].request, bill[a].used) <= spent
    BY <1>5 DEF spent
  <2> QED
    BY <1>2, <1>3, <1>5, <2>2, <2>3, <2>4, <2>5 DEF Settles, Row
<1> QED
  BY <1>1, <1>6, SettlingLeaves DEF Answer

LEMMA MarkInv ==
  ASSUME IInv, NEW c \in Caller, Mark(c)
  PROVE  IInv'
<1> DEFINE a == caller[c].id
<1>1. a \in AttemptId /\ Holds(c, a) /\ RowHeld(c, a)
  BY DEF Mark, Holds, IInv, RowsHeld, In
<1>2. Open(a) /\ Exists(a)
  BY <1>1 DEF RowHeld, Mark, In, Active, Exists, Settle, MaySettle
<1>3. attempts[a] \in Row /\ Reserved(attempts[a].request) \in Nat
  BY <1>1, <1>2, Typed, ChargeTyped DEF IInv
<1>4. attempts' = [attempts EXCEPT ![a] =
                     [attempts[a] EXCEPT !.status = "uncertain", !.spent = 0]]
  BY DEF Mark, Settle
<1>5. /\ caller[c] \in Call /\ caller'[c] = [caller[c] EXCEPT !.phase = "marked"]
      /\ OthersStay(c)
  BY Typed DEF IInv, TypeOK, Mark, In, At, OthersStay
<1>6. /\ caller'[c].phase = "marked" /\ caller'[c].id = a
      /\ caller'[c].scope = caller[c].scope /\ caller'[c].run = caller[c].run
  BY <1>5 DEF Call
<1> HIDE DEF a
<1>7. Settles(a) /\ attempts'[a].status = "uncertain"
  <2>1. [attempts[a] EXCEPT !.status = "uncertain", !.spent = 0] \in Row
    BY <1>3 DEF Row, Status
  <2>2. attempts' \in [AttemptId -> Row \cup {NoRow}]
    BY <1>4, <2>1 DEF IInv, TypeOK
  <2>3. attempts'[a] = [attempts[a] EXCEPT !.status = "uncertain", !.spent = 0]
    BY <1>1, <1>4 DEF IInv, TypeOK
  <2>4. \A b \in AttemptId : b # a => attempts'[b] = attempts[b]
    BY <1>4 DEF IInv, TypeOK
  <2> QED
    BY <1>2, <1>3, <2>2, <2>3, <2>4 DEF Settles, Row
<1>8. (\A b \in AttemptId : Lowers(b)) /\ RowsSound'
  BY <1>1, <1>7, SettledRows DEF Mark
<1>9. RowsHeld'
  <2>1. \A d \in Caller : d # c => ~Holds(d, a)
    BY <1>1 DEF IInv, RowsHeld
  <2>2. In(c, "reserved") /\ UNCHANGED bill
    BY DEF Mark
  <2> QED
    BY <1>1, <1>5, <1>6, <1>7, <2>1, <2>2, SettledHeld DEF OthersStay
<1>10. TypeOK'
  <2>1. caller' \in [Caller -> Call \cup {Idle}]
    BY CallerTyped DEF IInv, Mark, Phase, In
  <2> QED
    BY <1>7, <2>1 DEF Settles, IInv, TypeOK, Mark
<1>11. LocksHeld'
  <2>1. OthersKeep(c)
    BY DEF OthersKeep, Mark
  <2>2. slot'[caller'[c].scope] = c
    BY <1>6 DEF IInv, LocksHeld, Mark, In
  <2> QED
    BY <1>5, <1>6, <2>1, <2>2, LocksMove DEF IInv
<1>12. Budgets'
  BY <1>5, <1>6, <1>8, BudgetsLower DEF OthersStay, In, Mark
<1> QED
  BY <1>8, <1>9, <1>10, <1>11, <1>12 DEF IInv

\* Only a caller that lost its slot can still hold a row whose slot is free.
LEMMA HoldersAdrift ==
  ASSUME IInv, NEW a \in AttemptId, Exists(a), slot[attempts[a].scope] = NoCaller
  PROVE  \A c \in Caller : Holds(c, a) => In(c, "adrift")
BY CallersAssumption DEF IInv, RowsHeld, RowHeld, LocksHeld, Holds, In

\* A settlement by the operator.
LEMMA ReconcileInv ==
  ASSUME IInv, NEW a \in AttemptId, Settles(a),
         UNCHANGED <<slot, run_lock, billing_lock, caller, month, bill>>,
         \A c \in Caller : Holds(c, a) => In(c, "adrift") /\ attempts'[a].status = "spent"
  PROVE  IInv'
<1>1. (\A b \in AttemptId : Lowers(b)) /\ RowsSound'
  BY SettledRows
<1>2. RowsHeld'
  BY SettledHeld
<1>3. TypeOK'
  BY DEF Settles, IInv, TypeOK
<1>4. LocksHeld'
  BY DEF IInv, LocksHeld, In
<1>5. Budgets'
  BY <1>1, BudgetsLower DEF In
<1> QED
  BY <1>1, <1>2, <1>3, <1>4, <1>5 DEF IInv

LEMMA SettleMaxInv ==
  ASSUME IInv, NEW a \in AttemptId, SettleMax(a)
  PROVE  IInv'
<1> DEFINE spent == Reserved(attempts[a].request)
<1>1. Open(a) /\ Exists(a)
  BY DEF SettleMax, Settle, MaySettle
<1>2. /\ attempts[a] \in Row /\ spent \in Nat
      /\ RowSound(a) /\ Charge(a) = spent
  BY <1>1, Typed, ChargeTyped DEF IInv, RowsSound, Charge, Open
<1>3. attempts' = [attempts EXCEPT ![a] =
                     [attempts[a] EXCEPT !.status = "spent", !.spent = spent]]
  BY DEF SettleMax, Settle
<1>4. bill[a].state = "charged" => Spent(attempts[a].request, bill[a].used) <= spent
  BY <1>2 DEF RowSound
<1>5. Settles(a) /\ attempts'[a].status = "spent"
  <2>1. spent = Reserved(attempts[a].request)
    OBVIOUS
  <2> HIDE DEF spent
  <2>2. [attempts[a] EXCEPT !.status = "spent", !.spent = spent] \in Row
    BY <1>2 DEF Row, Status
  <2>3. attempts' \in [AttemptId -> Row \cup {NoRow}]
    BY <1>3, <2>2 DEF IInv, TypeOK
  <2>4. attempts'[a] = [attempts[a] EXCEPT !.status = "spent", !.spent = spent]
    BY <1>3 DEF IInv, TypeOK
  <2>5. \A b \in AttemptId : b # a => attempts'[b] = attempts[b]
    BY <1>3 DEF IInv, TypeOK
  <2> QED
    BY <1>1, <1>2, <1>4, <2>1, <2>3, <2>4, <2>5 DEF Settles, Row
<1> QED
  BY <1>1, <1>5, HoldersAdrift, ReconcileInv DEF SettleMax

LEMMA ConfirmNoChargeInv ==
  ASSUME IInv, NEW a \in AttemptId, ConfirmNoCharge(a)
  PROVE  IInv'
<1>1. Open(a) /\ Exists(a) /\ Free(a)
  BY DEF ConfirmNoCharge, Settle, MaySettle
<1>2. attempts[a] \in Row /\ Reserved(attempts[a].request) \in Nat
  BY <1>1, Typed, ChargeTyped DEF IInv
<1>3. attempts' = [attempts EXCEPT ![a] =
                     [attempts[a] EXCEPT !.status = "released", !.spent = 0]]
  BY DEF ConfirmNoCharge, Settle
<1>4. \A c \in Caller : ~Holds(c, a)
  <2>1. \A c \in Caller : Holds(c, a) => In(c, "adrift")
    BY <1>1, HoldersAdrift DEF ConfirmNoCharge
  <2>2. \A c \in Caller : Holds(c, a) => bill[a].state = "unsent"
    BY <2>1 DEF IInv, RowsHeld, RowHeld, In
  <2> QED
    BY <1>1, <2>2 DEF Free, Holds, In
<1>5. Settles(a)
  <2>1. [attempts[a] EXCEPT !.status = "released", !.spent = 0] \in Row
    BY <1>2 DEF Row, Status
  <2>2. attempts' \in [AttemptId -> Row \cup {NoRow}]
    BY <1>3, <2>1 DEF IInv, TypeOK
  <2>3. attempts'[a] = [attempts[a] EXCEPT !.status = "released", !.spent = 0]
    BY <1>3 DEF IInv, TypeOK
  <2>4. \A b \in AttemptId : b # a => attempts'[b] = attempts[b]
    BY <1>3 DEF IInv, TypeOK
  <2>5. bill[a].state \notin {"sent", "charged"}
    BY <1>1 DEF Free
  <2> QED
    BY <1>1, <1>2, <2>2, <2>3, <2>4, <2>5 DEF Settles, Row
<1> QED
  BY <1>4, <1>5, ReconcileInv DEF ConfirmNoCharge

(***************************************************************************)
(* The provider.                                                           *)
(***************************************************************************)
LEMMA BillMoves ==
  ASSUME IInv, NEW a \in AttemptId, Exists(a), UNCHANGED <<attempts, month>>,
         \A b \in AttemptId : b # a => bill'[b] = bill[b],
         RowSound(a)'
  PROVE  RowsSound'
<1>1. \A b \in AttemptId : Exists(b)' = Exists(b)
  BY TotalsAlone
<1>2. ASSUME NEW b \in AttemptId, Exists(b), b # a PROVE RowSound(b)'
  BY <1>2, TotalsAlone DEF IInv, RowsSound, RowSound
<1> QED
  BY <1>1, <1>2 DEF IInv, RowsSound

LEMMA SendInv ==
  ASSUME IInv, NEW c \in Caller, Send(c)
  PROVE  IInv'
<1>1. PICK a \in AttemptId : a = caller[c].id /\ Holds(c, a) /\ RowHeld(c, a)
  BY DEF Send, Holds, IInv, RowsHeld, In
<1>2. Open(a) /\ Active(a) /\ Exists(a) /\ bill[a].state = "unsent" /\ RowSound(a)
  BY <1>1 DEF RowHeld, Send, In, Active, Exists, IInv, RowsSound
<1>3. /\ caller[c] \in Call /\ caller'[c] = [caller[c] EXCEPT !.phase = "sent"]
      /\ OthersStay(c)
  BY Typed DEF IInv, TypeOK, Send, In, At, OthersStay
<1>4. /\ caller'[c].phase = "sent" /\ caller'[c].id = a
      /\ caller'[c].scope = caller[c].scope /\ caller'[c].run = caller[c].run
  BY <1>1, <1>3 DEF Call
<1>5. bill' = [bill EXCEPT ![a].state = "sent"]
  BY <1>1 DEF Send
<1>6. /\ bill'[a].state = "sent"
      /\ \A b \in AttemptId : b # a => bill'[b] = bill[b]
  BY <1>1, <1>5 DEF IInv, TypeOK
<1>7. RowsSound'
  <2>1. RowSound(a)'
    BY <1>2, <1>6, TotalsAlone DEF RowSound, Send
  <2> QED
    BY <1>1, <1>2, <1>6, <2>1, BillMoves DEF Send
<1>8. RowsHeld'
  <2>1. \A d \in Caller : d # c => ~Holds(d, a)
    BY <1>1 DEF IInv, RowsHeld
  <2>2. ASSUME NEW d \in Caller, NEW b \in AttemptId, Holds(d, b)' PROVE RowHeld(d, b)'
    <3>1. CASE d = c
      BY <1>1, <1>2, <1>4, <2>2, <3>1 DEF Holds, RowHeld, Active, Open, In, Send
    <3>2. CASE d # c
      <4>1. caller'[d] = caller[d] /\ Holds(d, b) /\ b # a /\ RowHeld(d, b)
        BY <1>3, <2>1, <2>2, <3>2 DEF OthersStay, Holds, IInv, RowsHeld
      <4> QED
        BY <1>6, <4>1 DEF RowHeld, Active, Open, In, Send
    <3> QED
      BY <3>1, <3>2
  <2>3. \A d \in Caller, b \in AttemptId : Holds(d, b)' => Holds(d, b)
    BY <1>1, <1>3, <1>4 DEF OthersStay, Holds
  <2> QED
    BY <1>1, <1>3, <1>4, <2>2, <2>3 DEF IInv, RowsHeld, OthersStay
<1>9. TypeOK'
  <2>1. caller' \in [Caller -> Call \cup {Idle}]
    BY CallerTyped DEF IInv, Send, Phase, In
  <2>2. [bill[a] EXCEPT !.state = "sent"]
          \in [state : {"unsent", "sent", "free", "charged"}, used : [input : Nat, output : Nat]]
    BY DEF IInv, TypeOK
  <2>3. bill' = [bill EXCEPT ![a] = [bill[a] EXCEPT !.state = "sent"]]
    BY <1>5
  <2> QED
    BY ZenonT(60), <2>1, <2>2, <2>3 DEF IInv, TypeOK, Send
<1>10. LocksHeld'
  <2>1. OthersKeep(c)
    BY DEF OthersKeep, Send
  <2>2. slot'[caller'[c].scope] = c
    BY <1>4 DEF IInv, LocksHeld, Send, In
  <2> QED
    BY <1>3, <1>4, <2>1, <2>2, LocksMove DEF IInv
<1>11. Budgets'
  BY <1>3, <1>4, BudgetsAlone DEF IInv, OthersStay, In, Send
<1> QED
  BY <1>7, <1>8, <1>9, <1>10, <1>11 DEF IInv

LEMMA SendAdriftInv ==
  ASSUME IInv, NEW c \in Caller, SendAdrift(c)
  PROVE  IInv'
<1>1. PICK a \in AttemptId : a = caller[c].id /\ Holds(c, a) /\ RowHeld(c, a)
  BY DEF SendAdrift, Holds, IInv, RowsHeld, In
<1>2. Active(a) /\ Exists(a) /\ bill[a].state = "unsent" /\ RowSound(a)
  BY <1>1 DEF RowHeld, SendAdrift, In, Active, Exists, IInv, RowsSound
<1>3. caller'[c] = Idle /\ OthersStay(c)
  BY DEF SendAdrift, Over, OthersStay, IInv, TypeOK
<1>4. bill' = [bill EXCEPT ![a].state = "sent"]
  BY <1>1 DEF SendAdrift
<1>5. /\ bill'[a].state = "sent"
      /\ \A b \in AttemptId : b # a => bill'[b] = bill[b]
  BY <1>1, <1>4 DEF IInv, TypeOK
<1>6. RowsSound'
  <2>1. RowSound(a)'
    BY <1>2, <1>5, TotalsAlone DEF RowSound, SendAdrift
  <2> QED
    BY <1>1, <1>2, <1>5, <2>1, BillMoves DEF SendAdrift
<1>7. RowsHeld'
  <2>1. \A d \in Caller : d # c => ~Holds(d, a)
    BY <1>1 DEF IInv, RowsHeld
  <2>2. ASSUME NEW d \in Caller, NEW b \in AttemptId, Holds(d, b)'
        PROVE  Holds(d, b) /\ RowHeld(d, b)'
    <3>1. d # c
      BY <1>3, <2>2 DEF Holds, Idle
    <3>2. caller'[d] = caller[d] /\ Holds(d, b) /\ b # a /\ RowHeld(d, b)
      BY <1>3, <2>1, <2>2, <3>1 DEF OthersStay, Holds, IInv, RowsHeld
    <3> QED
      BY <1>5, <3>2 DEF RowHeld, Active, Open, In, SendAdrift
  <2> QED
    BY <1>3, <2>2 DEF IInv, RowsHeld, OthersStay, Idle
<1>8. TypeOK'
  <2>1. caller' \in [Caller -> Call \cup {Idle}]
    BY CallerTyped DEF IInv, SendAdrift
  <2>2. [bill[a] EXCEPT !.state = "sent"]
          \in [state : {"unsent", "sent", "free", "charged"}, used : [input : Nat, output : Nat]]
    BY DEF IInv, TypeOK
  <2>3. bill' = [bill EXCEPT ![a] = [bill[a] EXCEPT !.state = "sent"]]
    BY <1>4
  <2> QED
    BY ZenonT(60), <2>1, <2>2, <2>3 DEF IInv, TypeOK, SendAdrift
<1>9. LocksHeld'
  <2>1. OthersKeep(c)
    BY DEF OthersKeep, SendAdrift
  <2> QED
    BY <1>3, <2>1, LocksMove DEF IInv, In, Idle
<1>10. Budgets'
  BY <1>3, BudgetsAlone DEF IInv, OthersStay, In, Idle, SendAdrift
<1> QED
  BY <1>6, <1>7, <1>8, <1>9, <1>10 DEF IInv

LEMMA ProvideInv ==
  ASSUME IInv, NEW a \in AttemptId, Provide(a)
  PROVE  IInv'
<1>1. /\ bill[a].state = "sent" /\ Exists(a) /\ RowSound(a) /\ Active(a)
      /\ attempts[a].request \in RequestType
  BY Typed DEF Provide, IInv, RowsSound, RowSound
<1>2. /\ \A b \in AttemptId : b # a => bill'[b] = bill[b]
      /\ bill'[a].state \in {"charged", "free"}
      /\ bill'[a].state = "charged" => bill'[a].used \in Usage(attempts[a].request)
      /\ bill' \in [AttemptId -> [state : {"unsent", "sent", "free", "charged"},
                                  used : [input : Nat, output : Nat]]]
  <2>1. CASE bill' = [bill EXCEPT ![a].state = "free"]
    BY <2>1 DEF IInv, TypeOK
  <2>2. ASSUME NEW used \in Usage(attempts[a].request),
               bill' = [bill EXCEPT ![a] = [state |-> "charged", used |-> used]]
        PROVE  <1>2!:
    <3>1. used \in [input : Nat, output : Nat]
      BY <1>1 DEF Usage, RequestType
    <3> QED
      BY <2>2, <3>1 DEF IInv, TypeOK
  <2> QED
    BY <2>1, <2>2 DEF Provide
<1>3. RowSound(a)'
  <2>1. bill'[a].state = "charged"
          => Spent(attempts[a].request, bill'[a].used) <= Reserved(attempts[a].request)
    BY <1>1, <1>2, CostsBounded
  <2>2. Charge(a) = Reserved(attempts[a].request)
    BY <1>1 DEF RowSound
  <2> QED
    BY <1>1, <1>2, <2>1, <2>2, TotalsAlone DEF RowSound, Provide
<1>4. RowsSound'
  BY <1>1, <1>2, <1>3, BillMoves DEF Provide
<1>5. RowsHeld'
  <2>1. \A c \in Caller, b \in AttemptId : Holds(c, b)' = Holds(c, b)
    BY DEF Holds, Provide
  <2>2. ASSUME NEW c \in Caller, NEW b \in AttemptId, Holds(c, b) PROVE RowHeld(c, b)'
    <3>1. RowHeld(c, b)
      BY <2>2 DEF IInv, RowsHeld
    <3>2. ~In(c, "sent") => b # a
      BY <1>1, <3>1 DEF RowHeld
    <3> QED
      BY <1>2, <3>1, <3>2 DEF RowHeld, Active, Open, In, Provide
  <2> QED
    BY <2>1, <2>2 DEF IInv, RowsHeld, Provide
<1>6. TypeOK'
  BY <1>2 DEF IInv, TypeOK, Provide
<1>7. LocksHeld'
  BY DEF IInv, LocksHeld, Provide, In
<1>8. Budgets'
  BY BudgetsAlone DEF IInv, Provide, In
<1> QED
  BY <1>4, <1>5, <1>6, <1>7, <1>8 DEF IInv

(***************************************************************************)
(* The calendar.                                                           *)
(***************************************************************************)
LEMMA NextMonthInv ==
  ASSUME IInv, NextMonth
  PROVE  IInv'
<1>1. month \in Nat /\ month' = month + 1 /\ month' \in Month
  BY LimitsAssumption DEF IInv, TypeOK, NextMonth, Month
<1>2. TypeOK'
  BY <1>1 DEF IInv, TypeOK, NextMonth
<1>3. LocksHeld' /\ RowsHeld'
  BY DEF IInv, LocksHeld, RowsHeld, RowHeld, Holds, In, Active, Open, NextMonth
<1>4. RowsSound'
  <2>1. ASSUME NEW a \in AttemptId, Exists(a) PROVE RowSound(a)'
    <3>1. RowSound(a) /\ attempts[a].month \in Nat
      BY <2>1, Typed DEF IInv, RowsSound, Row, Month
    <3> QED
      BY <1>1, <3>1, TotalsAlone DEF RowSound, NextMonth
  <2> QED
    BY <2>1 DEF IInv, RowsSound, Exists, NextMonth
<1>5. Budgets'
  <2>1. ASSUME NEW c \in Caller, In(c, "passed")' PROVE StillFits(c)'
    <3>1. StillFits(c) /\ caller[c].month \in Nat /\ caller'[c] = caller[c]
      BY <2>1, Typed DEF IInv, Budgets, In, NextMonth, Call, Month
    <3> QED
      BY <1>1, <3>1, TotalsAlone DEF StillFits, NextMonth
  <2>2. ASSUME NEW s \in Scope PROVE Total(InMonth(s, month))' <= MonthlyLimit
    <3> DEFINE S == InMonth(s, month)
               T == InMonth(s, month')
    <3>1. T \in SUBSET S
      <4>1. \A a \in AttemptId : Active(a) => attempts[a].month # month'
        BY <1>1, Typed DEF IInv, RowsSound, RowSound, Active, Exists, Row, Month
      <4> QED
        BY <4>1 DEF InMonth
    <3>2. Total(S) \in Nat /\ Total(T) \in Nat /\ Total(T) <= Total(S)
      BY <3>1, RowsExist, TotalOrdered DEF IInv
    <3>3. Total(InMonth(s, month))' = Total(T)
      BY TotalsAlone DEF NextMonth
    <3>4. Total(S) <= MonthlyLimit
      BY DEF IInv, Budgets, ExposureWithinLimit
    <3> HIDE DEF S, T
    <3> QED
      BY <3>2, <3>3, <3>4, LimitsAssumption
  <2>3. BookedWithinLimit' /\ RunWithinLimits'
    BY TotalsAlone DEF IInv, Budgets, BookedWithinLimit, RunWithinLimits, NextMonth
  <2> QED
    BY <2>1, <2>2, <2>3 DEF Budgets, ExposureWithinLimit
<1> QED
  BY <1>2, <1>3, <1>4, <1>5 DEF IInv

(***************************************************************************)
(* Reservation: the locks of its scope and run, held since it was assessed,  *)
(* keep what was found to fit from changing but for the better.             *)
(***************************************************************************)
LEMMA TotalSame ==
  ASSUME NEW S, \A a \in S : Charge(a)' = Charge(a)
  PROVE  Total(S)' = Total(S)
BY DEF Total, Units

LEMMA ReserveInv ==
  ASSUME IInv, NEW c \in Caller, NEW a \in AttemptId, Reserve(c, a)
  PROVE  IInv'
<1>1. PICK s \in Scope, r \in Run, q \in Request, m \in Month :
        s = caller[c].scope /\ r = caller[c].run /\ q = caller[c].request /\ m = caller[c].month
  BY Typed DEF IInv, Reserve, In, Call
<1> DEFINE row == [status |-> "reserved", scope |-> s, run |-> r, month |-> m,
                   request |-> q, spent |-> 0]
<1>2. /\ attempts' = [attempts EXCEPT ![a] = row] /\ attempts'[a] = row
      /\ row \in Row
      /\ \A b \in AttemptId : b # a => attempts'[b] = attempts[b]
      /\ UNCHANGED <<slot, month, bill>>
  BY <1>1 DEF Reserve, IInv, TypeOK, Row, Status
<1>3. /\ caller[c] \in Call
      /\ caller'[c] = [caller[c] EXCEPT !.phase = "reserved", !.id = a]
      /\ OthersStay(c)
  BY Typed DEF IInv, TypeOK, Reserve, In, OthersStay
<1>4. /\ caller'[c].phase = "reserved" /\ caller'[c].id = a
      /\ caller'[c].scope = s /\ caller'[c] \in Call
  BY <1>1, <1>3 DEF Call, Phase
<1>5. /\ ~Exists(a) /\ ~Active(a) /\ ~Open(a) /\ bill[a].state = "unsent"
      /\ Exists(a)' /\ Active(a)' /\ Open(a)' /\ Charge(a)' = Reserved(q)
      /\ Reserved(q) \in Nat
  <2>1. ~Exists(a) /\ ~Active(a) /\ ~Open(a)
    BY DEF Reserve, Exists, Active, Open
  <2>2. bill[a].state = "unsent"
    BY <2>1 DEF IInv, RowsSound
  <2>3. Exists(a)' /\ Active(a)' /\ Open(a)' /\ Charge(a)' = Reserved(q)
    BY <1>2 DEF Exists, Active, Open, Charge
  <2> QED
    BY <2>1, <2>2, <2>3, CostsBounded, RequestsAssumption
<1>6. \A b \in AttemptId : b # a =>
        /\ Exists(b)' = Exists(b) /\ Active(b)' = Active(b) /\ Open(b)' = Open(b)
        /\ Charge(b)' = Charge(b)
  BY <1>2 DEF Exists, Active, Open, Charge
<1>7. /\ m <= month
      /\ \A b \in AttemptId : Exists(b) /\ attempts[b].scope = s => attempts[b].month <= m
      /\ CallLimit[r] # 0 => Cardinality(InRun(r)) < CallLimit[r]
      /\ Total(InMonth(s, m)) + Reserved(q) <= MonthlyLimit
      /\ Total(InRun(r)) + Reserved(q) <= RunLimit[r]
  BY <1>1 DEF IInv, Budgets, StillFits, Reserve
<1> HIDE DEF row
<1>8. /\ slot[s] = c /\ run_lock[r] = c /\ billing_lock[s] = c
  BY <1>1 DEF IInv, LocksHeld, Reserve, In
<1>9. TypeOK'
  <2>1. attempts' \in [AttemptId -> Row \cup {NoRow}]
    BY <1>2 DEF IInv, TypeOK
  <2>2. caller' \in [Caller -> Call \cup {Idle}]
    BY <1>4 DEF IInv, TypeOK, Reserve
  <2>3. /\ run_lock' \in [Run -> Caller \cup {NoCaller}]
        /\ billing_lock' \in [Scope -> Caller \cup {NoCaller}]
    BY LeavingTyped DEF IInv, Reserve
  <2> QED
    BY <1>2, <2>1, <2>2, <2>3 DEF IInv, TypeOK
<1>10. LocksHeld'
  <2>1. OthersKeep(c)
    BY DEF OthersKeep, Reserve, EndTransaction, Without, IInv, TypeOK
  <2>2. slot'[caller'[c].scope] = c
    BY <1>2, <1>4, <1>8
  <2> QED
    BY <1>3, <1>4, <2>1, <2>2, LocksMove DEF IInv
<1>11. RowsHeld'
  <2>1. \A d \in Caller : ~Holds(d, a)
    BY <1>5 DEF IInv, RowsHeld, RowHeld
  <2>2. \A d \in Caller, b \in AttemptId :
          Holds(d, b)' => (d = c /\ b = a) \/ (d # c /\ b # a /\ Holds(d, b))
    BY <1>3, <1>4, <2>1 DEF Holds, OthersStay
  <2>3. RowHeld(c, a)'
    <3>1. attempts'[a].scope = s
      BY <1>2 DEF row
    <3> QED
      BY <1>2, <1>4, <1>5, <3>1 DEF RowHeld
  <2>4. ASSUME NEW d \in Caller, NEW b \in AttemptId, d # c, b # a, Holds(d, b)
        PROVE  RowHeld(d, b)'
    <3>1. RowHeld(d, b) /\ caller'[d] = caller[d] /\ attempts'[b] = attempts[b]
      BY <1>2, <1>3, <2>4 DEF IInv, RowsHeld, OthersStay
    <3> QED
      BY <1>2, <1>6, <2>4, <3>1 DEF RowHeld, In
  <2>5. \A d \in Caller, b \in AttemptId : Holds(d, b)' => RowHeld(d, b)'
    BY <2>2, <2>3, <2>4
  <2>6. \A d, e \in Caller, b \in AttemptId : Holds(d, b)' /\ Holds(e, b)' => d = e
    BY <2>2 DEF IInv, RowsHeld
  <2> QED
    BY <1>3, <1>4, <2>5, <2>6 DEF IInv, RowsHeld, OthersStay
<1>12. RowsSound'
  <2>1. Reserved(q) <= MonthlyLimit
    <3>1. Total(InMonth(s, m)) \in Nat
      BY RowsExist, UnitsFinite DEF IInv
    <3> QED
      BY <1>5, <1>7, <3>1, LimitsAssumption
  <2>2. RowSound(a)'
    <3>1. attempts'[a].month = m /\ attempts'[a].request = q
      BY <1>2 DEF row
    <3> QED
      BY <1>2, <1>5, <1>7, <2>1, <3>1 DEF RowSound
  <2>3. ASSUME NEW b \in AttemptId, b # a, Exists(b) PROVE RowSound(b)'
    <3>1. RowSound(b) /\ attempts'[b] = attempts[b]
      BY <1>2, <2>3 DEF IInv, RowsSound
    <3> QED
      BY <1>2, <1>6, <2>3, <3>1 DEF RowSound
  <2> QED
    BY <1>2, <1>5, <1>6, <2>2, <2>3 DEF IInv, RowsSound
<1>13. \A x, n : /\ x # s => InMonth(x, n)' = InMonth(x, n) /\ Booked(x, n)' = Booked(x, n)
                 /\ n # m => Booked(x, n)' = Booked(x, n)
  <2>1. attempts'[a].scope = s /\ attempts'[a].month = m
    BY <1>2 DEF row
  <2> QED
    BY <1>2, <1>5, <1>6, <2>1 DEF InMonth, Booked
<1>14. \A x : x # r => InRun(x)' = InRun(x)
  <2>1. attempts'[a].run = r
    BY <1>2 DEF row
  <2> QED
    BY <1>2, <1>5, <1>6, <2>1 DEF InRun
<1>15. /\ \A x, n : \A b \in InMonth(x, n) : Charge(b)' = Charge(b)
       /\ \A x, n : \A b \in Booked(x, n) : Charge(b)' = Charge(b)
       /\ \A x : \A b \in InRun(x) : Charge(b)' = Charge(b)
  BY <1>5, <1>6 DEF InMonth, Booked, InRun
<1>16. /\ \A n : InMonth(s, n)' = InMonth(s, n) \cup {a}
       /\ Booked(s, m)' = Booked(s, m) \cup {a}
       /\ InRun(r)' = InRun(r) \cup {a}
       /\ a \notin InRun(r) /\ (\A n : a \notin InMonth(s, n) /\ a \notin Booked(s, n))
  <2>1. attempts'[a].scope = s /\ attempts'[a].month = m /\ attempts'[a].run = r
    BY <1>2 DEF row
  <2> QED
    BY <1>2, <1>5, <1>6, <2>1 DEF InMonth, Booked, InRun
<1>17. ASSUME NEW d \in Caller, In(d, "passed")' PROVE StillFits(d)'
  <2>1. d # c /\ caller'[d] = caller[d] /\ In(d, "passed") /\ StillFits(d)
    BY <1>3, <1>4, <1>17 DEF IInv, Budgets, OthersStay, In
  <2>2. caller[d].scope # s /\ caller[d].run # r
    BY <1>8, <2>1 DEF IInv, LocksHeld, In
  <2>3. /\ Total(InMonth(caller[d].scope, caller[d].month))'
             = Total(InMonth(caller[d].scope, caller[d].month))
        /\ Total(InRun(caller[d].run))' = Total(InRun(caller[d].run))
        /\ InRun(caller[d].run)' = InRun(caller[d].run)
    BY <1>13, <1>14, <1>15, <2>1, <2>2, TotalSame
  <2>4. \A b \in AttemptId : Exists(b)' /\ attempts'[b].scope = caller[d].scope
                               => attempts'[b].month <= caller[d].month
    <3>1. attempts'[a].scope = s
      BY <1>2 DEF row
    <3> QED
      BY <1>2, <1>6, <2>1, <2>2, <3>1 DEF StillFits
  <2> QED
    BY <1>2, <2>1, <2>3, <2>4 DEF StillFits
<1>18. ExposureWithinLimit'
  <2>1. ASSUME NEW x \in Scope, x # s PROVE Total(InMonth(x, month))' <= MonthlyLimit
    <3>1. Total(InMonth(x, month))' = Total(InMonth(x, month))
      BY <1>2, <1>13, <1>15, <2>1, TotalSame
    <3> QED
      BY <3>1 DEF IInv, Budgets, ExposureWithinLimit
  <2>2. Total(InMonth(s, month))' <= MonthlyLimit
    <3>1. InMonth(s, month) \in SUBSET InMonth(s, m)
      <4>1. m \in Nat /\ month \in Nat
        BY LimitsAssumption DEF IInv, TypeOK, Month
      <4>2. \A b \in InMonth(s, month) : attempts[b].month <= m
        BY <1>7 DEF InMonth, Active, Exists
      <4>3. \A b \in InMonth(s, month) : attempts[b].month = month => m = month
        BY <1>7, <4>1, <4>2
      <4> QED
        BY <4>3 DEF InMonth
    <3>2. /\ Total(InMonth(s, month)) \in Nat /\ Total(InMonth(s, m)) \in Nat
          /\ Total(InMonth(s, month)) <= Total(InMonth(s, m))
      BY <3>1, RowsExist, TotalOrdered DEF IInv
    <3>3. Total(InMonth(s, month))' = Total(InMonth(s, month)) + Reserved(q)
      BY <1>2, <1>5, <1>15, <1>16, RowsExist, TotalGrows DEF IInv
    <3> QED
      BY <1>5, <1>7, <3>2, <3>3, LimitsAssumption
  <2> QED
    BY <2>1, <2>2 DEF ExposureWithinLimit
<1>19. BookedWithinLimit'
  <2>1. ASSUME NEW x \in Scope, NEW n \in Month, x # s \/ n # m
        PROVE  Total(Booked(x, n))' <= MonthlyLimit
    <3>1. Total(Booked(x, n))' = Total(Booked(x, n))
      BY <1>13, <1>15, <2>1, TotalSame
    <3> QED
      BY <3>1 DEF IInv, Budgets, BookedWithinLimit
  <2>2. Total(Booked(s, m))' <= MonthlyLimit
    <3>1. /\ Total(Booked(s, m)) \in Nat /\ Total(InMonth(s, m)) \in Nat
          /\ Total(Booked(s, m)) <= Total(InMonth(s, m))
      BY RowsExist, TotalOrdered DEF IInv
    <3>2. Total(Booked(s, m))' = Total(Booked(s, m)) + Reserved(q)
      BY <1>5, <1>15, <1>16, RowsExist, TotalGrows DEF IInv
    <3> QED
      BY <1>5, <1>7, <3>1, <3>2, LimitsAssumption
  <2> QED
    BY <2>1, <2>2 DEF BookedWithinLimit
<1>20. RunWithinLimits'
  <2>1. ASSUME NEW x \in Run, x # r
        PROVE  /\ Total(InRun(x))' <= RunLimit[x]
               /\ CallLimit[x] # 0 => Cardinality(InRun(x))' <= CallLimit[x]
    <3>1. Total(InRun(x))' = Total(InRun(x)) /\ InRun(x)' = InRun(x)
      BY <1>14, <1>15, <2>1, TotalSame
    <3> QED
      BY <3>1 DEF IInv, Budgets, RunWithinLimits
  <2>2. Total(InRun(r))' <= RunLimit[r]
    <3>1. Total(InRun(r))' = Total(InRun(r)) + Reserved(q)
      BY <1>5, <1>15, <1>16, RowsExist, TotalGrows DEF IInv
    <3> QED
      BY <1>7, <3>1
  <2>3. CallLimit[r] # 0 => Cardinality(InRun(r))' <= CallLimit[r]
    <3>1. IsFiniteSet(InRun(r))
      BY RowsExist, AttemptsAssumption, FS_Subset
    <3>2. Cardinality(InRun(r)) \in Nat /\ Cardinality(InRun(r))' = Cardinality(InRun(r)) + 1
      BY <1>16, <3>1, FS_AddElement, FS_CardinalityType
    <3>3. CallLimit[r] \in Nat
      BY LimitsAssumption
    <3> QED
      BY <1>7, <3>2, <3>3
  <2> QED
    BY <2>1, <2>2, <2>3 DEF RunWithinLimits
<1>21. Budgets'
  BY <1>17, <1>18, <1>19, <1>20 DEF Budgets
<1> QED
  BY <1>9, <1>10, <1>11, <1>12, <1>21 DEF IInv

(***************************************************************************)
(* The theorems.                                                           *)
(***************************************************************************)
LEMMA StepInv ==
  ASSUME IInv, [Next]_vars
  PROVE  IInv'
<1>1. CASE UNCHANGED vars
  <2>1. TypeOK' /\ LocksHeld' /\ RowsHeld'
    BY <1>1 DEF vars, IInv, TypeOK, LocksHeld, RowsHeld, RowHeld, Holds, In, Active, Open
  <2>2. RowsSound' /\ Budgets'
    BY <1>1, LedgerAlone, BudgetsAlone DEF vars, IInv, In
  <2> QED
    BY <2>1, <2>2 DEF IInv
<1>2. ASSUME NEW c \in Caller, NEW s \in Scope, NEW r \in Run, NEW q \in Request,
             EnterSlot(c, s, r, q)
      PROVE  IInv'
  BY <1>2, EnterSlotInv
<1>3. ASSUME NEW c \in Caller, Progress(c) PROVE IInv'
  <2>1. CASE LockRun(c)
    BY <2>1, LockRunInv
  <2>2. CASE LockBilling(c)
    BY <2>2, LockBillingInv
  <2>3. CASE Assess(c)
    BY <2>3, AssessInv
  <2>4. CASE Exhausted(c)
    BY <2>4, Ending DEF Exhausted
  <2>5. CASE \E a \in AttemptId : Reserve(c, a)
    BY <2>5, ReserveInv
  <2>6. CASE Mark(c)
    BY <2>6, MarkInv
  <2>7. CASE Block(c)
    BY <2>7, BlockInv
  <2>8. CASE Send(c)
    BY <2>8, SendInv
  <2>9. CASE Answer(c)
    BY <2>9, AnswerInv
  <2>10. CASE Fail(c)
    BY <2>10, FailInv
  <2>11. CASE SendAdrift(c)
    BY <2>11, SendAdriftInv
  <2> QED
    BY <1>3, <2>1, <2>2, <2>3, <2>4, <2>5, <2>6, <2>7, <2>8, <2>9, <2>10, <2>11 DEF Progress
<1>4. ASSUME NEW c \in Caller, GiveUp(c) PROVE IInv'
  BY <1>4, Ending DEF GiveUp
<1>5. ASSUME NEW c \in Caller, Crash(c) PROVE IInv'
  BY <1>5, Ending DEF Crash
<1>6. ASSUME NEW c \in Caller, LoseConnection(c) PROVE IInv'
  BY <1>6, LoseConnectionInv
<1>7. ASSUME NEW a \in AttemptId, SettleMax(a) \/ ConfirmNoCharge(a) \/ Provide(a)
      PROVE  IInv'
  BY <1>7, SettleMaxInv, ConfirmNoChargeInv, ProvideInv
<1>8. CASE NextMonth
  BY <1>8, NextMonthInv
<1> QED
  BY <1>1, <1>2, <1>3, <1>4, <1>5, <1>6, <1>7, <1>8 DEF Next

LEMMA Invariant == Spec => []IInv
<1>1. Init => IInv
  BY InitInv
<1>2. IInv /\ [Next]_vars => IInv'
  BY StepInv
<1> QED
  BY <1>1, <1>2, PTL DEF Spec

\* Every row, lock and caller has its type: no step of a call, a settlement or a
\* crash leaves a malformed one (ai_usage.py, embedding_call.py).
THEOREM TypeCorrect == Spec => []TypeOK
<1>1. IInv => TypeOK
  BY DEF IInv
<1> QED
  BY <1>1, Invariant, PTL

\* At no time is more at stake in a scope and the current month than the limit
\* (the sums and the locks of reserve).
THEOREM ExposureLimited == Spec => []ExposureWithinLimit
<1>1. IInv => ExposureWithinLimit
  BY DEF IInv, Budgets
<1> QED
  BY <1>1, Invariant, PTL

\* A run keeps to its limits of money and calls across scopes and months (the lock
\* of the run in reserve).
THEOREM RunLimited == Spec => []RunWithinLimits
<1>1. IInv => RunWithinLimits
  BY DEF IInv, Budgets
<1> QED
  BY <1>1, Invariant, PTL

\* The ledger holds every call that was charged, for no less than it cost (uncertain
\* before it is sent; the reservation of the most a call can cost).
THEOREM LedgerCovers == Spec => []LedgerCoversBill
<1>1. IInv => LedgerCoversBill
  BY DEF IInv, RowsSound, RowSound, LedgerCoversBill
<1> QED
  BY <1>1, Invariant, PTL

LEMMA BilledIsBooked ==
  ASSUME IInv
  PROVE  BillWithinLimit
<1> SUFFICES ASSUME NEW s \in Scope, NEW m \in Month
             PROVE  Cardinality(BilledUnits(s, m)) <= MonthlyLimit
  BY DEF BillWithinLimit
<1>1. \A a \in Billed(s, m) :
        /\ a \in Booked(s, m)
        /\ Spent(attempts[a].request, bill[a].used) \in Nat /\ Charge(a) \in Nat
        /\ Spent(attempts[a].request, bill[a].used) <= Charge(a)
  BY Typed, ChargeTyped, CostsBounded
     DEF IInv, RowsSound, RowSound, Billed, Booked
<1>2. BilledUnits(s, m) \in SUBSET Units(Booked(s, m))
  BY <1>1 DEF BilledUnits, Units
<1>3. IsFiniteSet(Units(Booked(s, m))) /\ Total(Booked(s, m)) \in Nat
  BY RowsExist, UnitsFinite DEF IInv
<1>4. /\ IsFiniteSet(BilledUnits(s, m))
      /\ Cardinality(BilledUnits(s, m)) <= Total(Booked(s, m))
  BY <1>2, <1>3, FS_Subset DEF Total
<1>5. Cardinality(BilledUnits(s, m)) \in Nat
  BY <1>4, FS_CardinalityType
<1>6. Total(Booked(s, m)) <= MonthlyLimit
  BY DEF IInv, Budgets, BookedWithinLimit
<1> QED
  BY <1>3, <1>4, <1>5, <1>6, LimitsAssumption

\* The provider never charges a scope more for the calls of a month than the monthly
\* limit, whatever crashes, is answered late or is reconciled.
THEOREM BillLimited == Spec => []BillWithinLimit
<1>1. IInv => BillWithinLimit
  BY BilledIsBooked
<1> QED
  BY <1>1, Invariant, PTL

\* A settled attempt stays as it was settled: settle refuses a row that is settled,
\* whoever settles it first (ATTEMPT_ALREADY_SETTLED).
THEOREM SettledStays == Spec => SettledForGood
<1> DEFINE Kept == \A a \in AttemptId :
                     attempts[a].status \in {"spent", "released"} => attempts'[a] = attempts[a]
<1>1. ASSUME IInv, [Next]_vars PROVE Kept
  <2> SUFFICES ASSUME NEW a \in AttemptId, attempts[a].status \in {"spent", "released"}
               PROVE  attempts'[a] = attempts[a]
    OBVIOUS
  <2>1. Exists(a) /\ ~Open(a)
    BY DEF Exists, Open
  <2>2. CASE UNCHANGED attempts
    BY <2>2
  <2>3. ASSUME NEW c \in Caller, NEW b \in AttemptId, Reserve(c, b)
        PROVE  attempts'[a] = attempts[a]
    BY <1>1, <2>1, <2>3 DEF Reserve, IInv, TypeOK
  <2>4. ASSUME NEW c \in Caller, Mark(c) \/ Block(c) \/ Answer(c) \/ Fail(c)
        PROVE  attempts'[a] = attempts[a]
    <3>1. CASE Mark(c)
      <4>1. caller[c].id # a
        BY <2>1, <3>1 DEF Mark, Settle, MaySettle, Open
      <4> QED
        BY <1>1, <3>1, <4>1 DEF Mark, Settle, IInv, TypeOK
    <3>2. CASE Block(c)
      <4>1. caller[c].id # a
        BY <2>1, <3>2 DEF Block, Settle, MaySettle, Open
      <4> QED
        BY <1>1, <3>2, <4>1 DEF Block, Settle, IInv, TypeOK
    <3>3. CASE Answer(c)
      <4>1. caller[c].id # a
        BY <2>1, <3>3 DEF Answer, Settle, MaySettle, Open
      <4> QED
        BY <1>1, <3>3, <4>1 DEF Answer, Settle, IInv, TypeOK
    <3>4. CASE Fail(c)
      <4>1. caller[c].id # a
        BY <2>1, <3>4 DEF Fail, Settle, MaySettle, Open
      <4> QED
        BY <1>1, <3>4, <4>1 DEF Fail, Settle, IInv, TypeOK
    <3> QED
      BY <2>4, <3>1, <3>2, <3>3, <3>4
  <2>5. ASSUME NEW b \in AttemptId, SettleMax(b) \/ ConfirmNoCharge(b)
        PROVE  attempts'[a] = attempts[a]
    <3>1. CASE SettleMax(b)
      <4>1. b # a
        BY <2>1, <3>1 DEF SettleMax, Settle, MaySettle, Open
      <4> QED
        BY <1>1, <3>1, <4>1 DEF SettleMax, Settle, IInv, TypeOK
    <3>2. CASE ConfirmNoCharge(b)
      <4>1. b # a
        BY <2>1, <3>2 DEF ConfirmNoCharge, Settle, MaySettle, Open
      <4> QED
        BY <1>1, <3>2, <4>1 DEF ConfirmNoCharge, Settle, IInv, TypeOK
    <3> QED
      BY <2>5, <3>1, <3>2
  <2>6. ASSUME NEW c \in Caller, Progress(c) PROVE attempts'[a] = attempts[a]
    BY <2>2, <2>3, <2>4, <2>6
       DEF Progress, LockRun, LockBilling, Assess, Exhausted, Send, SendAdrift
  <2>7. ASSUME NEW c \in Caller, GiveUp(c) \/ Crash(c) \/ LoseConnection(c)
        PROVE  attempts'[a] = attempts[a]
    BY <2>2, <2>7 DEF GiveUp, Crash, LoseConnection
  <2> QED
    BY <1>1, <2>2, <2>3, <2>5, <2>6, <2>7 DEF Next, vars, EnterSlot, Provide, NextMonth
<1>2. IInv /\ [Next]_vars => [Kept]_vars
  BY <1>1
<1> QED
  BY <1>2, Invariant, PTL DEF Spec, SettledForGood

=============================================================================
