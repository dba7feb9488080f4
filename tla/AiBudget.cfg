SPECIFICATION FairSpec
CONSTANTS
  Caller = {c1, c2}
  Scope = {s1, s2}
  Run = {r1}
  AttemptId = {a1, a2}
  Request <- Requests
  MonthlyLimit = 3
  RunLimit <- Four
  CallLimit <- Two
  MaxMonth = 2
  NoCaller = NoCaller
  NoAttempt = NoAttempt
CHECK_DEADLOCK FALSE
INVARIANTS
  BillWithinLimit
  RunWithinLimits
  LedgerCoversBill
PROPERTIES
  SlotComesFree
