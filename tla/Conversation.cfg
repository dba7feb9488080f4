SPECIFICATION Spec
CONSTANTS
  Record = {r1}
  Worker = {w1, w2}
  MaxTurns = 2
  None = None
SYMMETRY Symmetry
INVARIANTS
  NoTraceOfDeleted
  SentIsPermitted
PROPERTIES
  SettledTurnsStay
  PaidOnce
