SPECIFICATION Spec
CONSTANTS
  Worker = {w1}
  NoWorker = NoWorker
  a = a
  b = b
  x = x
  Item = {a, b, x}
  Malformed = {x}
  Archives <- Overlapping
  BatchSize = 1
  MaxAttempts = 1
  StaleAfter = 1
  MaxJobs = 2
INVARIANTS
  CompletedIsWhole
  OriginalsAreBlocked
PROPERTIES
  OwnerDecisionsHold
