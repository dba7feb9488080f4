SPECIFICATION FairSpec
CONSTANTS
  Worker = {w1, w2}
  NoWorker = NoWorker
  a = a
  b = b
  x = x
  Item = {a, x}
  Malformed = {x}
  Archives <- Mixed
  BatchSize = 1
  MaxAttempts = 2
  StaleAfter = 1
  MaxJobs = 1
INVARIANTS
  CountersMatchCursor
PROPERTIES
  AutomaticRetryIsKept
  ImplementsArchiveImport
  ImportsSettle
