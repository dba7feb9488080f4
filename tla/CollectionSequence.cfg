SPECIFICATION Spec
CONSTANTS
  Worker = {w1}
  NoWorker = NoWorker
  Item = {i1}
  Manifests <- WholeOrGappy
  Request = {r1}
  Intervals = {1}
  LeaseTTL = 1
  RetryDelay = 1
  MaxAttempts = 1
  MaxJobs = 2
  MaxRevision = 2
  MaxGeneration = 2
INVARIANTS
  PreparedFromCurrentProgress
  CursorCountsJobs
