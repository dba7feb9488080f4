SPECIFICATION FairSpec
CONSTANTS
  Worker = {w1, w2}
  NoWorker = NoWorker
  Item = {i1, i2}
  Manifests <- MCManifests
  Request = {}
  Intervals = {1}
  LeaseTTL = 1
  RetryDelay = 1
  MaxAttempts = 2
  MaxJobs = 1
  MaxRevision = 2
  MaxGeneration = 2
INVARIANTS
  BatchHasItsManifest
  SuccessIsComplete
PROPERTIES
  StaleWorkersAreFenced
  JobsSettle
  ImplementsSourceSync
