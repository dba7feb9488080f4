SPECIFICATION Spec
CONSTANTS
  Agent = {a1, a2}
  Credential = {c1}
  None = None
  Config = {k1}
  Threads = 2
  Window = 1
  Previews <- TwoPreviews
  MAX_ATTEMPTS = 1
  MaxJobs = 1
  MaxRevision = 1
  MaxGeneration = 2
  MaxBundle = 2
  MaxLate = 0
SYMMETRY Symmetry
INVARIANTS
  BoundBatchHasSpool
PROPERTIES
  RotationSkipsNothing
