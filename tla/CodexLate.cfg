SPECIFICATION Spec
CONSTANTS
  Agent = {a1}
  Credential = {c1, c2}
  None = None
  Config = {k1, k2}
  Threads = 2
  Window = 2
  Previews <- OnePreview
  MAX_ATTEMPTS = 1
  MaxJobs = 1
  MaxRevision = 2
  MaxGeneration = 1
  MaxBundle = 1
  MaxLate = 1
SYMMETRY Symmetry
INVARIANTS
  RunningJobHasLiveCredential
  MarkersAreTrue
