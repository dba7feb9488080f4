SPECIFICATION Spec
CONSTANTS
  Entry = {e1}
  Text = {t1}
  Run = {r1}
  Worker = {w1, w2}
  Dispatch = {d1, d2}
  None = None
  LeaseTTL = 1
  Margin = 1
  MaxBuild = 1
SYMMETRY Symmetry
INVARIANTS
  SendingIsPermitted
  NoBlindReplay
PROPERTIES
  RestingJobsWaitForOwner
