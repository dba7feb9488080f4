SPECIFICATION FairSpec
CONSTANTS
  Entry = {e1}
  Text = {t1, t2}
  Run = {r1}
  Worker = {w1}
  Dispatch = {d1}
  None = None
  LeaseTTL = 1
  Margin = 1
  MaxBuild = 2
INVARIANTS
  VectorsAreCurrent
  ReadyHasVector
 
PROPERTIES
  RunningJobsReturn
