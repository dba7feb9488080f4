SPECIFICATION FairSpec
CONSTANTS
  c1 = c1
  c2 = c2
  Commit = {c1, c2}
  Parents <- Chain
  Branches = 2
  GraphSteps = 1
  None = None
INVARIANTS
  CompletedIsArchived
  DeclaredIsWhole
  WalksAgree
PROPERTIES
  NoBranchStarves
