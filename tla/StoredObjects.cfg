SPECIFICATION FairSpec
CONSTANTS
  Record = {r1}
  Named = {r1}
  Object = {o1, o2}
  Worker = {w1}
  None = None
  LinkLife = 1
  PurgeDelay = 2
  RetryDelay = 1
  MaxDeletions = 2
  MaxRestores = 1
INVARIANTS
  NothingIsForgotten
  LedgerIsHonoured
PROPERTIES
  LivingRecordsStay
  PurgesHappen
