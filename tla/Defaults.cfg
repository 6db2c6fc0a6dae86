\* The defaults of the thresholds are compared with those of the manual.
CONSTANTS
  t1 = t1
  t2 = t2
  Thread = {t1, t2}
  MaxTiers = 3
  TierRatio = {1}
  STEP = 4
  Word = 64
  Unsigned = 4
  CtlSize = {5}
  CheckCnt = {1}
  Degree <- Degrees
  Trigger <- Negative
  THRESHOLD_CHECK_CNT = 2
  THRESHOLD_DEGREE <- Quarter
  THRESHOLD_TRIGGER <- Half
  AllocSize = {0, 1}
  Size = {0, 5}
  p1 = p1
  p2 = p2
  Pmem = {p1, p2}
  PMEM_MIN = 2
  MaxHeld = 1
  MaxFaults = 1
  Env <- Environments
  Null = Null
SYMMETRY Symmetric
SPECIFICATION LibSpec
CHECK_DEADLOCK FALSE
INVARIANT StartsAsDocumented
