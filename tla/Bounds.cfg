\* A program without libmemtier lowers MIN_VAL to 1, as the example of the manual does:
\* one thread's change is computed before the other has lowered the threshold.
CONSTANTS
  t1 = t1
  t2 = t2
  Thread = {t1, t2}
  MaxTiers = 2
  TierRatio = {1}
  STEP = 4
  Word = 64
  Unsigned = 4
  CtlSize = {1}
  CheckCnt = {1}
  Degree <- Degrees
  Trigger <- Negative
  THRESHOLD_CHECK_CNT = 2
  THRESHOLD_DEGREE <- Half
  THRESHOLD_TRIGGER <- Half
  AllocSize = {0, 1}
  Size = {5}
  p1 = p1
  p2 = p2
  Pmem = {p1, p2}
  PMEM_MIN = 2
  MaxHeld = 1
  MaxFaults = 1
  Env = {}
  Null = Null
SYMMETRY Symmetric
SPECIFICATION LibSpec
CHECK_DEADLOCK FALSE
INVARIANT InBounds
