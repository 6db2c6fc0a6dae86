\* One index too few: the last block cannot be completed.
CONSTANTS
  s1 = s1
  d1 = d1
  d2 = d2
  NULL = NULL
  Kind <- MCKind
  Static <- MCStatic
  MapLen <- Len2
  FirstManual = 1
  ArenaLimit = 6
SPECIFICATION FairSpec
INVARIANTS
  OwnBlock
  RegisteredExist
PROPERTIES
  BlocksAreExclusive
  LockIsReleased

CHECK_DEADLOCK FALSE
