\* One thread frees what the other allocated.
CONSTANTS
  t1 = t1
  t2 = t2
  dram = dram
  pmem = pmem
  Thread <- TwoThreads
  Tiers <- TwoTiers
  Ratio <- Equal2
  THREAD_BUCKETS = 2
  BucketOf <- OwnBucket
  FLUSH_THRESHOLD = 2
  Word = 128
  Size = {2, 10}
  MaxBlocks = 2
  Reporter = {}
  MaxFailures = 0
SPECIFICATION Spec
INVARIANT RatioKept
