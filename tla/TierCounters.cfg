\* Two threads that share a bucket, two tiers, and one failing call.
CONSTANTS
  t1 = t1
  t2 = t2
  dram = dram
  pmem = pmem
  Thread <- TwoThreads
  Tiers <- TwoTiers
  Ratio <- Equal2
  THREAD_BUCKETS = 2
  BucketOf <- SameBucket
  FLUSH_THRESHOLD = 2
  Word = 64
  Size = {2}
  MaxBlocks = 2
  Reporter <- TwoThreads
  MaxFailures = 1
SPECIFICATION Spec
SYMMETRY Symmetric
INVARIANTS Conserved BucketsBounded ReportExact
