--------------------------- MODULE MCTierCounters ---------------------------
(* Instances of TierCounters.                                              *)
EXTENDS TierCounters, TLC

CONSTANTS t1, t2, dram, pmem

TwoThreads == {t1, t2}
Symmetric == Permutations(TwoThreads)

TwoTiers == << dram, pmem >>
Equal2 == << 1, 1 >>

(* The hashes of the two threads give the same bucket, or not.             *)
SameBucket == [t \in TwoThreads |-> 0]
OwnBucket == [t \in TwoThreads |-> IF t = t1 THEN 0 ELSE 1]
=============================================================================
