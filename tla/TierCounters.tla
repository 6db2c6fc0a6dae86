---------------------------- MODULE TierCounters ----------------------------
(***************************************************************************)
(* How the memtier functions count the bytes allocated in each kind, and   *)
(* how the STATIC_RATIO policy uses the counts.  A thread adds the size of *)
(* a block to the bucket of its hash; when the bucket is beyond            *)
(* FLUSH_THRESHOLD the thread takes what is in it and adds that to the     *)
(* kind's global counter.  Each access to a counter is one atomic step,    *)
(* and nothing else orders the threads.                                    *)
(***************************************************************************)
EXTENDS Integers, Sequences, FiniteSets, Functions

CONSTANTS Thread,
          Tiers,            \* the kinds of memory->cfg, in order
          Ratio,            \* Ratio[j]: the ratio given to tier j
          THREAD_BUCKETS,
          BucketOf,         \* BucketOf[t]: t_hash_64() in thread t
          FLUSH_THRESHOLD,
          Word,             \* 2 to the width of size_t
          Size,             \* usable sizes of blocks
          MaxBlocks,        \* bound on the blocks a program holds
          Reporter,         \* threads that call memtier_kind_allocated_size
          MaxFailures       \* bound on the calls of memkind_realloc and
                            \* jemk_posix_memalign that fail

Kind == Range(Tiers)
Bucket == 0 .. THREAD_BUCKETS - 1

ASSUME TierCountersAssumption ==
  /\ Tiers \in Seq(Kind) /\ Tiers # << >> /\ Len(Ratio) = Len(Tiers)
  /\ IsFiniteSet(Thread)
  /\ THREAD_BUCKETS \in Nat \ {0}
  /\ BucketOf \in [Thread -> Bucket]
  /\ Size \subseteq Nat \ {0} /\ IsFiniteSet(Size)
  /\ MaxFailures \in Nat
  /\ FLUSH_THRESHOLD \in Nat \ {0}
  /\ Word \in Nat /\ 2 * FLUSH_THRESHOLD < Word
  /\ \A s \in Size : FLUSH_THRESHOLD + s < Word    \* no block fills the addresses

VARIABLES
  t_alloc_size,   \* [kind][bucket], a signed counter
  g_alloc_size,   \* [kind], an unsigned counter
  blocks,         \* blocks[k][s]: how many blocks of kind k and size s are held
  call,           \* what each thread is doing
  failures,       \* how many calls have failed,
  missed          \* missed[k]: and by how much the count of k is wrong for that

vars == << t_alloc_size, g_alloc_size, blocks, call, failures, missed >>

(* A call: its program counter, the kind and the size at hand, whether the *)
(* size is to be added or subtracted, the new size of a realloc (0 for a   *)
(* free), the local accumulator, the loop counter, and whether no other    *)
(* call ran since this one began.                                          *)
NoCall == [pc |-> "idle", kind |-> Tiers[1], size |-> 0, up |-> TRUE, new |-> 0,
           acc |-> 0, i |-> 0, quiet |-> FALSE]

Pc == {"idle", "choosing", "chosen", "counting", "taking", "adding",
       "reallocating", "gathering", "reporting", "reported"}

TypeOK ==
  /\ t_alloc_size \in [Kind -> [Bucket -> Int]]
  /\ g_alloc_size \in [Kind -> 0 .. Word - 1]
  /\ blocks \in [Kind -> [Size -> Nat]]
  /\ \A t \in Thread :
       /\ call[t].pc \in Pc
       /\ call[t].kind \in Kind
       /\ call[t].size \in Size \cup {0}
       /\ call[t].acc \in Int
  /\ failures \in 0 .. MaxFailures
  /\ missed \in [Kind -> Int]

Init ==
  /\ t_alloc_size = [k \in Kind |-> [b \in Bucket |-> 0]]
  /\ g_alloc_size = [k \in Kind |-> 0]
  /\ blocks = [k \in Kind |-> [s \in Size |-> 0]]
  /\ call = [t \in Thread |-> NoCall]
  /\ failures = 0
  /\ missed = [k \in Kind |-> 0]

-----------------------------------------------------------------------------
Unsigned(n) == n % Word

Held == SumFunction([k \in Kind |-> SumFunction(blocks[k])])

(* A call begins: no other call is quiet any more.                         *)
Begins(t, c) ==
  call' = [u \in Thread |-> IF u = t THEN c ELSE [call[u] EXCEPT !.quiet = FALSE]]

(* A call fails after the count of kind k was made wrong by n bytes.       *)
Miss(k, n) ==
  /\ failures < MaxFailures
  /\ failures' = failures + 1
  /\ missed' = [missed EXCEPT ![k] = @ + n]

Continues(t, c) == call' = [call EXCEPT ![t] = c]

Undisturbed(t) ==
  \A u \in Thread \ {t} : call[u].pc \in {"idle", "reported"}

-----------------------------------------------------------------------------
(* memtier_policy_static_ratio_get_kind, one load after the other.  The    *)
(* size of tier 1 is loaded first; each later tier whose size, scaled by   *)
(* the ratio, is below it becomes the choice.                              *)

ChooseBegin(t, s) ==
  /\ call[t].pc = "idle"
  /\ Held < MaxBlocks
  /\ Begins(t, [NoCall EXCEPT !.pc = IF Len(Tiers) = 1 THEN "chosen" ELSE "choosing",
                              !.size = s, !.acc = g_alloc_size[Tiers[1]], !.i = 2,
                              !.quiet = Undisturbed(t)])
  /\ UNCHANGED << t_alloc_size, g_alloc_size, blocks >>

ChooseNext(t) ==
  LET c == call[t]
      below == g_alloc_size[Tiers[c.i]] * Ratio[1] < c.acc * Ratio[c.i]
  IN  /\ c.pc = "choosing"
      /\ Continues(t, [c EXCEPT !.kind = IF below THEN Tiers[c.i] ELSE @,
                                !.pc = IF c.i = Len(Tiers) THEN "chosen" ELSE @,
                                !.i = @ + 1])
      /\ UNCHANGED << t_alloc_size, g_alloc_size, blocks >>

(* memtier_kind_malloc, memtier_kind_calloc, memtier_kind_posix_memalign   *)
(* and memtier_kind_realloc of NULL, called with a kind.                   *)
KindMallocBegin(t, k, s) ==
  /\ call[t].pc = "idle"
  /\ Held < MaxBlocks
  /\ Begins(t, [NoCall EXCEPT !.pc = "chosen", !.kind = k, !.size = s])
  /\ UNCHANGED << t_alloc_size, g_alloc_size, blocks >>

(* The allocation itself; then the usable size is to be counted, which is  *)
(* zero for NULL.                                                          *)
KindMalloc(t) ==
  LET c == call[t]
  IN  /\ c.pc = "chosen"
      /\ \/ /\ blocks' = [blocks EXCEPT ![c.kind][c.size] = @ + 1]
            /\ Continues(t, [c EXCEPT !.pc = "counting", !.acc = 0])
         \/ /\ UNCHANGED blocks
            /\ Continues(t, [c EXCEPT !.pc = "counting", !.size = 0, !.acc = 0])
      /\ UNCHANGED << t_alloc_size, g_alloc_size >>

(* jemk_posix_memalign leaves *memptr alone when it fails, so the pointer  *)
(* whose size is counted is the one the caller's variable held before.     *)
MemalignError(t) ==
  LET c == call[t]
  IN  /\ c.pc = "chosen"
      /\ \E k \in Kind, s \in Size :
           /\ blocks[k][s] > 0
           /\ Continues(t, [c EXCEPT !.pc = "counting", !.size = s, !.acc = 0])
           /\ Miss(c.kind, s)
      /\ UNCHANGED << t_alloc_size, g_alloc_size, blocks >>

(* memtier_kind_free, and memtier_kind_realloc to size zero (new = 0), and  *)
(* memtier_kind_realloc of a block (new > 0): the old size is subtracted   *)
(* first.  The caller gives the block up when the call begins.             *)
FreeBegin(t, k, s, new) ==
  /\ call[t].pc = "idle"
  /\ blocks[k][s] > 0
  /\ blocks' = [blocks EXCEPT ![k][s] = @ - 1]
  /\ Begins(t, [NoCall EXCEPT !.pc = "counting", !.kind = k, !.size = s,
                              !.up = FALSE, !.new = new])
  /\ UNCHANGED << t_alloc_size, g_alloc_size >>

(* memtier_kind_free of NULL with a kind: a decrement by zero.             *)
FreeNull(t, k) ==
  /\ call[t].pc = "idle"
  /\ Begins(t, [NoCall EXCEPT !.pc = "counting", !.kind = k, !.up = FALSE])
  /\ UNCHANGED << t_alloc_size, g_alloc_size, blocks >>

(* memkind_realloc, and the size of its result, which is zero for NULL.    *)
KindRealloc(t) ==
  LET c == call[t]
  IN  /\ c.pc = "reallocating"
      /\ \/ /\ blocks' = [blocks EXCEPT ![c.kind][c.new] = @ + 1]
            /\ Continues(t, [c EXCEPT !.pc = "counting", !.up = TRUE, !.size = c.new,
                                      !.new = 0])
            /\ UNCHANGED << failures, missed >>
         \/ /\ Miss(c.kind, -c.size)
            /\ blocks' = [blocks EXCEPT ![c.kind][c.size] = @ + 1]
            /\ Continues(t, [c EXCEPT !.pc = "counting", !.up = TRUE, !.size = 0,
                                      !.new = 0])
      /\ UNCHANGED << t_alloc_size, g_alloc_size >>

-----------------------------------------------------------------------------
(* increment_alloc_size and decrement_alloc_size.                          *)

(* What follows the count: the call returns, or a realloc goes on.         *)
After(c) == IF ~c.up /\ c.new > 0 THEN [c EXCEPT !.pc = "reallocating", !.acc = 0]
                                  ELSE NoCall

(* Mutant: only increments flush, so that frees pile up in the bucket.     *)
CountFlushesUp(t) ==
  LET c == call[t]
      b == BucketOf[t]
      n == IF c.up THEN t_alloc_size[c.kind][b] + c.size
                   ELSE t_alloc_size[c.kind][b] - c.size
  IN  /\ c.pc = "counting"
      /\ t_alloc_size' = [t_alloc_size EXCEPT ![c.kind][b] = n]
      /\ Continues(t, IF c.up /\ Unsigned(n) > FLUSH_THRESHOLD
                        THEN [c EXCEPT !.pc = "taking"] ELSE After(c))
      /\ UNCHANGED << g_alloc_size, blocks >>

(* The sum of a signed and an unsigned operand is unsigned: an increment   *)
(* that leaves the bucket negative flushes it, and a decrement flushes it  *)
(* unless it leaves the bucket between -FLUSH_THRESHOLD and -1.            *)
Count(t) ==
  LET c == call[t]
      b == BucketOf[t]
      n == IF c.up THEN t_alloc_size[c.kind][b] + c.size
                   ELSE t_alloc_size[c.kind][b] - c.size
      flush == IF c.up THEN Unsigned(n) > FLUSH_THRESHOLD
                       ELSE Unsigned(n) < Unsigned(-FLUSH_THRESHOLD)
  IN  /\ c.pc = "counting"
      /\ t_alloc_size' = [t_alloc_size EXCEPT ![c.kind][b] = n]
      /\ Continues(t, IF flush THEN [c EXCEPT !.pc = "taking"] ELSE After(c))
      /\ UNCHANGED << g_alloc_size, blocks >>

(* Mutant: the flush subtracts nothing from the bucket, it only reads it.  *)
TakeKeeps(t) ==
  LET c == call[t]
  IN  /\ c.pc = "taking"
      /\ Continues(t, [c EXCEPT !.pc = "adding", !.acc = t_alloc_size[c.kind][BucketOf[t]]])
      /\ UNCHANGED << t_alloc_size, g_alloc_size, blocks >>

(* memkind_atomic_get_and_zeroing.                                         *)
Take(t) ==
  LET c == call[t]
      b == BucketOf[t]
  IN  /\ c.pc = "taking"
      /\ Continues(t, [c EXCEPT !.pc = "adding", !.acc = t_alloc_size[c.kind][b]])
      /\ t_alloc_size' = [t_alloc_size EXCEPT ![c.kind][b] = 0]
      /\ UNCHANGED << g_alloc_size, blocks >>

Add(t) ==
  LET c == call[t]
  IN  /\ c.pc = "adding"
      /\ g_alloc_size' = [g_alloc_size EXCEPT ![c.kind] = Unsigned(@ + c.acc)]
      /\ Continues(t, After(c))
      /\ UNCHANGED << t_alloc_size, blocks >>

-----------------------------------------------------------------------------
(* memtier_kind_allocated_size: every bucket is emptied in turn, and their *)
(* sum is added to the global counter.                                     *)

ReportBegin(t, k) ==
  /\ t \in Reporter
  /\ call[t].pc = "idle"
  /\ Begins(t, [NoCall EXCEPT !.pc = "gathering", !.kind = k, !.quiet = Undisturbed(t)])
  /\ UNCHANGED << t_alloc_size, g_alloc_size, blocks >>

Gather(t) ==
  LET c == call[t]
  IN  /\ c.pc = "gathering"
      /\ t_alloc_size' = [t_alloc_size EXCEPT ![c.kind][c.i] = 0]
      /\ Continues(t, [c EXCEPT !.acc = @ + t_alloc_size[c.kind][c.i], !.i = @ + 1,
                                !.pc = IF c.i = THREAD_BUCKETS - 1 THEN "reporting" ELSE @])
      /\ UNCHANGED << g_alloc_size, blocks >>

(* Mutant: the old value of the global counter is returned.                *)
ReportOld(t) ==
  LET c == call[t]
  IN  /\ c.pc = "reporting"
      /\ g_alloc_size' = [g_alloc_size EXCEPT ![c.kind] = Unsigned(@ + c.acc)]
      /\ Continues(t, [c EXCEPT !.pc = "reported", !.acc = g_alloc_size[c.kind]])
      /\ UNCHANGED << t_alloc_size, blocks >>

(* The value returned is kept until the caller looks at it.                *)
Report(t) ==
  LET c == call[t]
      total == Unsigned(g_alloc_size[c.kind] + c.acc)
  IN  /\ c.pc = "reporting"
      /\ g_alloc_size' = [g_alloc_size EXCEPT ![c.kind] = total]
      /\ Continues(t, [c EXCEPT !.pc = "reported", !.acc = total])
      /\ UNCHANGED << t_alloc_size, blocks >>

ReportEnd(t) ==
  /\ call[t].pc = "reported"
  /\ Continues(t, NoCall)
  /\ UNCHANGED << t_alloc_size, g_alloc_size, blocks >>

-----------------------------------------------------------------------------
(* The kind is destroyed, by memkind_pmem_destroy or memkind_fixed_destroy *)
(* with memtier_reset_size, and another kind takes its partition.  The     *)
(* program has freed its blocks and no call of a thread is on the kind, or *)
(* on a memory with it, so that the stores are one step.                   *)

Unused(k) ==
  /\ \A s \in Size : blocks[k][s] = 0
  /\ \A t \in Thread : call[t].pc # "choosing" /\ (call[t].kind = k => call[t].pc = "idle")

ResetSize(k) ==
  /\ Unused(k)
  /\ t_alloc_size' = [t_alloc_size EXCEPT ![k] = [b \in Bucket |-> 0]]
  /\ g_alloc_size' = [g_alloc_size EXCEPT ![k] = 0]
  /\ missed' = [missed EXCEPT ![k] = 0]
  /\ UNCHANGED << blocks, call, failures >>

-----------------------------------------------------------------------------
Begin(t) ==
  \/ \E s \in Size : ChooseBegin(t, s)
  \/ \E k \in Kind, s \in Size : KindMallocBegin(t, k, s)
  \/ \E k \in Kind, s \in Size, new \in Size \cup {0} : FreeBegin(t, k, s, new)
  \/ \E k \in Kind : FreeNull(t, k) \/ ReportBegin(t, k)

Step(t) ==
  \/ ChooseNext(t) \/ KindMalloc(t)
  \/ Count(t) \/ Take(t) \/ Add(t)
  \/ Gather(t) \/ Report(t) \/ ReportEnd(t)

Next ==
  \/ \E t \in Thread :
       \/ (Begin(t) \/ Step(t)) /\ UNCHANGED << failures, missed >>
       \/ MemalignError(t) \/ KindRealloc(t)
  \/ \E k \in Kind : ResetSize(k)

Spec == Init /\ [][Next]_vars

-----------------------------------------------------------------------------
Idle == \A t \in Thread : call[t].pc = "idle"

(* The bytes of the blocks held in kind k.                                 *)
Live(k) == SumFunction([s \in Size |-> s * blocks[k][s]])

(* What thread t holds in its hands of the count of kind k.                *)
InHand(t, k) ==
  IF call[t].kind = k /\ call[t].pc \in {"adding", "gathering", "reporting"}
    THEN call[t].acc ELSE 0

(* What thread t still has to count for kind k.                            *)
ToCount(t, k) ==
  IF call[t].kind = k /\ call[t].pc = "counting"
    THEN IF call[t].up THEN call[t].size ELSE -call[t].size
    ELSE 0

Counted(k) ==
  g_alloc_size[k] + SumFunction(t_alloc_size[k])
    + SumFunction([t \in Thread |-> InHand(t, k) + ToCount(t, k)])

(* The size of kind k as the functions account for it: the bytes held, and *)
(* what failed calls made wrong.  Without failed calls missed[k] is 0.     *)
Accounted(k) == Live(k) + missed[k]

(* No byte is lost or counted twice, at no moment, however the increments, *)
(* the flushes and the gathering of memtier_kind_allocated_size interleave,*)
(* and although the counters wrap: global counter, buckets, what threads   *)
(* have taken and what they still have to count add up to what is held.    *)
(* Only two things make a difference, for as long as the kind lives: a     *)
(* realloc that fails after its block was subtracted, and a posix_memalign *)
(* that fails.  A kind that takes over the partition starts from zero.     *)
Conserved == \A k \in Kind : Unsigned(Counted(k)) = Unsigned(Accounted(k))

(* Between calls no bucket keeps more than FLUSH_THRESHOLD bytes, in       *)
(* either direction, in spite of the mixed signedness of the comparisons   *)
(* that decide about a flush, and whichever calls failed.  So the global   *)
(* counter, the only one the policies read, is off by at most              *)
(* FLUSH_THRESHOLD bytes per bucket, modulo the width of size_t.           *)
BucketsBounded ==
  TypeOK /\ (Idle => \A k \in Kind, b \in Bucket :
    t_alloc_size[k][b] \in -FLUSH_THRESHOLD .. FLUSH_THRESHOLD)

(* memtier_kind_allocated_size returns the bytes held if no other call ran *)
(* while it did, whatever calls did before.  A second call of itself is    *)
(* such a call: what it has gathered is in no counter until it adds it.    *)
ReportExact ==
  \A t \in Thread :
    call[t].pc = "reported" /\ call[t].quiet
      => call[t].acc = Unsigned(Accounted(call[t].kind))

(* The STATIC_RATIO policy keeps the ratio: with no other thread active, a *)
(* tier that already has more than its share, even allowing for what the   *)
(* buckets hold back, is not chosen.                                       *)
RatioKept ==
  \A t \in Thread, j \in 2 .. Len(Tiers) :
    LET lag == THREAD_BUCKETS * FLUSH_THRESHOLD
    IN  call[t].pc = "chosen" /\ call[t].quiet /\ call[t].kind = Tiers[j]
          => (Live(Tiers[j]) - lag) * Ratio[1] < (Live(Tiers[1]) + lag) * Ratio[j]
=============================================================================
