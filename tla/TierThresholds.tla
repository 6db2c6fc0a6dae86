--------------------------- MODULE TierThresholds ---------------------------
(***************************************************************************)
(* The DYNAMIC_THRESHOLD policy of memtier: how a builder is filled and    *)
(* turned into a memtier_memory, which tier an allocation goes to, and how *)
(* each allocation may move the thresholds between the tiers.  The policy  *)
(* takes no lock and its fields are not atomic, so the accesses of two     *)
(* threads to them interleave.  Thresholds and tiers are numbered from 1;  *)
(* the floats are exact fractions << numerator, denominator >>.            *)
(***************************************************************************)
EXTENDS Integers, Sequences

CONSTANTS Thread,
          MaxTiers,     \* bound on the tiers added to the builder
          TierRatio,    \* ratios given to memtier_builder_add_tier
          STEP,         \* THRESHOLD_STEP
          Word,         \* 2 to the width of size_t
          Unsigned,     \* 2 to the width of unsigned
          CtlSize,      \* values given to memtier_ctl_set for val, min, max
          CheckCnt,     \* values given to memtier_ctl_set for check_cnt,
          Degree,       \* ... degree
          Trigger,      \* ... and trigger
          THRESHOLD_CHECK_CNT, THRESHOLD_DEGREE, THRESHOLD_TRIGGER,
          AllocSize,    \* values of the kinds' global counters
          Size          \* sizes that are asked for

Fraction == Int \X (Nat \ {0})

ASSUME TierThresholdsAssumption ==
  /\ MaxTiers \in Nat
  /\ TierRatio \subseteq Nat \ {0}
  /\ STEP \in Nat /\ STEP % 2 = 0 /\ STEP > 0
  /\ Word \in Nat /\ STEP * MaxTiers < Word
  /\ Unsigned \in Nat \ {0}
  /\ CtlSize \subseteq 0 .. Word - 1
  /\ CheckCnt \subseteq 0 .. Unsigned - 1
  /\ Degree \subseteq Fraction /\ Trigger \subseteq Fraction
  /\ THRESHOLD_CHECK_CNT \in 0 .. Unsigned - 1
  /\ THRESHOLD_DEGREE \in Fraction /\ THRESHOLD_TRIGGER \in Fraction
  /\ AllocSize \subseteq Nat /\ Size \subseteq 0 .. Word - 1

VARIABLES
  builder,      \* struct memtier_builder
  thres,        \* memory->thres, << >> while there is no memory
  check_cnt,    \* memory->thres_check_cnt
  local         \* the local variables of each thread

vars == << builder, thres, check_cnt, local >>

Less(a, b) == a[1] * b[2] < b[1] * a[2]

(* The local variables: the size a tier is chosen for, the value of the    *)
(* counter, the loop counter, the direction and the amount of a change,    *)
(* the new value.                                                          *)
NoCall == [pc |-> "idle", size |-> 0, cnt |-> 0, i |-> 1, up |-> FALSE,
           change |-> 0, new |-> 0]

(* memtier_builder_new(MEMTIER_POLICY_DYNAMIC_THRESHOLD).                  *)
Init ==
  /\ builder = [ratio |-> << >>, thres |-> << >>,
                check_cnt |-> THRESHOLD_CHECK_CNT, degree |-> THRESHOLD_DEGREE,
                trigger |-> THRESHOLD_TRIGGER]
  /\ thres = << >>
  /\ check_cnt = 0
  /\ local = [t \in Thread |-> NoCall]

Running == thres # << >>

-----------------------------------------------------------------------------
(* memtier_builder_add_tier with builder_dynamic_update: every tier after  *)
(* the first brings a threshold with default values.                       *)
DefaultThreshold(n) ==
  [min |-> STEP \div 2 + STEP * (n - 1),
   val |-> STEP * n,
   max |-> STEP \div 2 + STEP * n - 1]

AddTier(r) ==
  /\ ~Running
  /\ Len(builder.ratio) < MaxTiers
  /\ builder' = [builder EXCEPT
                  !.ratio = Append(@, r),
                  !.thres = IF builder.ratio = << >> THEN @
                              ELSE Append(@, DefaultThreshold(Len(builder.ratio)))]
  /\ UNCHANGED << thres, check_cnt, local >>

(* builder_dynamic_ctl_set of thresholds[n - 1].val, .min or .max, and of  *)
(* check_cnt, degree and trigger.  Nothing is validated here.              *)
CtlSetThreshold(n, field, v) ==
  /\ ~Running
  /\ n < Len(builder.ratio)
  /\ builder' = [builder EXCEPT !.thres[n][field] = v]
  /\ UNCHANGED << thres, check_cnt, local >>

CtlSet(field, v) ==
  /\ ~Running
  /\ builder' = [builder EXCEPT ![field] = v]
  /\ UNCHANGED << thres, check_cnt, local >>

(* The validation in builder_dynamic_create_memory.                        *)
Valid(b) ==
  /\ Len(b.ratio) >= 2
  /\ \A n \in DOMAIN b.thres : /\ b.thres[n].min <= b.thres[n].val
                               /\ b.thres[n].val <= b.thres[n].max
                               /\ n > 1 => b.thres[n - 1].max <= b.thres[n].min
  /\ b.degree[1] >= 0
  /\ b.trigger[1] >= 0

(* memtier_builder_construct_memtier_memory.  When the validation fails it *)
(* returns NULL and the builder can be changed further.                    *)
Construct ==
  /\ ~Running
  /\ Valid(builder)
  /\ thres' = [n \in DOMAIN builder.thres |->
                 [min |-> builder.thres[n].min, val |-> builder.thres[n].val,
                  max |-> builder.thres[n].max, diff |-> << 0, 1 >>]]
  /\ check_cnt' = builder.check_cnt
  /\ UNCHANGED << builder, local >>

(* memtier_delete_memtier_memory, when no call uses the memory.  First     *)
(* print_memtier_memory reads the kind of every tier: a program must not   *)
(* have destroyed them yet.  The kinds are the caller's and no part of     *)
(* this state; the reads are in Libmemtier, which owns its kinds.          *)
Delete ==
  /\ Running
  /\ \A t \in Thread : local[t].pc = "idle"
  /\ thres' = << >>
  /\ check_cnt' = 0
  /\ UNCHANGED << builder, local >>

-----------------------------------------------------------------------------
(* memtier_malloc, memtier_posix_memalign, memtier_realloc of NULL, and    *)
(* memtier_calloc, which chooses a tier for the size of one element.       *)
(* memtier_realloc of a block goes straight to the update.                 *)
MallocBegin(t, s) ==
  /\ Running
  /\ local[t].pc = "idle"
  /\ local' = [local EXCEPT ![t] = [NoCall EXCEPT !.pc = "scanning", !.size = s]]
  /\ UNCHANGED << builder, thres, check_cnt >>

(* memtier_policy_dynamic_threshold_get_kind: the first tier whose         *)
(* threshold is above the size, or the last tier; one threshold at a time. *)
ScanAtMost(t) ==   \* mutant: a size equal to the threshold is below it
  LET c == local[t]
      above == c.i > Len(thres) \/ c.size <= thres[c.i].val
  IN  /\ c.pc = "scanning"
      /\ local' = [local EXCEPT ![t] = IF above THEN [c EXCEPT !.pc = "chosen"]
                                               ELSE [c EXCEPT !.i = @ + 1]]
      /\ UNCHANGED << builder, thres, check_cnt >>

Scan(t) ==
  LET c == local[t]
      above == c.i > Len(thres) \/ c.size < thres[c.i].val
  IN  /\ c.pc = "scanning"
      /\ local' = [local EXCEPT ![t] = IF above THEN [c EXCEPT !.pc = "chosen"]
                                               ELSE [c EXCEPT !.i = @ + 1]]
      /\ UNCHANGED << builder, thres, check_cnt >>

-----------------------------------------------------------------------------
(* memtier_policy_dynamic_threshold_update_config, which every memtier     *)
(* allocation calls at its end.                                            *)

(* --memory->thres_check_cnt reads the counter ...                         *)
LoadCount(t) ==
  /\ Running
  /\ local[t].pc \in {"idle", "chosen"}
  /\ local' = [local EXCEPT ![t] = [NoCall EXCEPT !.pc = "loaded", !.cnt = check_cnt]]
  /\ UNCHANGED << builder, thres, check_cnt >>

(* ... and writes it; only the call that reaches zero goes on.             *)
StoreCount(t) ==
  LET n == (local[t].cnt - 1) % Unsigned
  IN  /\ local[t].pc = "loaded"
      /\ check_cnt' = n
      /\ local' = [local EXCEPT ![t] = [NoCall EXCEPT !.pc = IF n > 0 THEN "idle" ELSE "checking"]]
      /\ UNCHANGED << builder, thres >>

(* The amount by which a threshold of value v changes, rounded up.         *)
Change(v, degree) == -((-(v * degree[1])) \div degree[2])

(* The distance between the ratio of two adjacent tiers and the one asked  *)
(* for, and whether the next tier has too much.                            *)
RatioDiff(n, prev, next) ==
  LET d == next * builder.ratio[n] - prev * builder.ratio[n + 1]
  IN  << IF d < 0 THEN -d ELSE d, prev * builder.ratio[n] >>

TooMuchInNext(n, prev, next) ==
  prev = 0 \/ next * builder.ratio[n] > prev * builder.ratio[n + 1]

(* The next iteration, or the end: the counter starts again.               *)
Advance(t) ==
  IF local[t].i < Len(thres)
    THEN /\ local' = [local EXCEPT ![t] = [NoCall EXCEPT !.pc = "checking", !.i = local[t].i + 1]]
         /\ UNCHANGED check_cnt
    ELSE /\ local' = [local EXCEPT ![t] = NoCall]
         /\ check_cnt' = builder.check_cnt

(* The ratio is close enough, or closer than it was: nothing to do.        *)
Skip(t) ==
  LET n == local[t].i
  IN  /\ local[t].pc = "checking"
      /\ \E prev \in AllocSize \ {0}, next \in AllocSize :
           LET diff == RatioDiff(n, prev, next)
           IN  /\ Less(diff, builder.trigger) \/ Less(diff, thres[n].diff)
               /\ thres' = [thres EXCEPT ![n].diff = diff]
      /\ Advance(t)
      /\ UNCHANGED builder

(* Otherwise the threshold is to change: the amount is computed from its   *)
(* value ...                                                               *)
Decide(t) ==
  LET n == local[t].i
  IN  /\ local[t].pc = "checking"
      /\ \E prev, next \in AllocSize :
           LET diff == RatioDiff(n, prev, next)
           IN  /\ prev = 0 \/ ~(Less(diff, builder.trigger) \/ Less(diff, thres[n].diff))
               /\ thres' = IF prev = 0 THEN thres ELSE [thres EXCEPT ![n].diff = diff]
               /\ local' = [local EXCEPT
                    ![t].pc = "decided",
                    ![t].up = TooMuchInNext(n, prev, next),
                    ![t].change = Change(thres[n].val, builder.degree)]
      /\ UNCHANGED << builder, check_cnt >>

(* ... and added to, or subtracted from, its value, read again.            *)
Compute(t) ==
  LET c == local[t]
      v == thres[c.i].val
  IN  /\ c.pc = "decided"
      /\ local' = [local EXCEPT
           ![t].pc = "computed",
           ![t].new = IF c.up THEN (v + c.change) % Word ELSE (v - c.change) % Word]
      /\ UNCHANGED << builder, thres, check_cnt >>

(* Mutant: the bounds are tested on the old value.                         *)
StoreTestsOld(t) ==
  LET c == local[t]
      v == thres[c.i].val
      within == IF c.up THEN v <= thres[c.i].max ELSE v >= thres[c.i].min
  IN  /\ c.pc = "computed"
      /\ thres' = IF within THEN [thres EXCEPT ![c.i].val = c.new] ELSE thres
      /\ Advance(t)
      /\ UNCHANGED builder

(* The new value is stored if it is not past the bound on its side.        *)
Store(t) ==
  LET c == local[t]
      within == IF c.up THEN c.new <= thres[c.i].max ELSE c.new >= thres[c.i].min
  IN  /\ c.pc = "computed"
      /\ thres' = IF within THEN [thres EXCEPT ![c.i].val = c.new] ELSE thres
      /\ Advance(t)
      /\ UNCHANGED builder

-----------------------------------------------------------------------------
Build ==
  \/ \E r \in TierRatio : AddTier(r)
  \/ \E n \in 1 .. MaxTiers, field \in {"val", "min", "max"}, v \in CtlSize :
       CtlSetThreshold(n, field, v)
  \/ \E v \in CheckCnt : CtlSet("check_cnt", v)
  \/ \E v \in Degree : CtlSet("degree", v)
  \/ \E v \in Trigger : CtlSet("trigger", v)
  \/ Construct \/ Delete

Update(t) == LoadCount(t) \/ StoreCount(t) \/ Skip(t) \/ Decide(t) \/ Compute(t) \/ Store(t)

Call(t) == Scan(t) \/ Update(t) \/ \E s \in Size : MallocBegin(t, s)

Next == Build \/ \E t \in Thread : Call(t)

Spec == Init /\ [][Next]_vars

-----------------------------------------------------------------------------
SizeT == 0 .. Word - 1

Threshold == [min : SizeT, val : SizeT, max : SizeT]

Builder == [ratio : Seq(Nat \ {0}), thres : Seq(Threshold),
            check_cnt : 0 .. Unsigned - 1, degree : Fraction, trigger : Fraction]

Local == [pc : {"idle", "scanning", "chosen", "loaded", "checking", "decided", "computed"},
          size : Nat, cnt : 0 .. Unsigned - 1, i : Nat \ {0}, up : BOOLEAN,
          change : Int, new : SizeT]

TypeOK ==
  /\ builder \in Builder
  /\ builder.ratio # << >> => Len(builder.ratio) = Len(builder.thres) + 1
  /\ builder.ratio = << >> => builder.thres = << >>
  /\ thres \in Seq([min : SizeT, val : SizeT, max : SizeT, diff : Fraction])
  /\ Running => Len(builder.ratio) = Len(thres) + 1
  /\ check_cnt \in 0 .. Unsigned - 1
  /\ local \in [Thread -> Local]
  /\ \A t \in Thread :
       /\ ~Running => local[t].pc = "idle"
       /\ local[t].pc \in {"scanning", "chosen"} => local[t].i <= Len(thres) + 1
       /\ local[t].pc \in {"checking", "decided", "computed"} => local[t].i <= Len(thres)

(* "it will not be lesser than MIN_VAL and it will not be greater than     *)
(* MAX_VAL" (doc/libmemtier.7.md), and the thresholds stay in order.  The  *)
(* manual says it of every configuration; it holds for the gentle ones.    *)
InBounds ==
  \A n \in DOMAIN thres :
    /\ thres[n].min <= thres[n].val /\ thres[n].val <= thres[n].max
    /\ n > 1 => thres[n - 1].val <= thres[n].val

(* A configuration whose changes are not larger than its least thresholds: *)
(* no sum and no difference of a threshold and a change wraps, even if the *)
(* change was computed from an earlier value.  The defaults are of this    *)
(* kind; nothing in the code ensures it for other values.                  *)
Gentle ==
  \A n \in DOMAIN thres : \A v \in thres[n].min .. thres[n].max :
    /\ Change(v, builder.degree) \in 0 .. thres[n].min
    /\ thres[n].max + Change(v, builder.degree) < Word

(* In a gentle configuration a threshold never leaves the range it was     *)
(* given, and the thresholds stay in order, although the threads that      *)
(* change them take no lock and add to the value of now an amount computed *)
(* from an earlier one (memtier_policy_dynamic_threshold_update_config).   *)
Clamped == Gentle => InBounds

(* A call that chose tier i for a size saw thresholds that other threads   *)
(* were moving.  Still, in a gentle configuration, the size is not below   *)
(* the range of any threshold before the tier, and not above the range of  *)
(* any threshold after it.                                                 *)
TierAsDocumented ==
  Gentle =>
    \A t \in Thread : local[t].pc = "chosen" =>
      \A n \in DOMAIN thres :
        IF n < local[t].i THEN local[t].size >= thres[n].min
                          ELSE local[t].size < thres[n].max
=============================================================================
