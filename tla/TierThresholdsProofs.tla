------------------------ MODULE TierThresholdsProofs ------------------------
(***************************************************************************)
(* Proofs about TierThresholds, and about Libmemtier, which is composed    *)
(* with it.                                                                *)
(***************************************************************************)
EXTENDS Libmemtier, TLAPS, SequenceTheorems, FunctionTheorems

\* Zenon is the default prover; a step it does not find names SMT.
USE ZenonT(30)

-----------------------------------------------------------------------------
(* Induction, in the form of the existence of least elements.              *)

(* A set of natural numbers that is not empty has a least element.  Let s  *)
(* be an element.  If there were no least one, the numbers 1 .. s + 1      *)
(* would fit injectively into 1 .. s: those up to all of S stay, the       *)
(* others move down by one.                                                *)
LEMMA LeastNat ==
  ASSUME NEW S, S \subseteq Nat, S # {}
  PROVE  \E x \in S : \A y \in S : x <= y
<1> SUFFICES ASSUME \A x \in S : \E y \in S : y < x PROVE FALSE
  BY SMT
<1>1. PICK s \in S : TRUE
  OBVIOUS
<1>2. s \in Nat /\ s + 1 \in Nat /\ \A y \in S : y \in Nat
  BY SMT
<1> DEFINE T == {k \in 1 .. s + 1 : \A y \in S : k <= y}
           h == [k \in 1 .. s + 1 |-> IF k \in T THEN k ELSE k - 1]
<1>3. s + 1 \notin T /\ \A k \in T : k <= s
  BY <1>1, <1>2, SMT
<1>4. \A k \in 1 .. s + 1 : k \notin T => k > 1
  <2> SUFFICES ASSUME NEW k \in 1 .. s + 1, k \notin T, k = 1 PROVE FALSE
    BY <1>2, SMT
  <2>1. PICK y \in S : ~(1 <= y)
    OBVIOUS
  <2>2. y = 0
    BY <1>2, <2>1, SMT
  <2>3. PICK z \in S : z < y
    OBVIOUS
  <2> QED
    BY <1>2, <2>2, <2>3, SMT
<1>5. \A k \in T : k + 1 \in 1 .. s + 1 => k + 1 \in T
  <2> SUFFICES ASSUME NEW k \in T, k + 1 \in 1 .. s + 1, NEW y \in S PROVE k + 1 <= y
    OBVIOUS
  <2>1. k \in Nat /\ k <= y /\ \A z \in S : k <= z
    BY SMT
  <2>2. y # k
    BY <1>2, <2>1, SMT
  <2> QED
    BY <1>2, <2>1, <2>2, SMT
<1>6. T \subseteq 1 .. s + 1
  OBVIOUS
<1> HIDE DEF T
<1>7. h \in [1 .. s + 1 -> 1 .. s]
  BY <1>2, <1>3, <1>4, <1>6, SMT
<1>8. IsInjective(h)
  <2> SUFFICES ASSUME NEW a \in 1 .. s + 1, NEW b \in 1 .. s + 1, h[a] = h[b] PROVE a = b
    BY DEF IsInjective
  <2>1. a \in Int /\ b \in Int
    BY <1>2, SMT
  <2>2. CASE a \in T /\ b \notin T
    BY <1>5, <2>1, <2>2, SMT
  <2>3. CASE a \notin T /\ b \in T
    BY <1>5, <2>1, <2>3, SMT
  <2> QED
    BY <2>1, <2>2, <2>3, SMT
<1>9. ExistsInjection(1 .. s + 1, 1 .. s)
  BY <1>7, <1>8 DEF ExistsInjection, Injection
<1> QED
  BY <1>2, <1>9, Fun_NatInjLeq, SMT

(* What the validation asks of neighbours holds of any two thresholds: the *)
(* range of an earlier one is below the range of a later one.              *)
LEMMA RangesAscend ==
  ASSUME NEW N \in Nat, NEW lo \in [1 .. N -> Int], NEW hi \in [1 .. N -> Int],
         \A n \in 1 .. N : lo[n] <= hi[n],
         \A n \in 2 .. N : hi[n - 1] <= lo[n]
  PROVE  \A m, n \in 1 .. N : m < n => hi[m] <= lo[n]
<1> DEFINE Bad == {n \in 1 .. N : \E m \in 1 .. N : m < n /\ ~(hi[m] <= lo[n])}
<1>1. SUFFICES ASSUME Bad # {} PROVE FALSE
  OBVIOUS
<1>2. Bad \subseteq Nat
  BY SMT
<1>3. PICK n \in Bad : \A y \in Bad : n <= y
  <2> HIDE DEF Bad
  <2> QED BY <1>1, <1>2, LeastNat
<1>4. n \in 1 .. N
  OBVIOUS
<1>5. PICK m \in 1 .. N : m < n /\ ~(hi[m] <= lo[n])
  OBVIOUS
<1>6. n \in 2 .. N /\ n - 1 \in 1 .. N
  BY <1>4, <1>5, SMT
<1>7. m < n - 1
  <2> HIDE DEF Bad
  <2>1. hi[n - 1] <= lo[n]
    BY <1>6
  <2>2. m # n - 1
    BY <1>5, <2>1
  <2> QED
    BY <1>4, <1>5, <2>2, SMT
<1>8. n - 1 \notin Bad
  <2> HIDE DEF Bad
  <2>1. ~(n <= n - 1)
    BY <1>4, SMT
  <2> QED BY <1>3, <2>1
<1>9. hi[m] <= lo[n - 1]
  BY <1>6, <1>7, <1>8
<1> QED
  BY <1>5, <1>6, <1>9, SMTT(30)

-----------------------------------------------------------------------------
(* Type correctness.                                                       *)

MemThreshold == [min : SizeT, val : SizeT, max : SizeT, diff : Fraction]

(* The moduli, values built from the constants, and remainders.            *)
LEMMA Widths == Word \in Nat \ {0} /\ Unsigned \in Nat \ {0}
<1>1. STEP * MaxTiers \in Nat
  BY TierThresholdsAssumption, SMT
<1> QED
  BY <1>1, TierThresholdsAssumption, SMT

LEMMA NoCallType == NoCall \in Local
BY Widths, SMT DEF NoCall, Local, SizeT

LEMMA Remainders ==
  \A n \in Int : n % Word \in SizeT /\ n % Unsigned \in 0 .. Unsigned - 1
BY Widths, SMT DEF SizeT

(* Products of natural numbers.                                            *)
LEMMA Products ==
  /\ \A a, b \in Nat : a * b \in Nat
  /\ \A a, b \in Nat \ {0} : a * b \in Nat \ {0}
BY SMT

(* Updates of the local variables keep their type.                         *)
LEMMA LocalUpdates ==
  ASSUME NEW c \in Local
  PROVE  /\ [c EXCEPT !.pc = "chosen"] \in Local
         /\ \A j \in Nat \ {0} : /\ [c EXCEPT !.i = j] \in Local
                              /\ [c EXCEPT !.pc = "checking", !.i = j] \in Local
         /\ \A u \in BOOLEAN, d \in Int :
              [c EXCEPT !.pc = "decided", !.up = u, !.change = d] \in Local
         /\ \A w \in SizeT : [c EXCEPT !.pc = "computed", !.new = w] \in Local
<1>1. [c EXCEPT !.pc = "chosen"] \in Local
  BY DEF Local
<1>2. \A j \in Nat \ {0} : [c EXCEPT !.i = j] \in Local
  BY DEF Local
<1>3. \A j \in Nat \ {0} : [c EXCEPT !.pc = "checking", !.i = j] \in Local
  BY DEF Local
<1>4. \A u \in BOOLEAN, d \in Int : [c EXCEPT !.pc = "decided", !.up = u, !.change = d] \in Local
  BY DEF Local
<1>5. \A w \in SizeT : [c EXCEPT !.pc = "computed", !.new = w] \in Local
  BY DEF Local
<1> QED
  BY <1>1, <1>2, <1>3, <1>4, <1>5

(* A step of one call keeps the types if what it writes has them.          *)
LEMMA StepType ==
  ASSUME TypeOK, Running, NEW t \in Thread, NEW r \in Local,
         builder' = builder, local' = [local EXCEPT ![t] = r],
         thres' \in Seq(MemThreshold), Len(thres') = Len(thres),
         check_cnt' \in 0 .. Unsigned - 1,
         r.pc \in {"scanning", "chosen"} => r.i <= Len(thres) + 1,
         r.pc \in {"checking", "decided", "computed"} => r.i <= Len(thres)
  PROVE  TypeOK'
<1>1. thres' # << >> /\ thres # << >>
  BY EmptySeq, LenProperties DEF Running, TypeOK
<1>2. local' \in [Thread -> Local]
  BY DEF TypeOK
<1>3. ASSUME NEW u \in Thread
      PROVE  /\ local'[u].pc \in {"scanning", "chosen"} => local'[u].i <= Len(thres') + 1
             /\ local'[u].pc \in {"checking", "decided", "computed"} => local'[u].i <= Len(thres')
  BY DEF TypeOK
<1> QED
  BY <1>1, <1>2, <1>3 DEF TypeOK, Running, MemThreshold

(* Changing one field of a threshold of the memory.                        *)
LEMMA ThresType ==
  ASSUME NEW s \in Seq(MemThreshold), NEW n \in 1 .. Len(s)
  PROVE  /\ \A d \in Fraction : /\ [s EXCEPT ![n].diff = d] \in Seq(MemThreshold)
                               /\ Len([s EXCEPT ![n].diff = d]) = Len(s)
         /\ \A v \in SizeT : /\ [s EXCEPT ![n].val = v] \in Seq(MemThreshold)
                            /\ Len([s EXCEPT ![n].val = v]) = Len(s)
<1>1. s[n] \in MemThreshold
  BY ElementOfSeq
<1>2. ASSUME NEW d \in Fraction
      PROVE  /\ [s EXCEPT ![n].diff = d] \in Seq(MemThreshold)
             /\ Len([s EXCEPT ![n].diff = d]) = Len(s)
  <2>1. [s[n] EXCEPT !.diff = d] \in MemThreshold
    BY <1>1 DEF MemThreshold
  <2> QED
    BY <2>1, ExceptSeq, SMT
<1>3. ASSUME NEW v \in SizeT
      PROVE  /\ [s EXCEPT ![n].val = v] \in Seq(MemThreshold)
             /\ Len([s EXCEPT ![n].val = v]) = Len(s)
  <2>1. [s[n] EXCEPT !.val = v] \in MemThreshold
    BY <1>1 DEF MemThreshold
  <2> QED
    BY <2>1, ExceptSeq, SMT
<1> QED
  BY <1>2, <1>3

LEMMA InitType == Init => TypeOK
<1> SUFFICES ASSUME Init PROVE TypeOK
  OBVIOUS
<1>1. builder \in Builder
  BY TierThresholdsAssumption, EmptySeq DEF Init, Builder
<1>2. local \in [Thread -> Local] /\ \A t \in Thread : local[t].pc = "idle"
  BY NoCallType DEF Init, NoCall
<1>3. thres \in Seq(MemThreshold)
  BY EmptySeq DEF Init
<1>4. builder.ratio = << >> /\ builder.thres = << >> /\ thres = << >>
  BY DEF Init
<1>5. check_cnt \in 0 .. Unsigned - 1
  BY Widths, SMT DEF Init
<1> QED
  BY <1>1, <1>2, <1>3, <1>4, <1>5 DEF TypeOK, Running, MemThreshold

(* The default values of a threshold fit in a size_t.                      *)
LEMMA DefaultType ==
  ASSUME NEW n \in Nat \ {0}, n < MaxTiers
  PROVE  DefaultThreshold(n) \in Threshold
<1> DEFINE h == STEP \div 2
<1>1. STEP \in Nat /\ MaxTiers \in Nat /\ Word \in Nat /\ STEP * MaxTiers < Word
  BY TierThresholdsAssumption
<1>2. h \in Nat /\ h >= 1 /\ 2 * h = STEP
  BY TierThresholdsAssumption, SMT
<1>3. /\ STEP * n \in Nat /\ STEP * (n - 1) \in Nat /\ STEP * (n + 1) \in Nat
      /\ STEP * (n - 1) = STEP * n - STEP /\ STEP * (n + 1) = STEP * n + STEP
  BY <1>1, SMT
<1>4. STEP * (n + 1) <= STEP * MaxTiers
  BY <1>1, SMTT(30)
<1> HIDE DEF h
<1>5. STEP * n + STEP < Word
  BY <1>1, <1>3, <1>4, SMT
<1>6. /\ h + STEP * (n - 1) \in SizeT
      /\ STEP * n \in SizeT
      /\ h + STEP * n - 1 \in SizeT
  BY <1>1, <1>2, <1>3, <1>5, SMT DEF SizeT
<1> QED
  BY <1>6 DEF DefaultThreshold, Threshold, h

LEMMA BuildType == TypeOK /\ Build => TypeOK'
<1> SUFFICES ASSUME TypeOK, Build PROVE TypeOK'
  OBVIOUS
<1>t. /\ builder \in Builder
      /\ builder.ratio \in Seq(Nat \ {0}) /\ builder.thres \in Seq(Threshold)
  BY DEF TypeOK, Builder
<1>1. ASSUME NEW r \in TierRatio, AddTier(r) PROVE TypeOK'
  <2>1. /\ ~Running /\ Len(builder.ratio) < MaxTiers
        /\ UNCHANGED << thres, check_cnt, local >>
    BY <1>1 DEF AddTier
  <2>2. r \in Nat \ {0}
    BY TierThresholdsAssumption
  <2>3. /\ Append(builder.ratio, r) \in Seq(Nat \ {0})
        /\ Len(Append(builder.ratio, r)) = Len(builder.ratio) + 1
        /\ Len(builder.ratio) \in Nat
    BY <1>t, <2>2, AppendProperties, LenProperties, SMTT(30)
  <2>4. CASE builder.ratio = << >>
    <3>1. builder' = [builder EXCEPT !.ratio = Append(builder.ratio, r)]
      BY <1>1, <1>t, <2>4 DEF AddTier, Builder
    <3>2. builder'.ratio = Append(builder.ratio, r) /\ builder'.thres = << >>
      BY <1>t, <2>4, <3>1 DEF Builder, TypeOK
    <3>3. builder' \in Builder
      BY <1>t, <2>3, <3>1 DEF Builder
    <3>4. Len(builder'.ratio) = Len(builder'.thres) + 1 /\ builder'.ratio # << >>
      BY <2>3, <2>4, <3>2, EmptySeq, SMT
    <3> QED
      BY <2>1, <3>3, <3>4 DEF TypeOK, Running
  <2>5. CASE builder.ratio # << >>
    <3> DEFINE n == Len(builder.ratio)
    <3>1. n \in Nat \ {0} /\ n < MaxTiers
      BY <1>t, <2>1, <2>3, <2>5, EmptySeq
    <3>2. DefaultThreshold(n) \in Threshold
      BY <3>1, DefaultType
    <3>3. /\ Append(builder.thres, DefaultThreshold(n)) \in Seq(Threshold)
          /\ Len(Append(builder.thres, DefaultThreshold(n))) = Len(builder.thres) + 1
      BY <1>t, <3>2, AppendProperties
    <3>4. builder' = [builder EXCEPT !.ratio = Append(builder.ratio, r),
                                     !.thres = Append(builder.thres, DefaultThreshold(n))]
      BY <1>1, <1>t, <2>5 DEF AddTier, Builder
    <3> HIDE DEF n
    <3>5. builder' \in Builder
      BY <1>t, <2>3, <3>3, <3>4 DEF Builder
    <3>6. /\ builder'.ratio = Append(builder.ratio, r)
          /\ builder'.thres = Append(builder.thres, DefaultThreshold(n))
      BY <1>t, <3>4 DEF Builder
    <3>7. Len(builder'.ratio) = Len(builder'.thres) + 1
      BY <2>3, <2>5, <3>3, <3>6 DEF TypeOK
    <3>8. builder'.ratio # << >>
      <4>1. Len(builder'.ratio) > 0
        BY <2>3, <3>6, SMT
      <4> QED
        BY <4>1, SMT
    <3> QED
      BY <2>1, <3>5, <3>7, <3>8 DEF TypeOK, Running
  <2> QED
    BY <2>4, <2>5
<1>2. ASSUME NEW n \in 1 .. MaxTiers, NEW field \in {"val", "min", "max"}, NEW v \in CtlSize,
             CtlSetThreshold(n, field, v)
      PROVE  TypeOK'
  <2>1. /\ ~Running /\ n < Len(builder.ratio)
        /\ UNCHANGED << thres, check_cnt, local >>
        /\ builder' = [builder EXCEPT !.thres[n][field] = v]
    BY <1>2 DEF CtlSetThreshold
  <2>2. v \in SizeT /\ n \in Nat \ {0}
    BY TierThresholdsAssumption, SMTT(30) DEF SizeT
  <2>3. builder.ratio # << >> /\ n \in 1 .. Len(builder.thres)
    BY <1>t, <2>1, <2>2, EmptySeq, LenProperties, SMT DEF TypeOK
  <2>4. builder.thres[n] \in Threshold
    BY <1>t, <2>3, ElementOfSeq
  <2>5. [builder.thres[n] EXCEPT ![field] = v] \in Threshold
    BY <2>2, <2>4 DEF Threshold
  <2> DEFINE th == [builder.thres EXCEPT ![n] = [builder.thres[n] EXCEPT ![field] = v]]
  <2>6. th \in Seq(Threshold) /\ Len(th) = Len(builder.thres)
    BY <1>t, <2>3, <2>5, ExceptSeq, SMT
  <2>7. builder' = [builder EXCEPT !.thres = th]
    BY <2>1
  <2> HIDE DEF th
  <2>8. builder' \in Builder /\ builder'.ratio = builder.ratio /\ builder'.thres = th
    BY <1>t, <2>6, <2>7 DEF Builder
  <2> QED
    BY <2>1, <2>3, <2>6, <2>8 DEF TypeOK, Running
<1>3. ASSUME NEW field \in {"check_cnt", "degree", "trigger"}, NEW v, CtlSet(field, v),
             field = "check_cnt" => v \in 0 .. Unsigned - 1,
             field # "check_cnt" => v \in Fraction
      PROVE  TypeOK'
  <2>1. /\ ~Running /\ UNCHANGED << thres, check_cnt, local >>
        /\ builder' = [builder EXCEPT ![field] = v]
    BY <1>3 DEF CtlSet
  <2>2. builder' \in Builder /\ builder'.ratio = builder.ratio /\ builder'.thres = builder.thres
    BY <1>3, <1>t, <2>1 DEF Builder
  <2> QED
    BY <2>1, <2>2 DEF TypeOK, Running
<1>4. CASE Construct
  <2>1. /\ ~Running /\ Valid(builder) /\ UNCHANGED << builder, local >>
        /\ check_cnt' = builder.check_cnt
        /\ thres' = [n \in DOMAIN builder.thres |->
                 [min |-> builder.thres[n].min, val |-> builder.thres[n].val,
                  max |-> builder.thres[n].max, diff |-> << 0, 1 >>]]
    BY <1>4 DEF Construct
  <2>2. Len(builder.thres) \in Nat /\ DOMAIN builder.thres = 1 .. Len(builder.thres)
    BY <1>t, LenProperties
  <2>3. \A n \in 1 .. Len(builder.thres) : builder.thres[n] \in Threshold
    BY <1>t, ElementOfSeq
  <2>4. thres' \in [1 .. Len(builder.thres) -> MemThreshold]
    BY <2>1, <2>2, <2>3, SMTT(30) DEF Threshold, MemThreshold, Fraction
  <2>5. thres' \in Seq(MemThreshold) /\ Len(thres') = Len(builder.thres)
    BY <2>2, <2>4, LenProperties, SMTT(30)
  <2>6. Len(builder.ratio) = Len(builder.thres) + 1
    BY <1>t, <2>1, EmptySeq, LenProperties, SMT DEF Valid, TypeOK
  <2>7. local' = local /\ \A t \in Thread : local[t].pc = "idle"
    BY <2>1 DEF TypeOK
  <2>8. check_cnt' \in 0 .. Unsigned - 1
    BY <1>t, <2>1 DEF Builder
  <2> QED
    BY <2>1, <2>5, <2>6, <2>7, <2>8 DEF TypeOK, Running, MemThreshold
<1>5. CASE Delete
  <2>1. thres' = << >> /\ check_cnt' = 0 /\ UNCHANGED << builder, local >>
        /\ \A t \in Thread : local[t].pc = "idle"
    BY <1>5 DEF Delete
  <2>2. thres' \in Seq(MemThreshold)
    BY <2>1, EmptySeq
  <2>3. check_cnt' \in 0 .. Unsigned - 1
    BY <2>1, Widths, SMT
  <2> QED
    BY <2>1, <2>2, <2>3 DEF TypeOK, Running, MemThreshold
<1>6. /\ \A v \in CheckCnt : v \in 0 .. Unsigned - 1
      /\ \A v \in Degree \cup Trigger : v \in Fraction
  BY TierThresholdsAssumption
<1> QED
  BY <1>1, <1>2, <1>3, <1>4, <1>5, <1>6 DEF Build

(* The end of an iteration of the loop over the thresholds.                *)
LEMMA AdvanceType ==
  ASSUME TypeOK, Running, NEW t \in Thread, local[t].pc \in {"checking", "decided", "computed"},
         Advance(t), builder' = builder,
         thres' \in Seq(MemThreshold), Len(thres') = Len(thres)
  PROVE  TypeOK'
<1>1. local[t] \in Local /\ local[t].i \in Nat \ {0} /\ Len(thres) \in Nat
  BY LenProperties DEF TypeOK, Local
<1>2. CASE local[t].i < Len(thres)
  <2>1. PICK r : r = [NoCall EXCEPT !.pc = "checking", !.i = local[t].i + 1]
    OBVIOUS
  <2>2. local' = [local EXCEPT ![t] = r] /\ check_cnt' = check_cnt
    BY <1>2, <2>1 DEF Advance
  <2>3. local[t].i + 1 \in Nat \ {0} /\ local[t].i + 1 <= Len(thres)
    BY <1>1, <1>2, SMT
  <2>4. r \in Local
    BY <2>1, <2>3, NoCallType, LocalUpdates
  <2>5. r.pc = "checking" /\ r.i = local[t].i + 1
    BY <2>1 DEF NoCall
  <2> QED
    BY <2>2, <2>3, <2>4, <2>5, StepType DEF TypeOK
<1>3. CASE ~(local[t].i < Len(thres))
  <2>1. local' = [local EXCEPT ![t] = NoCall] /\ check_cnt' = builder.check_cnt
    BY <1>3 DEF Advance
  <2>2. NoCall \in Local /\ NoCall.pc = "idle"
    BY NoCallType DEF NoCall
  <2>3. check_cnt' \in 0 .. Unsigned - 1
    BY <2>1 DEF TypeOK, Builder
  <2> QED
    BY <2>1, <2>2, <2>3, StepType
<1> QED
  BY <1>2, <1>3

(* The fraction that is stored is one.                                     *)
LEMMA RatioDiffType ==
  ASSUME TypeOK, NEW n \in 1 .. Len(thres), NEW prev \in AllocSize, NEW next \in AllocSize,
         Running, prev # 0
  PROVE  RatioDiff(n, prev, next) \in Fraction
<1>1. prev \in Nat \ {0} /\ next \in Nat
  BY TierThresholdsAssumption
<1>2. Len(thres) \in Nat /\ n \in 1 .. Len(builder.ratio) /\ n + 1 \in 1 .. Len(builder.ratio)
  BY LenProperties, SMT DEF TypeOK
<1>3. builder.ratio[n] \in Nat \ {0} /\ builder.ratio[n + 1] \in Nat \ {0}
  BY <1>2, ElementOfSeq DEF TypeOK, Builder
<1>4. PICK a, b : a = builder.ratio[n] /\ b = builder.ratio[n + 1]
  OBVIOUS
<1>5. /\ next * a - prev * b \in Int
      /\ prev * a \in Nat \ {0}
  <2>1. prev * a \in Nat \ {0} /\ next * a \in Nat /\ prev * b \in Nat
    BY <1>1, <1>3, <1>4, Products
  <2> QED
    BY <2>1, SMTT(30)
<1> QED
  BY <1>4, <1>5, SMT DEF RatioDiff, Fraction

LEMMA CallType ==
  ASSUME TypeOK, NEW t \in Thread, Call(t)
  PROVE  TypeOK'
<1>t. /\ local[t] \in Local /\ local[t].i \in Nat \ {0} /\ local[t].change \in Int
      /\ thres \in Seq(MemThreshold) /\ Len(thres) \in Nat
      /\ local[t].pc # "idle" => Running
  BY LenProperties DEF TypeOK, Local, MemThreshold
<1>e. local[t].pc \in {"checking", "decided", "computed"} =>
        local[t].i \in 1 .. Len(thres) /\ thres[local[t].i] \in MemThreshold
  BY <1>t, ElementOfSeq, SMT DEF TypeOK
<1>1. ASSUME NEW z \in Size, MallocBegin(t, z) PROVE TypeOK'
  <2>1. PICK r : r = [NoCall EXCEPT !.pc = "scanning", !.size = z]
    OBVIOUS
  <2>2. Running /\ local' = [local EXCEPT ![t] = r] /\ UNCHANGED << builder, thres, check_cnt >>
    BY <1>1, <2>1 DEF MallocBegin
  <2>3. z \in Nat
    BY TierThresholdsAssumption, SMT
  <2>5. r \in Local /\ r.pc = "scanning" /\ r.i = 1
    BY <2>1, <2>3, NoCallType DEF Local, NoCall
  <2>6. check_cnt' \in 0 .. Unsigned - 1 /\ 1 <= Len(thres) + 1
    BY <1>t, <2>2, SMT DEF TypeOK
  <2> QED
    BY <1>t, <2>2, <2>5, <2>6, StepType
<1>2. CASE Scan(t)
  <2> DEFINE c == local[t]
             above == c.i > Len(thres) \/ c.size < thres[c.i].val
  <2>1. PICK r : r = IF above THEN [c EXCEPT !.pc = "chosen"] ELSE [c EXCEPT !.i = @ + 1]
    OBVIOUS
  <2>2. c.pc = "scanning" /\ local' = [local EXCEPT ![t] = r] /\ UNCHANGED << builder, thres, check_cnt >>
    BY <1>2, <2>1 DEF Scan
  <2>3. c.i + 1 \in Nat \ {0} /\ c \in Local
    BY <1>t, SMT
  <2>4. r \in Local
    BY <2>1, <2>3, LocalUpdates
  <2>5. r.pc \in {"scanning", "chosen"}
    BY <1>t, <2>1, <2>2 DEF Local
  <2>6. r.i <= Len(thres) + 1
    BY <1>t, <2>1, <2>2, SMT DEF Local, TypeOK
  <2> HIDE DEF c, above
  <2> QED
    BY <1>t, <2>2, <2>4, <2>5, <2>6, StepType DEF TypeOK, c
<1>3. CASE LoadCount(t)
  <2>1. PICK r : r = [NoCall EXCEPT !.pc = "loaded", !.cnt = check_cnt]
    OBVIOUS
  <2>2. Running /\ local' = [local EXCEPT ![t] = r] /\ UNCHANGED << builder, thres, check_cnt >>
    BY <1>3, <2>1 DEF LoadCount
  <2>3. r \in Local /\ r.pc = "loaded"
    BY <2>1, NoCallType DEF Local, NoCall, TypeOK
  <2> QED
    BY <1>t, <2>2, <2>3, StepType DEF TypeOK
<1>4. CASE StoreCount(t)
  <2>1. PICK n : n = (local[t].cnt - 1) % Unsigned
    OBVIOUS
  <2>2. PICK r : r = [NoCall EXCEPT !.pc = IF n > 0 THEN "idle" ELSE "checking"]
    OBVIOUS
  <2>3. /\ local[t].pc = "loaded" /\ local' = [local EXCEPT ![t] = r]
        /\ UNCHANGED << builder, thres >> /\ check_cnt' = n
    BY <1>4, <2>1, <2>2 DEF StoreCount
  <2>4. n \in 0 .. Unsigned - 1
    <3>1. local[t].cnt \in 0 .. Unsigned - 1
      BY <1>t DEF Local
    <3>2. local[t].cnt - 1 \in Int /\ Unsigned \in Nat \ {0}
      BY <3>1, Widths, SMT
    <3> QED
      BY <2>1, <3>2, Remainders
  <2>5. r \in Local /\ r.pc \in {"idle", "checking"} /\ r.i = 1
    BY <2>2, NoCallType DEF Local, NoCall
  <2>6. Running /\ 1 <= Len(thres)
    BY <1>t, <2>3, EmptySeq, SMT DEF Running
  <2> QED
    BY <1>t, <2>3, <2>4, <2>5, <2>6, StepType DEF TypeOK
<1>5. CASE Skip(t)
  <2>1. PICK prev \in AllocSize \ {0}, next \in AllocSize :
          thres' = [thres EXCEPT ![local[t].i].diff = RatioDiff(local[t].i, prev, next)]
    BY <1>5 DEF Skip
  <2>2. local[t].pc = "checking" /\ Advance(t) /\ builder' = builder
    BY <1>5 DEF Skip
  <2>3. RatioDiff(local[t].i, prev, next) \in Fraction
    BY <1>t, <1>e, <2>2, RatioDiffType
  <2>4. thres' \in Seq(MemThreshold) /\ Len(thres') = Len(thres)
    BY <1>t, <1>e, <2>1, <2>2, <2>3, ThresType, SMT
  <2> QED
    BY <1>t, <2>2, <2>4, AdvanceType
<1>6. CASE Decide(t)
  <2>1. PICK prev \in AllocSize, next \in AllocSize :
          /\ thres' = IF prev = 0 THEN thres
               ELSE [thres EXCEPT ![local[t].i].diff = RatioDiff(local[t].i, prev, next)]
          /\ local' = [local EXCEPT ![t].pc = "decided",
               ![t].up = TooMuchInNext(local[t].i, prev, next),
               ![t].change = Change(thres[local[t].i].val, builder.degree)]
    BY <1>6 DEF Decide
  <2>2. local[t].pc = "checking" /\ UNCHANGED << builder, check_cnt >>
    BY <1>6 DEF Decide
  <2>3. thres' \in Seq(MemThreshold) /\ Len(thres') = Len(thres)
    <3>1. CASE prev = 0
      BY <1>t, <2>1, <3>1
    <3>2. CASE prev # 0
      <4>1. RatioDiff(local[t].i, prev, next) \in Fraction
        BY <1>t, <1>e, <2>2, <3>2, RatioDiffType
      <4> QED
        <5>1. thres' = [thres EXCEPT ![local[t].i].diff = RatioDiff(local[t].i, prev, next)]
          BY <2>1, <3>2
        <5> QED
          BY <1>t, <1>e, <2>2, <4>1, <5>1, ThresType, SMT
    <3> QED
      BY <3>1, <3>2
  <2>4. Change(thres[local[t].i].val, builder.degree) \in Int
    <3>1. thres[local[t].i].val \in Int
      BY <1>e, <2>2, Widths, SMT DEF MemThreshold, SizeT
    <3>2. builder.degree[1] \in Int /\ builder.degree[2] \in Nat \ {0}
      BY DEF TypeOK, Builder, Fraction
    <3>3. PICK x : x = -(thres[local[t].i].val * builder.degree[1])
      OBVIOUS
    <3>4. x \in Int
      BY <3>1, <3>2, <3>3, SMT
    <3>5. x \div builder.degree[2] \in Int
      BY <3>2, <3>4, SMT
    <3> QED
      BY <3>3, <3>5, SMT DEF Change
  <2>5. TooMuchInNext(local[t].i, prev, next) \in BOOLEAN
    BY DEF TooMuchInNext
  <2>6. PICK r : r = [local[t] EXCEPT !.pc = "decided",
                        !.up = TooMuchInNext(local[t].i, prev, next),
                        !.change = Change(thres[local[t].i].val, builder.degree)]
    OBVIOUS
  <2>7. local' = [local EXCEPT ![t] = r]
    BY <2>1, <2>6, <1>t DEF TypeOK, Local
  <2>8. r \in Local
    BY <1>t, <2>4, <2>5, <2>6, LocalUpdates
  <2>9. r.pc = "decided" /\ r.i = local[t].i
    BY <1>t, <2>6 DEF Local
  <2> QED
    BY <1>t, <1>e, <2>2, <2>3, <2>7, <2>8, <2>9, StepType DEF TypeOK
<1>7. CASE Compute(t)
  <2> DEFINE c == local[t]
             v == thres[c.i].val
  <2>1. PICK w : w = IF c.up THEN (v + c.change) % Word ELSE (v - c.change) % Word
    OBVIOUS
  <2>2. c.pc = "decided" /\ UNCHANGED << builder, thres, check_cnt >>
        /\ local' = [local EXCEPT ![t].pc = "computed", ![t].new = w]
    BY <1>7, <2>1 DEF Compute
  <2>3. v \in Int
    BY <1>e, <2>2, Widths, SMTT(30) DEF MemThreshold, SizeT
  <2>4. w \in SizeT
    <3>1. v + c.change \in Int /\ v - c.change \in Int
      BY <1>t, <2>3, SMTT(30)
    <3> QED
      BY <2>1, <3>1, Remainders
  <2>5. PICK r : r = [c EXCEPT !.pc = "computed", !.new = w]
    OBVIOUS
  <2>6. local' = [local EXCEPT ![t] = r]
    BY <1>t, <2>2, <2>5 DEF TypeOK, Local
  <2>7. r \in Local
    BY <1>t, <2>4, <2>5, LocalUpdates
  <2>8. r.pc = "computed" /\ r.i = local[t].i
    BY <1>t, <2>5 DEF Local
  <2> QED
    BY <1>t, <1>e, <2>2, <2>6, <2>7, <2>8, StepType DEF TypeOK
<1>8. CASE Store(t)
  <2>1. local[t].pc = "computed" /\ Advance(t) /\ builder' = builder
    BY <1>8 DEF Store
  <2>2. thres' = thres \/ thres' = [thres EXCEPT ![local[t].i].val = local[t].new]
    BY <1>8 DEF Store
  <2>3. local[t].new \in SizeT
    BY <1>t DEF Local
  <2>4. thres' \in Seq(MemThreshold) /\ Len(thres') = Len(thres)
    BY <1>t, <1>e, <2>1, <2>2, <2>3, ThresType, SMT
  <2> QED
    BY <1>t, <2>1, <2>4, AdvanceType
<1> QED
  BY <1>1, <1>2, <1>3, <1>4, <1>5, <1>6, <1>7, <1>8 DEF Call, Update

LEMMA NextType == TypeOK /\ [Next]_vars => TypeOK'
<1>1. TypeOK /\ UNCHANGED vars => TypeOK'
  BY DEF TypeOK, vars, Running
<1> QED
  BY <1>1, BuildType, CallType DEF Next

(* Every variable keeps its type, and an index into memory->thres is one   *)
(* of a threshold, whichever calls run at the same time.                   *)
THEOREM TypeCorrect == Spec => []TypeOK
BY InitType, NextType, PTL DEF Spec

-----------------------------------------------------------------------------
(* The inductive invariant: the ranges are as validated, a call that is    *)
(* about to store a new value has one that is within the bound it will not *)
(* test, and a call that looks for a tier has passed only thresholds whose *)
(* range begins at or below its size.                                      *)

Ranges ==
  \A n \in 1 .. Len(thres) :
    /\ thres[n].min <= thres[n].val /\ thres[n].val <= thres[n].max
    /\ n > 1 => thres[n - 1].max <= thres[n].min

Moves ==
  \A t \in Thread :
    /\ local[t].pc = "decided" =>
         \E v \in thres[local[t].i].min .. thres[local[t].i].max :
           local[t].change = Change(v, builder.degree)
    /\ local[t].pc = "computed" =>
         IF local[t].up THEN thres[local[t].i].min <= local[t].new
                        ELSE local[t].new <= thres[local[t].i].max

Scans ==
  \A t \in Thread : \A n \in 1 .. Len(thres) :
    /\ local[t].pc \in {"scanning", "chosen"} /\ n < local[t].i =>
         local[t].size >= thres[n].min
    /\ local[t].pc = "chosen" /\ n >= local[t].i => local[t].size < thres[n].max

IInv == Ranges /\ Moves /\ Scans

(* What the fields of the memory's thresholds are.                         *)
LEMMA Fields ==
  ASSUME TypeOK
  PROVE  /\ Len(thres) \in Nat /\ DOMAIN thres = 1 .. Len(thres)
         /\ thres \in Seq(MemThreshold)
         /\ \A n \in 1 .. Len(thres) :
              /\ thres[n] \in MemThreshold
              /\ thres[n].min \in Nat /\ thres[n].val \in Nat /\ thres[n].max \in Nat
              /\ thres[n].min < Word /\ thres[n].val < Word /\ thres[n].max < Word
<1>1. thres \in Seq(MemThreshold)
  BY DEF TypeOK, MemThreshold
<1>2. \A n \in 1 .. Len(thres) : thres[n] \in MemThreshold
  BY <1>1, ElementOfSeq
<1> QED
  BY <1>1, <1>2, LenProperties, Widths, SMTT(30) DEF MemThreshold, SizeT

(* A call changes neither the number of thresholds nor their bounds, and   *)
(* only Store changes a value.                                             *)
LEMMA BoundsKept ==
  ASSUME TypeOK, NEW t \in Thread, Call(t)
  PROVE  /\ Len(thres') = Len(thres) /\ builder' = builder
         /\ \A n \in 1 .. Len(thres) :
              /\ thres'[n].min = thres[n].min /\ thres'[n].max = thres[n].max
              /\ \/ thres'[n].val = thres[n].val
                 \/ /\ local[t].pc = "computed" /\ n = local[t].i
                    /\ thres'[n].val = local[t].new
                    /\ IF local[t].up THEN local[t].new <= thres[n].max
                                      ELSE local[t].new >= thres[n].min
<1>1. CASE UNCHANGED << builder, thres >>
  BY <1>1
<1>2. ASSUME NEW d, local[t].pc = "checking", builder' = builder,
             thres' = [thres EXCEPT ![local[t].i].diff = d]
      PROVE  /\ Len(thres') = Len(thres)
             /\ \A n \in 1 .. Len(thres) :
                  /\ thres'[n].min = thres[n].min /\ thres'[n].max = thres[n].max
                  /\ thres'[n].val = thres[n].val
  <2>1. DOMAIN thres' = 1 .. Len(thres) /\ Len(thres) \in Nat
    BY <1>2, Fields
  <2>2. Len(thres') = Len(thres)
    BY <1>2, CallType, <2>1, LenProperties, Fields, SMT DEF TypeOK
  <2>3. \A n \in 1 .. Len(thres) :
          thres'[n] = IF n = local[t].i THEN [thres[n] EXCEPT !.diff = d] ELSE thres[n]
    BY <1>2, Fields
  <2> QED
    BY <2>2, <2>3, Fields DEF MemThreshold
<1>3. CASE Skip(t) \/ Decide(t)
  <2>1. local[t].pc = "checking" /\ builder' = builder
    BY <1>3 DEF Skip, Decide
  <2>2. thres' = thres \/ \E d : thres' = [thres EXCEPT ![local[t].i].diff = d]
    BY <1>3 DEF Skip, Decide
  <2> QED
    BY <1>1, <1>2, <2>1, <2>2
<1>4. CASE Store(t)
  <2> DEFINE c == local[t]
             within == IF c.up THEN c.new <= thres[c.i].max ELSE c.new >= thres[c.i].min
  <2>1. c.pc = "computed" /\ builder' = builder
    BY <1>4 DEF Store
  <2>2. thres' = IF within THEN [thres EXCEPT ![c.i].val = c.new] ELSE thres
    BY <1>4 DEF Store
  <2>3. CASE ~within
    BY <1>1, <2>1, <2>2, <2>3
  <2>4. CASE within
    <3>1. thres' = [thres EXCEPT ![c.i].val = c.new]
      BY <2>2, <2>4
    <3>2. DOMAIN thres' = 1 .. Len(thres) /\ Len(thres) \in Nat
      BY <3>1, Fields
    <3>3. Len(thres') = Len(thres)
      BY <3>2, CallType, LenProperties, Fields, SMT DEF TypeOK
    <3>4. \A n \in 1 .. Len(thres) :
            thres'[n] = IF n = c.i THEN [thres[n] EXCEPT !.val = c.new] ELSE thres[n]
      BY <3>1, Fields
    <3> HIDE DEF c
    <3>5. \A n \in 1 .. Len(thres) :
            /\ thres'[n].min = thres[n].min /\ thres'[n].max = thres[n].max
            /\ thres'[n].val = IF n = c.i THEN c.new ELSE thres[n].val
      BY <3>4, Fields DEF MemThreshold
    <3> QED
      BY <2>1, <2>4, <3>3, <3>5 DEF c
  <2> QED
    BY <2>3, <2>4
<1> QED
  BY <1>1, <1>3, <1>4 DEF Call, Update, MallocBegin, Scan, LoadCount, StoreCount, Compute

(* Where a call is after each of its steps.                                *)
LEMMA PcAfter ==
  ASSUME TypeOK, NEW t \in Thread
  PROVE  /\ Scan(t) => local'[t].pc \in {"scanning", "chosen"}
         /\ LoadCount(t) => local'[t].pc = "loaded"
         /\ StoreCount(t) \/ Skip(t) \/ Store(t) => local'[t].pc \in {"idle", "checking"}
         /\ Decide(t) => local'[t].pc = "decided"
         /\ Compute(t) => local'[t].pc = "computed"
         /\ \A z : MallocBegin(t, z) => local'[t].pc = "scanning" /\ local'[t].i = 1
<1>t. local[t] \in Local /\ local \in [Thread -> Local]
  BY DEF TypeOK
<1>1. Scan(t) => local'[t].pc \in {"scanning", "chosen"}
  BY <1>t, SMT DEF Scan, Local
<1>2. LoadCount(t) => local'[t].pc = "loaded"
  BY <1>t DEF LoadCount, NoCall
<1>3. StoreCount(t) => local'[t].pc \in {"idle", "checking"}
  BY <1>t DEF StoreCount, NoCall
<1>4. Advance(t) => local'[t].pc \in {"idle", "checking"}
  <2>1. CASE local[t].i < Len(thres)
    BY <1>t, <2>1 DEF Advance, NoCall
  <2>2. CASE ~(local[t].i < Len(thres))
    BY <1>t, <2>2, SMT DEF Advance, NoCall
  <2> QED
    BY <2>1, <2>2
<1>5. Skip(t) \/ Store(t) => Advance(t)
  BY DEF Skip, Store
<1>6. Decide(t) => local'[t].pc = "decided"
  BY <1>t, SMTT(30) DEF Decide, Local
<1>7. Compute(t) => local'[t].pc = "computed"
  BY <1>t, SMT DEF Compute, Local
<1>8. \A z : MallocBegin(t, z) => local'[t].pc = "scanning" /\ local'[t].i = 1
  BY <1>t DEF MallocBegin, NoCall
<1> QED
  BY <1>1, <1>2, <1>3, <1>4, <1>5, <1>6, <1>7, <1>8

(* The ranges of any two thresholds, not only of neighbours, are apart.    *)
LEMMA Ascending ==
  ASSUME TypeOK, Ranges
  PROVE  \A m, n \in 1 .. Len(thres) : m < n => thres[m].max <= thres[n].min
<1>1. PICK N : N = Len(thres)
  OBVIOUS
<1>2. PICK lo : lo = [n \in 1 .. N |-> thres[n].min]
  OBVIOUS
<1>3. PICK hi : hi = [n \in 1 .. N |-> thres[n].max]
  OBVIOUS
<1>4. N \in Nat /\ lo \in [1 .. N -> Int] /\ hi \in [1 .. N -> Int]
  BY <1>1, <1>2, <1>3, Fields, SMTT(30)
<1>5. \A n \in 1 .. N : lo[n] <= hi[n]
  BY <1>1, <1>2, <1>3, Fields, SMTT(30) DEF Ranges
<1>6. \A n \in 2 .. N : hi[n - 1] <= lo[n]
  <2>1. \A n \in 2 .. N : n \in 1 .. N /\ n - 1 \in 1 .. N /\ n > 1
    BY <1>4, SMT
  <2> QED
    BY <1>1, <1>2, <1>3, <2>1 DEF Ranges
<1>7. \A m, n \in 1 .. N : m < n => hi[m] <= lo[n]
  BY <1>4, <1>5, <1>6, RangesAscend
<1> QED
  BY <1>1, <1>2, <1>3, <1>7

(* Storing keeps a value in its range: one bound is tested, the other is   *)
(* part of the invariant.                                                  *)
LEMMA RangesStep ==
  ASSUME TypeOK, Ranges, Moves, NEW t \in Thread, Call(t)
  PROVE  Ranges'
<1>1. ASSUME NEW n \in 1 .. Len(thres)
      PROVE  thres'[n].min <= thres'[n].val /\ thres'[n].val <= thres'[n].max
  <2>1. CASE thres'[n].val = thres[n].val
    BY <2>1, BoundsKept DEF Ranges
  <2>2. CASE thres'[n].val # thres[n].val
    <3>1. /\ local[t].pc = "computed" /\ n = local[t].i /\ thres'[n].val = local[t].new
          /\ IF local[t].up THEN local[t].new <= thres[n].max ELSE local[t].new >= thres[n].min
          /\ thres'[n].min = thres[n].min /\ thres'[n].max = thres[n].max
      BY <2>2, BoundsKept
    <3>2. IF local[t].up THEN thres[n].min <= local[t].new ELSE local[t].new <= thres[n].max
      BY <3>1 DEF Moves
    <3>3. local[t].new \in Int /\ thres[n].min \in Int /\ thres[n].max \in Int
      <4>1. local[t].new \in SizeT
        BY DEF TypeOK, Local
      <4> QED
        BY <4>1, Fields, Widths, SMT DEF SizeT
    <3> QED
      BY <3>1, <3>2, <3>3
  <2> QED
    BY <2>1, <2>2
<1>2. ASSUME NEW n \in 1 .. Len(thres), n > 1
      PROVE  thres'[n - 1].max <= thres'[n].min
  <2>1. n - 1 \in 1 .. Len(thres)
    BY <1>2, Fields, SMT
  <2> QED
    BY <1>2, <2>1, BoundsKept DEF Ranges
<1>3. Len(thres') = Len(thres)
  BY BoundsKept
<1> QED
  BY <1>1, <1>2, <1>3 DEF Ranges

(* The sum or the difference does not wrap, so it is on the right side of  *)
(* the value it was computed from.                                         *)
LEMMA MovesStep ==
  ASSUME TypeOK, Ranges, Moves, Gentle, NEW t \in Thread, Call(t)
  PROVE  Moves'
<1>t. /\ local[t] \in Local /\ local \in [Thread -> Local]
      /\ \A u \in Thread : local[u].pc \in {"decided", "computed"} => local[u].i \in 1 .. Len(thres)
  BY Fields, SMT DEF TypeOK, Local
<1>1. ASSUME NEW u \in Thread, local'[u] = local[u]
      PROVE  /\ local'[u].pc = "decided" =>
                  \E v \in thres'[local'[u].i].min .. thres'[local'[u].i].max :
                    local'[u].change = Change(v, builder'.degree)
             /\ local'[u].pc = "computed" =>
                  IF local'[u].up THEN thres'[local'[u].i].min <= local'[u].new
                                  ELSE local'[u].new <= thres'[local'[u].i].max
  BY <1>1, <1>t, BoundsKept, SMTT(30) DEF Moves
<1>2. \A u \in Thread \ {t} : local'[u] = local[u]
  BY <1>t DEF Call, Update, MallocBegin, Scan, LoadCount, StoreCount, Skip, Decide, Compute,
             Store, Advance
<1>3. SUFFICES
        /\ local'[t].pc = "decided" =>
             \E v \in thres'[local'[t].i].min .. thres'[local'[t].i].max :
               local'[t].change = Change(v, builder'.degree)
        /\ local'[t].pc = "computed" =>
             IF local'[t].up THEN thres'[local'[t].i].min <= local'[t].new
                             ELSE local'[t].new <= thres'[local'[t].i].max
  BY <1>1, <1>2 DEF Moves
<1>4. CASE Decide(t)
  <2>1. /\ local[t].pc = "checking" /\ local'[t].pc = "decided" /\ local'[t].i = local[t].i
        /\ local'[t].change = Change(thres[local[t].i].val, builder.degree)
    BY <1>4, <1>t, SMTT(30) DEF Decide, Local
  <2>2. local[t].i \in 1 .. Len(thres)
    <3>1. local[t].i \in Nat \ {0}
      BY <1>t DEF Local
    <3>2. local[t].i <= Len(thres)
      BY <2>1 DEF TypeOK
    <3> QED
      BY <3>1, <3>2, Fields, SMT
  <2>3. thres[local[t].i].val \in thres[local[t].i].min .. thres[local[t].i].max
    BY <2>2, Fields, SMT DEF Ranges
  <2>4. builder' = builder /\ thres'[local[t].i].min = thres[local[t].i].min
        /\ thres'[local[t].i].max = thres[local[t].i].max
    BY <2>2, BoundsKept
  <2> QED
    BY <2>1, <2>3, <2>4
<1>5. CASE Compute(t)
  <2> DEFINE c == local[t]
             v == thres[c.i].val
  <2>1. /\ c.pc = "decided" /\ thres' = thres /\ local'[t].pc = "computed"
        /\ local'[t].i = c.i /\ local'[t].up = c.up
        /\ local'[t].new = IF c.up THEN (v + c.change) % Word ELSE (v - c.change) % Word
    BY <1>5, <1>t DEF Compute, Local
  <2>2. c.i \in 1 .. Len(thres) /\ c.i \in DOMAIN thres
    BY <2>1, <1>t, Fields
  <2>3. /\ v \in Nat /\ thres[c.i].min <= v /\ v <= thres[c.i].max
        /\ thres[c.i].min \in Nat /\ thres[c.i].max \in Nat /\ v < Word
    BY <2>2, Fields DEF Ranges
  <2>4. c.change \in 0 .. thres[c.i].min /\ thres[c.i].max + c.change < Word
    BY <2>1, <2>2 DEF Moves, Gentle
  <2>5. PICK d, w, lo, hi : d = c.change /\ w = v /\ lo = thres[c.i].min /\ hi = thres[c.i].max
    OBVIOUS
  <2>6. /\ d \in Nat /\ w \in Nat /\ lo \in Nat /\ hi \in Nat
        /\ d <= lo /\ lo <= w /\ w <= hi /\ hi + d < Word
    BY <2>3, <2>4, <2>5, SMTT(30)
  <2>7. (w + d) % Word = w + d /\ (w - d) % Word = w - d
    BY <2>6, Widths, SMT
  <2> HIDE DEF c, v
  <2>8. local'[t].new = IF c.up THEN w + d ELSE w - d
    BY <2>1, <2>5, <2>7 DEF v
  <2>9. IF c.up THEN lo <= local'[t].new ELSE local'[t].new <= hi
    BY <2>6, <2>8, SMT
  <2> QED
    BY <2>1, <2>5, <2>9
<1>6. CASE ~Decide(t) /\ ~Compute(t)
  <2>1. local'[t].pc \notin {"decided", "computed"}
    BY <1>6, PcAfter DEF Call, Update
  <2> QED
    BY <2>1
<1> QED
  BY <1>4, <1>5, <1>6

(* A scan passes a threshold whose value, and so whose minimum, is not     *)
(* above the size; it ends at one whose value is, and then so are the      *)
(* maxima of that one and of all later ones.                               *)
LEMMA ScansStep ==
  ASSUME TypeOK, Ranges, Scans, NEW t \in Thread, Call(t)
  PROVE  Scans'
<1>t. local[t] \in Local /\ local \in [Thread -> Local]
  BY DEF TypeOK
<1>k. /\ Len(thres') = Len(thres)
      /\ \A n \in 1 .. Len(thres) : thres'[n].min = thres[n].min /\ thres'[n].max = thres[n].max
  BY BoundsKept
<1>1. \A u \in Thread \ {t} : local'[u] = local[u]
  BY <1>t DEF Call, Update, MallocBegin, Scan, LoadCount, StoreCount, Skip, Decide, Compute,
             Store, Advance
<1>2. SUFFICES ASSUME NEW n \in 1 .. Len(thres)
      PROVE  /\ local'[t].pc \in {"scanning", "chosen"} /\ n < local'[t].i =>
                  local'[t].size >= thres[n].min
             /\ local'[t].pc = "chosen" /\ n >= local'[t].i => local'[t].size < thres[n].max
  BY <1>k, <1>1 DEF Scans
<1>n. n \in Nat \ {0} /\ thres[n].min \in Nat /\ thres[n].val \in Nat /\ thres[n].max \in Nat
      /\ thres[n].min <= thres[n].val /\ thres[n].val <= thres[n].max
  BY Fields, SMT DEF Ranges
<1>3. CASE Scan(t)
  <2> DEFINE c == local[t]
             above == c.i > Len(thres) \/ c.size < thres[c.i].val
  <2>1. /\ c.pc = "scanning" /\ c.i \in Nat \ {0} /\ c.size \in Nat
        /\ n < c.i => c.size >= thres[n].min
    BY <1>3, <1>t DEF Scan, Scans, Local
  <2>2. CASE above
    <3>1. local'[t].pc = "chosen" /\ local'[t].i = c.i /\ local'[t].size = c.size
      BY <1>3, <1>t, <2>2 DEF Scan, Local
    <3>2. ASSUME n >= c.i PROVE c.size < thres[n].max
      <4>1. c.i \in 1 .. Len(thres)
        BY <2>1, <3>2, Fields, SMTT(30)
      <4>2. c.size < thres[c.i].val /\ thres[c.i].val <= thres[c.i].max
        BY <2>2, <4>1, Fields, SMT DEF Ranges
      <4>3. c.size < thres[c.i].max
        BY <2>1, <4>1, <4>2, Fields, SMTT(30)
      <4>4. CASE n = c.i
        BY <4>3, <4>4
      <4>5. CASE n # c.i
        <5>1. thres[c.i].max <= thres[n].min
          BY <2>1, <3>2, <4>1, <4>5, <1>n, Ascending, SMTT(30)
        <5>2. PICK x, y, z, w : x = c.size /\ y = thres[c.i].max /\ z = thres[n].min /\ w = thres[n].max
          OBVIOUS
        <5>3. x < y /\ y <= z
          BY <4>3, <5>1, <5>2
        <5>4. x \in Nat /\ z \in Nat /\ w \in Nat
          BY <1>n, <2>1, <5>2
        <5>5. y \in Nat
          BY <4>1, <5>2, Fields
        <5>6. z <= w
          BY <1>n, <5>2, SMT
        <5>7. x < w
          BY <5>3, <5>4, <5>5, <5>6, SMTT(30)
        <5> QED
          BY <5>2, <5>7
      <4> QED
        BY <4>4, <4>5
    <3> QED
      BY <2>1, <3>1, <3>2
  <2>3. CASE ~above
    <3>1. local'[t].pc = "scanning" /\ local'[t].i = c.i + 1 /\ local'[t].size = c.size
      BY <1>3, <1>t, <2>1, <2>3 DEF Scan, Local
    <3>2. ASSUME n < c.i + 1 PROVE c.size >= thres[n].min
      <4>1. CASE n < c.i
        BY <2>1, <4>1
      <4>2. CASE ~(n < c.i)
        <5>1. n = c.i
          BY <1>n, <2>1, <3>2, <4>2, SMT
        <5> QED
          BY <1>n, <2>1, <2>3, <5>1, Fields, SMTT(30)
      <4> QED
        BY <4>1, <4>2
    <3> QED
      BY <3>1, <3>2
  <2> QED
    BY <2>2, <2>3
<1>4. ASSUME NEW z \in Size, MallocBegin(t, z)
      PROVE  local'[t].pc = "scanning" /\ local'[t].i = 1
  BY <1>4, PcAfter
<1>5. CASE Update(t)
  <2>1. local'[t].pc \notin {"scanning", "chosen"}
    BY <1>5, PcAfter DEF Update
  <2> QED
    BY <2>1
<1>6. n < 1 => FALSE
  BY <1>n, SMT
<1> QED
  BY <1>3, <1>4, <1>5, <1>6 DEF Call

(* Construct establishes the ranges that were validated.                   *)
LEMMA IInvBuild ==
  ASSUME TypeOK, Build
  PROVE  IInv'
<1>1. CASE Construct
  <2>1. /\ ~Running /\ Valid(builder) /\ UNCHANGED << builder, local >>
        /\ thres' = [n \in DOMAIN builder.thres |->
                 [min |-> builder.thres[n].min, val |-> builder.thres[n].val,
                  max |-> builder.thres[n].max, diff |-> << 0, 1 >>]]
    BY <1>1 DEF Construct
  <2>2. \A t \in Thread : local'[t].pc = "idle"
    BY <2>1 DEF TypeOK
  <2>3. builder.thres \in Seq(Threshold)
    BY DEF TypeOK, Builder
  <2>4. DOMAIN builder.thres = 1 .. Len(builder.thres) /\ Len(builder.thres) \in Nat
    BY <2>3, LenProperties
  <2>5. thres' \in Seq(MemThreshold)
    BY BuildType DEF TypeOK, MemThreshold
  <2>6. DOMAIN thres' = 1 .. Len(thres') /\ Len(thres') \in Nat
    BY <2>5, LenProperties
  <2>7. Len(thres') = Len(builder.thres)
    BY <2>1, <2>4, <2>6, SMT
  <2>8. \A n \in 1 .. Len(thres') :
          /\ thres'[n].min = builder.thres[n].min /\ thres'[n].val = builder.thres[n].val
          /\ thres'[n].max = builder.thres[n].max
    BY <2>1, <2>4, <2>7
  <2>9. Ranges'
    <3>1. \A n \in 1 .. Len(thres') : n > 1 => n - 1 \in 1 .. Len(thres')
      BY <2>6, SMT
    <3> QED
      BY <2>1, <2>4, <2>7, <2>8, <3>1 DEF Ranges, Valid
  <2> QED
    BY <2>2, <2>9 DEF IInv, Moves, Scans
<1>2. CASE thres' = << >> /\ \A t \in Thread : local'[t].pc = "idle"
  <2>1. Len(thres') = 0
    BY <1>2
  <2>2. 1 .. Len(thres') = {}
    BY <2>1, SMT
  <2> QED
    BY <1>2, <2>2 DEF IInv, Ranges, Moves, Scans
<1>3. CASE ~Running /\ UNCHANGED << thres, local >>
  BY <1>2, <1>3 DEF TypeOK, Running
<1>4. CASE Delete
  BY <1>2, <1>4 DEF Delete
<1> QED
  BY <1>1, <1>3, <1>4 DEF Build, AddTier, CtlSetThreshold, CtlSet

(* The invariant of a gentle configuration holds at first, and every step  *)
(* keeps it: a call does not change the configuration.                     *)
GentleInv == Gentle => IInv

LEMMA IInvInit == Init => IInv
<1> SUFFICES ASSUME Init PROVE IInv
  OBVIOUS
<1>1. thres = << >> /\ \A t \in Thread : local[t].pc = "idle"
  BY DEF Init, NoCall
<1>2. 1 .. Len(thres) = {}
  BY <1>1, SMT
<1> QED
  BY <1>1, <1>2 DEF IInv, Ranges, Moves, Scans

LEMMA GentleKept ==
  ASSUME TypeOK, NEW t \in Thread, Call(t), Gentle'
  PROVE  Gentle
<1>1. DOMAIN thres = 1 .. Len(thres) /\ DOMAIN thres' = 1 .. Len(thres')
  BY CallType, LenProperties DEF TypeOK
<1>2. SUFFICES ASSUME NEW n \in DOMAIN thres, NEW v \in thres[n].min .. thres[n].max
               PROVE  /\ Change(v, builder.degree) \in 0 .. thres[n].min
                      /\ thres[n].max + Change(v, builder.degree) < Word
  BY DEF Gentle
<1>3. /\ n \in DOMAIN thres' /\ builder' = builder
      /\ thres'[n].min = thres[n].min /\ thres'[n].max = thres[n].max
  BY <1>1, BoundsKept
<1> QED
  BY <1>3 DEF Gentle

LEMMA GentleStep == TypeOK /\ GentleInv /\ [Next]_vars => GentleInv'
<1> SUFFICES ASSUME TypeOK, GentleInv, [Next]_vars, Gentle' PROVE IInv'
  BY DEF GentleInv
<1>1. CASE UNCHANGED vars
  <2>1. IInv
    BY <1>1 DEF vars, Gentle, GentleInv
  <2> QED
    BY <1>1, <2>1 DEF vars, IInv, Ranges, Moves, Scans
<1>2. CASE Build
  BY <1>2, IInvBuild
<1>3. ASSUME NEW t \in Thread, Call(t) PROVE IInv'
  <2>1. Gentle /\ IInv
    BY <1>3, GentleKept DEF GentleInv
  <2> QED
    BY <1>3, <2>1, RangesStep, MovesStep, ScansStep DEF IInv
<1> QED
  BY <1>1, <1>2, <1>3 DEF Next

LEMMA InvariantHolds == Spec => []GentleInv
<1>1. Init => GentleInv
  BY IInvInit DEF GentleInv
<1> QED
  BY <1>1, GentleStep, TypeCorrect, PTL DEF Spec

-----------------------------------------------------------------------------
(* However many threads move the thresholds at the same time without a     *)
(* lock, and although they read a value twice before they write it, every  *)
(* threshold of a gentle configuration stays in its range and they stay in *)
(* order.                                                                  *)
THEOREM ClampedHolds == Spec => []Clamped
<1>1. TypeOK /\ GentleInv => Clamped
  <2> SUFFICES ASSUME TypeOK, IInv, NEW n \in DOMAIN thres
               PROVE  /\ thres[n].min <= thres[n].val /\ thres[n].val <= thres[n].max
                      /\ n > 1 => thres[n - 1].val <= thres[n].val
    BY DEF Clamped, InBounds, GentleInv
  <2>1. n \in 1 .. Len(thres) /\ n \in Nat
    BY Fields, SMTT(30)
  <2>2. ASSUME n > 1 PROVE thres[n - 1].val <= thres[n].val
    <3>1. n - 1 \in 1 .. Len(thres)
      BY <2>1, <2>2, Fields, SMTT(30)
    <3>2. PICK a, b, c, d : a = thres[n - 1].val /\ b = thres[n - 1].max /\ c = thres[n].min /\ d = thres[n].val
      OBVIOUS
    <3>3. a \in Nat /\ b \in Nat /\ c \in Nat /\ d \in Nat
      BY <2>1, <3>1, <3>2, Fields
    <3>4. a <= b /\ b <= c /\ c <= d
      BY <2>1, <2>2, <3>1, <3>2 DEF IInv, Ranges
    <3> QED
      BY <3>2, <3>3, <3>4, SMT
  <2> QED
    BY <2>1, <2>2 DEF IInv, Ranges
<1> QED
  BY <1>1, TypeCorrect, InvariantHolds, PTL

(* In a gentle configuration the tier a call chooses agrees with the       *)
(* ranges of all thresholds, even though they move while it looks at them  *)
(* one after the other.                                                    *)
THEOREM TierAsDocumentedHolds == Spec => []TierAsDocumented
<1>1. TypeOK /\ GentleInv => TierAsDocumented
  <2> SUFFICES ASSUME TypeOK, IInv, NEW t \in Thread, local[t].pc = "chosen",
                      NEW n \in DOMAIN thres
               PROVE  IF n < local[t].i THEN local[t].size >= thres[n].min
                                        ELSE local[t].size < thres[n].max
    BY DEF TierAsDocumented, GentleInv
  <2>1. n \in 1 .. Len(thres) /\ n \in Nat
    BY Fields, SMT
  <2>2. local[t].i \in Nat
    BY DEF TypeOK, Local
  <2> QED
    BY <2>1, <2>2, SMT DEF IInv, Scans
<1> QED
  BY <1>1, TypeCorrect, InvariantHolds, PTL

(* The default configuration is gentle: 15 % of the maximum of a threshold *)
(* is less than its minimum.                                               *)
THEOREM DefaultsAreGentle ==
  ASSUME NEW n \in Nat \ {0}, STEP = 1024,
         NEW v \in DefaultThreshold(n).min .. DefaultThreshold(n).max
  PROVE  Change(v, << 15, 100 >>) \in 0 .. DefaultThreshold(n).min
<1>1. /\ DefaultThreshold(n).min = 512 + 1024 * (n - 1)
      /\ DefaultThreshold(n).max = 511 + 1024 * n
  BY SMT DEF DefaultThreshold
<1>2. PICK lo : lo = 512 + 1024 * (n - 1)
  OBVIOUS
<1>3. lo \in Nat /\ lo >= 512 /\ v \in Nat /\ v <= lo + 1023 /\ v >= lo
  BY <1>1, <1>2, SMTT(30)
<1>4. (-(v * 15)) \div 100 \in Int /\ (-(v * 15)) \div 100 <= 0 /\ (-(v * 15)) \div 100 >= -lo
  BY <1>3, SMT
<1>5. Change(v, << 15, 100 >>) = -((-(v * 15)) \div 100)
  BY DEF Change
<1> QED
  BY <1>1, <1>2, <1>3, <1>4, <1>5, SMTT(30)

-----------------------------------------------------------------------------
(* libmemtier: the inductive invariant.                                    *)

Starting == {"loaded", "tiers", "adding", "thresholds", "constructing"}

Built == {"thresholds", "constructing", "running"}

Tier == [kind : Kinds \cup {Null}, ratio : TierRatio]

\* What has been parsed is of use to the builder.
ParseInv ==
  /\ stage \in Starting \cup {"absent", "running", "failed", "aborted", "crashed", "unloaded"}
  /\ stage # "absent" => env \in Env
  /\ pos \in Nat \ {0} /\ par \in Nat \ {0}
  /\ tier.kind \in {"DRAM", "KMEM_DAX", Null}
  /\ "RATIO" \in tier.set => tier.ratio \in TierRatio
  /\ temp_cfg \in Seq(Tier)
  /\ stage = "thresholds" => env.thresholds # Null /\ pos <= Len(env.thresholds)

\* The builder has the tiers that were handed to it, and in the end all of them.
SizeInv ==
  /\ Len(builder.ratio) <= MaxTiers
  /\ stage \in {"loaded", "tiers"} => builder.ratio = << >>
  /\ stage = "adding" => pos <= Len(temp_cfg) + 1 /\ (Dynamic => Len(builder.ratio) = pos - 1)
  /\ stage \in Built /\ Dynamic => Len(builder.ratio) = Len(temp_cfg)

\* Before there is a memory the program has blocks of DRAM only; then, of kinds that live.
UseInv ==
  /\ held \in [Kinds -> Nat]
  /\ IF stage = "unloaded" THEN KindsMatch ELSE misused = {}
  /\ destructed = (stage = "unloaded")
  /\ stage \in Starting => \A k \in Kinds \ {"DRAM"} : held[k] = 0
  /\ stage = "running" => \A k \in Pmem : held[k] > 0 => pmem[k] = "live"

Live == {k \in Pmem : pmem[k] = "live"}

Registered == {fs_dax_reg[n] : n \in DOMAIN fs_dax_reg}

(* Every kind that lives is registered, but for one if an allocation       *)
(* failed; where NULL is registered a tier has no kind, and the builder    *)
(* takes no such tier.                                                     *)
RegInv ==
  /\ fs_dax_reg \in Seq(Pmem \cup {Null})
  /\ pmem \in [Pmem -> {"none", "live", "dead"}]
  /\ faults \in Nat
  /\ stage \in Starting \cup {"running"} =>
       /\ Live \subseteq Registered
       /\ \A n \in 1 .. Len(temp_cfg) : temp_cfg[n].kind \in Pmem => temp_cfg[n].kind \in Live
  /\ stage = "failed" =>
       Live \subseteq Registered \/ (faults > 0 /\ \E x \in Pmem : Live \subseteq Registered \cup {x})
  /\ Null \in Registered => \E n \in 1 .. Len(temp_cfg) : temp_cfg[n].kind = Null
  /\ stage = "adding" => \A m \in 1 .. pos - 1 : temp_cfg[m].kind # Null
  /\ stage \in Built => \A m \in 1 .. Len(temp_cfg) : temp_cfg[m].kind # Null

LibInv == TypeOK /\ ParseInv /\ SizeInv /\ UseInv /\ RegInv /\ KindsDestroyed

(* The sequences, and their elements.                                      *)
LEMMA Lists ==
  ASSUME LibInv
  PROVE  /\ Len(temp_cfg) \in Nat /\ DOMAIN temp_cfg = 1 .. Len(temp_cfg)
         /\ \A n \in 1 .. Len(temp_cfg) : /\ temp_cfg[n] \in Tier
                                       /\ temp_cfg[n].ratio \in TierRatio
                                       /\ temp_cfg[n].kind \in Kinds \cup {Null}
         /\ Len(fs_dax_reg) \in Nat /\ DOMAIN fs_dax_reg = 1 .. Len(fs_dax_reg)
         /\ builder \in Builder /\ Len(builder.ratio) \in Nat
<1>1. temp_cfg \in Seq(Tier) /\ fs_dax_reg \in Seq(Pmem \cup {Null})
  BY DEF LibInv, ParseInv, RegInv
<1>2. \A n \in 1 .. Len(temp_cfg) : temp_cfg[n] \in Tier
  BY <1>1, ElementOfSeq
<1>3. builder \in Builder /\ Len(builder.ratio) \in Nat
  BY LenProperties DEF LibInv, TypeOK, Builder
<1> QED
  BY <1>1, <1>2, <1>3, LenProperties DEF Tier

(* What is assumed of an environment, for the one that is there.           *)
LEMMA Given1 ==
  ASSUME ParseInv, stage # "absent"
  PROVE  /\ Len(env.tiers) \in Nat
         /\ \A n \in 1 .. Len(env.tiers) :
              /\ Len(env.tiers[n]) \in Nat
              /\ \A i \in 1 .. Len(env.tiers[n]) :
                   env.tiers[n][i][1] = "RATIO" /\ env.tiers[n][i][2] > 0
                     => env.tiers[n][i][2] \in TierRatio
         /\ env.thresholds # Null =>
              /\ Len(env.thresholds) \in Nat /\ Len(env.thresholds) > 0
              /\ \A n \in 1 .. Len(env.thresholds) :
                   /\ Len(env.thresholds[n]) \in Nat
                   /\ \A i \in 1 .. Len(env.thresholds[n]) :
                        env.thresholds[n][i][2] >= 0 => env.thresholds[n][i][2] \in CtlSize
<1>1. env \in Env
  BY DEF ParseInv
<1> QED
  BY <1>1, LibmemtierAssumption DEF IsSequence

LEMMA LibInitInv == LibInit => LibInv /\ Init
<1> SUFFICES ASSUME LibInit PROVE LibInv /\ Init
  OBVIOUS
<1>1. Init /\ TypeOK
  BY InitType DEF LibInit
<1>2. builder.ratio = << >> /\ Len(builder.ratio) = 0 /\ MaxTiers \in Nat
  BY <1>1, TierThresholdsAssumption DEF Init
<1>3. temp_cfg = << >> /\ Len(temp_cfg) = 0 /\ temp_cfg \in Seq(Tier)
  BY EmptySeq DEF LibInit
<1>4. fs_dax_reg = << >> /\ fs_dax_reg \in Seq(Pmem \cup {Null}) /\ Registered = {}
  BY EmptySeq, SMTT(30) DEF LibInit, Registered
<1>5. Live = {}
  BY DEF LibInit, Live
<1>6. stage \in {"absent", "loaded"} /\ (stage # "absent" => env \in Env)
  BY DEF LibInit
<1>7. ParseInv
  BY <1>3, <1>6, SMTT(30) DEF LibInit, ParseInv, NoTier, Starting
<1>8. SizeInv
  BY <1>2, <1>6, SMTT(30) DEF SizeInv, Built
<1>9. UseInv
  BY <1>6 DEF LibInit, UseInv
<1>10. RegInv
  BY <1>3, <1>4, <1>5, <1>6, SMTT(30) DEF LibInit, RegInv, Built
<1>11. KindsDestroyed
  BY <1>6 DEF KindsDestroyed
<1> QED
  BY <1>1, <1>7, <1>8, <1>9, <1>10, <1>11 DEF LibInv

-----------------------------------------------------------------------------
(* What the library does with builder and memory, a program may do.        *)
LEMMA LibSimulates ==
  ASSUME LibInv, [LibNext]_allvars
  PROVE  [Next]_vars
<1>1. CASE UNCHANGED tiering
  BY <1>1 DEF tiering, vars
<1>2. CASE Next
  BY <1>2
<1>3. CASE BuilderAdd
  <2>1. CASE AddTier(temp_cfg[pos].ratio) /\ pos <= Len(temp_cfg)
    <3>1. pos \in 1 .. Len(temp_cfg)
      BY <2>1, Lists, SMT DEF LibInv, ParseInv
    <3>2. temp_cfg[pos].ratio \in TierRatio
      BY <3>1, Lists
    <3> QED
      BY <2>1, <3>2 DEF Next, Build
  <2> QED
    BY <1>1, <1>3, <2>1 DEF BuilderAdd
<1>4. CASE ThresholdParam
  <2>1. CASE UNCHANGED tiering
    BY <1>1, <2>1
  <2>2. CASE ~UNCHANGED tiering
    <3>1. /\ stage = "thresholds" /\ par <= Len(env.thresholds[pos])
          /\ Accepted(env.thresholds[pos][par])
          /\ CtlSetThreshold(pos, Field[env.thresholds[pos][par][1]], env.thresholds[pos][par][2])
      BY <1>4, <2>2 DEF ThresholdParam
    <3>2. stage # "absent" /\ env.thresholds # Null /\ pos \in 1 .. Len(env.thresholds)
      BY <3>1, Given1, SMTT(30) DEF LibInv, ParseInv
    <3>3. par \in 1 .. Len(env.thresholds[pos])
      BY <3>1, <3>2, Given1, SMTT(30) DEF LibInv, ParseInv
    <3>4. env.thresholds[pos][par][2] \in CtlSize
      BY <3>1, <3>2, <3>3, Given1 DEF Accepted, LibInv
    <3>5. Field[env.thresholds[pos][par][1]] \in {"val", "min", "max"}
      BY <3>1, SMTT(30) DEF Accepted, Field
    <3>6. pos \in 1 .. MaxTiers
      BY <3>1, <3>2, Lists, TierThresholdsAssumption, SMTT(30) DEF CtlSetThreshold, LibInv, SizeInv, ParseInv
    <3> QED
      BY <3>1, <3>4, <3>5, <3>6 DEF Next, Build
  <2> QED
    BY <2>1, <2>2
<1>5. CASE BuilderConstruct
  BY <1>1, <1>5 DEF BuilderConstruct, Next, Build
<1>6. CASE Exit
  BY <1>1, <1>6 DEF Exit, Next, Build
<1>7. ASSUME NEW t \in Thread, DynamicCall(t) PROVE Next
  BY <1>7 DEF DynamicCall, Next, Call, Update
<1>8. CASE Load \/ TierParam \/ TierEnd \/ ParsePolicy \/ BeginThresholds \/ Abort
  BY <1>1, <1>8 DEF Load, TierParam, TierEnd, ParsePolicy, BeginThresholds, Abort
<1>9. CASE DefaultCall \/ StaticCall
  BY <1>1, <1>9 DEF DefaultCall, StaticCall
<1>10. CASE UNCHANGED allvars
  BY <1>1, <1>10 DEF allvars
<1> QED
  BY <1>2, <1>3, <1>4, <1>5, <1>6, <1>7, <1>8, <1>9, <1>10 DEF LibNext, Loading

(* The tier that was parsed is put at the end.                             *)
LEMMA KeepTierKeeps ==
  ASSUME LibInv, TypeOK', stage = "tiers", "RATIO" \in tier.set,
         NEW k \in Kinds \cup {Null}, KeepTier(k),
         UNCHANGED <<env, use, destructed, tiering>>, faults' = faults,
         fs_dax_reg' \in Seq(Pmem \cup {Null}),
         pmem' \in [Pmem -> {"none", "live", "dead"}],
         Live \subseteq Live', Live' \subseteq Registered',
         k \in Pmem => k \in Live',
         Null \in Registered' => k = Null \/ Null \in Registered
  PROVE  LibInv'
<1> DEFINE new == [kind |-> k, ratio |-> tier.ratio]
<1>1. temp_cfg \in Seq(Tier) /\ new \in Tier
  BY DEF LibInv, ParseInv, Tier
<1>2. temp_cfg' = Append(temp_cfg, new)
  BY DEF KeepTier
<1>3. /\ temp_cfg' \in Seq(Tier) /\ Len(temp_cfg') = Len(temp_cfg) + 1
      /\ \A n \in 1 .. Len(temp_cfg) : temp_cfg'[n] = temp_cfg[n]
      /\ temp_cfg'[Len(temp_cfg) + 1] = new
  BY <1>1, <1>2, AppendProperties, SMTT(30)
<1>4. new.kind = k /\ Len(temp_cfg) \in Nat
  BY Lists
<1> HIDE DEF new
<1>5. stage' = "tiers" /\ pos' = pos + 1 /\ par' = 1 /\ tier' = NoTier
  BY DEF KeepTier
<1>6. ParseInv'
  BY <1>3, <1>5, SMTT(30) DEF LibInv, ParseInv, NoTier, Starting
<1>7. SizeInv'
  BY <1>5 DEF LibInv, SizeInv, Built, tiering
<1>8. UseInv'
  BY <1>5 DEF LibInv, UseInv, use, Starting
<1>9. RegInv'
  <2>1. \A n \in 1 .. Len(temp_cfg') : temp_cfg'[n].kind \in Pmem => temp_cfg'[n].kind \in Live'
    <3> SUFFICES ASSUME NEW n \in 1 .. Len(temp_cfg'), temp_cfg'[n].kind \in Pmem
                 PROVE  temp_cfg'[n].kind \in Live'
      OBVIOUS
    <3>1. CASE n \in 1 .. Len(temp_cfg)
      BY <1>3, <3>1 DEF LibInv, RegInv, Starting
    <3>2. CASE n = Len(temp_cfg) + 1
      BY <1>3, <1>4, <3>2
    <3>3. n \in 1 .. Len(temp_cfg) \/ n = Len(temp_cfg) + 1
      BY <1>3, <1>4, SMT
    <3> QED
      BY <3>1, <3>2, <3>3
  <2>2. Null \in Registered' => \E n \in 1 .. Len(temp_cfg') : temp_cfg'[n].kind = Null
    <3>1. CASE k = Null
      <4>1. Len(temp_cfg) + 1 \in 1 .. Len(temp_cfg')
        BY <1>3, <1>4, SMT
      <4> QED
        BY <1>3, <1>4, <3>1, <4>1
    <3>2. CASE Null \in Registered
      <4>1. PICK n \in 1 .. Len(temp_cfg) : temp_cfg[n].kind = Null
        BY <3>2 DEF LibInv, RegInv
      <4>2. n \in 1 .. Len(temp_cfg')
        BY <1>3, <1>4, SMT
      <4> QED
        BY <1>3, <4>1, <4>2
    <3> QED
      BY <3>1, <3>2
  <2> QED
    BY <1>5, <2>1, <2>2 DEF LibInv, RegInv, Built
<1>10. KindsDestroyed'
  BY <1>5 DEF KindsDestroyed
<1> QED
  BY <1>6, <1>7, <1>8, <1>9, <1>10 DEF LibInv

(* The library gives up before it has changed anything else.               *)
LEMMA FailKeeps ==
  ASSUME LibInv, TypeOK', stage \in Starting, Fail, pos' \in Nat \ {0}, faults' \in Nat,
         UNCHANGED <<env, par, tier, temp_cfg, fs_dax_reg, pmem, use, destructed, tiering>>
  PROVE  LibInv'
<1>1. stage' = "failed"
  BY DEF Fail
<1>2. ParseInv'
  BY <1>1 DEF LibInv, ParseInv, Starting
<1>3. SizeInv'
  BY <1>1 DEF LibInv, SizeInv, Built, tiering
<1>4. UseInv'
  BY <1>1 DEF LibInv, UseInv, use, Starting
<1>5. Live' = Live /\ Registered' = Registered
  BY DEF Live, Registered
<1>6. RegInv'
  BY <1>1, <1>5 DEF LibInv, RegInv, Starting, Built
<1>7. KindsDestroyed'
  BY <1>1 DEF KindsDestroyed
<1> QED
  BY <1>2, <1>3, <1>4, <1>6, <1>7 DEF LibInv

(* A call of the program that uses blocks of the right kind.               *)
LEMMA UseKeeps ==
  ASSUME LibInv, TypeOK', stage \in Starting \cup {"running"},
         UNCHANGED <<stage, config, destructed>>, builder' = builder,
         held' \in [Kinds -> Nat], misused' = {},
         stage \in Starting => \A k \in Kinds \ {"DRAM"} : held'[k] = 0,
         stage = "running" => \A k \in Pmem : held'[k] > 0 => pmem[k] = "live"
  PROVE  LibInv'
<1>1. stage' = stage /\ UNCHANGED <<env, pos, par, tier, temp_cfg, fs_dax_reg, pmem, faults>>
  BY DEF config
<1>2. ParseInv'
  BY <1>1 DEF LibInv, ParseInv
<1>3. SizeInv'
  BY <1>1 DEF LibInv, SizeInv, Dynamic
<1>4. UseInv'
  BY <1>1 DEF LibInv, UseInv, Starting
<1>5. Live' = Live /\ Registered' = Registered
  BY <1>1 DEF Live, Registered
<1>6. RegInv'
  BY <1>1, <1>5 DEF LibInv, RegInv
<1>7. KindsDestroyed'
  BY <1>1 DEF KindsDestroyed, Starting
<1> QED
  BY <1>2, <1>3, <1>4, <1>6, <1>7 DEF LibInv

(* ctl_create_tier_memory_from_env begins, and a parameter of a tier.      *)
LEMMA LoadKeeps == ASSUME LibInv, TypeOK', Load PROVE LibInv'
<1>1. /\ stage = "loaded" /\ stage' \in {"failed", "tiers"}
      /\ UNCHANGED <<env, pos, par, tier, temp_cfg, fs_dax_reg, pmem, faults, use, destructed, tiering>>
  BY DEF Load, config
<1>2. CASE stage' = "failed"
  BY <1>1, <1>2, FailKeeps DEF Starting, Fail, LibInv, ParseInv, RegInv
<1>3. CASE stage' = "tiers"
  <2>1. ParseInv'
    BY <1>1, <1>3 DEF LibInv, ParseInv, Starting
  <2>2. SizeInv'
    BY <1>1, <1>3 DEF LibInv, SizeInv, Built, tiering
  <2>3. UseInv'
    BY <1>1, <1>3 DEF LibInv, UseInv, use, Starting
  <2>4. Live' = Live /\ Registered' = Registered
    BY <1>1 DEF Live, Registered
  <2>5. RegInv'
    BY <1>1, <1>3, <2>4 DEF LibInv, RegInv, Starting, Built
  <2>6. KindsDestroyed'
    BY <1>3 DEF KindsDestroyed
  <2> QED
    BY <2>1, <2>2, <2>3, <2>5, <2>6 DEF LibInv
<1> QED
  BY <1>1, <1>2, <1>3

LEMMA TierParamKeeps == ASSUME LibInv, TypeOK', TierParam PROVE LibInv'
<1> DEFINE q == env.tiers[pos][par]
<1>1. /\ stage = "tiers" /\ pos <= Len(env.tiers) /\ par <= Len(env.tiers[pos])
      /\ UNCHANGED <<env, pos, temp_cfg, fs_dax_reg, pmem, faults, use, destructed, tiering>>
  BY DEF TierParam
<1>2. CASE ~Understood(q)
  <2>1. Fail /\ UNCHANGED <<tier, par>>
    BY <1>2 DEF TierParam
  <2> QED
    BY <1>1, <2>1, FailKeeps DEF Starting, LibInv, ParseInv, RegInv
<1>3. CASE Understood(q)
  <2>1. tier' = Noted(q) /\ par' = par + 1 /\ stage' = stage
    BY <1>3 DEF TierParam
  <2>2. pos \in 1 .. Len(env.tiers) /\ par \in 1 .. Len(env.tiers[pos])
    BY <1>1, Given1, SMTT(30) DEF LibInv, ParseInv
  <2>3. q[1] = "RATIO" => q[2] \in TierRatio
    BY <1>1, <1>3, <2>2, Given1 DEF Understood, RatioAccepted, LibInv
  <2>4. q[1] = "KIND" /\ q[2] # "FS_DAX" => q[2] \in {"DRAM", "KMEM_DAX"}
    BY <1>3 DEF Understood
  <2> HIDE DEF q
  <2>5. /\ tier'.kind \in {"DRAM", "KMEM_DAX", Null}
        /\ "RATIO" \in tier'.set => tier'.ratio \in TierRatio
    BY <2>1, <2>3, <2>4 DEF Noted, LibInv, ParseInv
  <2>6. ParseInv'
    BY <1>1, <2>1, <2>5, SMT DEF LibInv, ParseInv
  <2>7. SizeInv'
    BY <1>1, <2>1 DEF LibInv, SizeInv, Built, tiering
  <2>8. UseInv'
    BY <1>1, <2>1 DEF LibInv, UseInv, use
  <2>9. Live' = Live /\ Registered' = Registered
    BY <1>1 DEF Live, Registered
  <2>10. RegInv'
    BY <1>1, <2>1, <2>9 DEF LibInv, RegInv, Built
  <2>11. KindsDestroyed'
    BY <1>1, <2>1 DEF KindsDestroyed
  <2> QED
    BY <2>6, <2>7, <2>8, <2>10, <2>11 DEF LibInv
<1> QED
  BY <1>2, <1>3

(* A kind is registered.                                                   *)
LEMMA RegisterAdds ==
  ASSUME LibInv, NEW k \in Pmem \cup {Null}, Register(k)
  PROVE  fs_dax_reg' \in Seq(Pmem \cup {Null}) /\ Registered' = Registered \cup {k}
<1>1. fs_dax_reg \in Seq(Pmem \cup {Null}) /\ fs_dax_reg' = Append(fs_dax_reg, k)
  BY DEF LibInv, RegInv, Register
<1>2. /\ fs_dax_reg' \in Seq(Pmem \cup {Null}) /\ Len(fs_dax_reg') = Len(fs_dax_reg) + 1
      /\ \A n \in 1 .. Len(fs_dax_reg) : fs_dax_reg'[n] = fs_dax_reg[n]
      /\ fs_dax_reg'[Len(fs_dax_reg) + 1] = k
  BY <1>1, AppendProperties, SMTT(30)
<1>3. /\ Len(fs_dax_reg) \in Nat /\ DOMAIN fs_dax_reg = 1 .. Len(fs_dax_reg)
      /\ DOMAIN fs_dax_reg' = 1 .. Len(fs_dax_reg')
  BY <1>1, <1>2, LenProperties
<1>4. \A n : n \in 1 .. Len(fs_dax_reg') <=> n \in 1 .. Len(fs_dax_reg) \/ n = Len(fs_dax_reg) + 1
  BY <1>2, <1>3, SMT
<1> QED
  BY <1>2, <1>3, <1>4 DEF Registered

(* The end of a query: the tier is refused, or kept with its kind.         *)
LEMMA TierEndKeeps == ASSUME LibInv, TypeOK', TierEnd PROVE LibInv'
<1>1. stage = "tiers" /\ UNCHANGED <<env, use, destructed, tiering>>
  BY DEF TierEnd
<1>2. ASSUME Fail, UNCHANGED <<pos, par, tier, temp_cfg, fs_dax_reg, pmem>>, faults' \in Nat
      PROVE  LibInv'
  BY <1>1, <1>2, FailKeeps DEF Starting, LibInv, ParseInv
<1>3. faults \in Nat /\ (Fault => faults' \in Nat /\ faults' > 0)
  BY SMTT(30) DEF LibInv, RegInv, Fault
<1>4. Live \subseteq Registered
  BY <1>1 DEF LibInv, RegInv, Starting
<1>5. ASSUME Sound, KeepTier(tier.kind), UNCHANGED <<fs_dax_reg, pmem, faults>>
      PROVE  LibInv'
  <2>1. "RATIO" \in tier.set
    BY <1>5 DEF Sound
  <2>2. tier.kind \in Kinds \cup {Null} /\ tier.kind \notin Pmem
    BY LibmemtierAssumption DEF LibInv, ParseInv, Kinds
  <2>3. Live' = Live /\ Registered' = Registered
    BY <1>5 DEF Live, Registered
  <2> QED
    BY <1>1, <1>4, <1>5, <2>1, <2>2, <2>3, KeepTierKeeps DEF LibInv, RegInv
<1>6. ASSUME Sound, Register(Null), KeepTier(Null), UNCHANGED <<pmem, faults>>
      PROVE  LibInv'
  <2>1. "RATIO" \in tier.set
    BY <1>6 DEF Sound
  <2>2. Live' = Live
    BY <1>6 DEF Live
  <2>3. fs_dax_reg' \in Seq(Pmem \cup {Null}) /\ Registered' = Registered \cup {Null}
    BY <1>6, RegisterAdds
  <2> QED
    BY <1>1, <1>4, <1>6, <2>1, <2>2, <2>3, KeepTierKeeps, LibmemtierAssumption DEF LibInv, RegInv
<1>7. ASSUME Sound, NEW k \in Pmem, pmem' = [pmem EXCEPT ![k] = "live"],
             Register(k), KeepTier(k), UNCHANGED faults
      PROVE  LibInv'
  <2>1. "RATIO" \in tier.set /\ k \in Kinds \cup {Null} /\ k # Null
    BY <1>7, LibmemtierAssumption DEF Sound, Kinds
  <2>2. pmem' \in [Pmem -> {"none", "live", "dead"}] /\ Live' = Live \cup {k}
    BY <1>7 DEF Live, LibInv, RegInv
  <2>3. fs_dax_reg' \in Seq(Pmem \cup {Null}) /\ Registered' = Registered \cup {k}
    BY <1>7, RegisterAdds
  <2> QED
    BY <1>1, <1>4, <1>7, <2>1, <2>2, <2>3, KeepTierKeeps
<1>8. ASSUME NEW k \in Pmem, pmem' = [pmem EXCEPT ![k] = "live"], Fault, Fail,
             UNCHANGED <<pos, par, tier, temp_cfg, fs_dax_reg>>
      PROVE  LibInv'
  <2>1. pmem' \in [Pmem -> {"none", "live", "dead"}] /\ Live' = Live \cup {k}
    BY <1>8 DEF Live, LibInv, RegInv
  <2>2. stage' = "failed" /\ Registered' = Registered
    BY <1>8 DEF Fail, Registered
  <2>3. ParseInv'
    BY <1>1, <1>8, <2>2 DEF LibInv, ParseInv
  <2>4. SizeInv'
    BY <1>1, <2>2 DEF LibInv, SizeInv, Built, tiering
  <2>5. UseInv'
    BY <1>1, <2>2 DEF LibInv, UseInv, use, Starting
  <2>6. RegInv'
    <3>1. Live' \subseteq Registered' \cup {k}
      BY <1>4, <2>1, <2>2
    <3> QED
      BY <1>3, <1>8, <2>1, <2>2, <3>1 DEF LibInv, RegInv, Starting, Built
  <2>7. KindsDestroyed'
    BY <2>2 DEF KindsDestroyed
  <2> QED
    BY <2>3, <2>4, <2>5, <2>6, <2>7 DEF LibInv
<1> QED
  BY <1>2, <1>3, <1>5, <1>6, <1>7, <1>8 DEF TierEnd, CreatePmem

(* The policy, and memtier_builder_new.                                    *)
LEMMA ParsePolicyKeeps == ASSUME LibInv, TypeOK', ParsePolicy PROVE LibInv'
<1>1. /\ stage = "tiers" /\ pos' = 1
      /\ UNCHANGED <<env, par, tier, temp_cfg, fs_dax_reg, pmem, use, destructed, tiering>>
  BY DEF ParsePolicy
<1>2. faults \in Nat /\ faults' \in Nat
  BY SMTT(30) DEF ParsePolicy, Fault, LibInv, RegInv
<1>3. CASE Fail
  BY <1>1, <1>2, <1>3, FailKeeps, SMT DEF Starting
<1>4. CASE stage' = "adding" /\ faults' = faults
  <2>1. ParseInv'
    BY <1>1, <1>4, SMTT(30) DEF LibInv, ParseInv, Starting
  <2>2. SizeInv'
    <3>1. builder' = builder /\ builder.ratio = << >> /\ Len(builder.ratio) = 0
      BY <1>1 DEF LibInv, SizeInv, tiering
    <3> QED
      BY <1>1, <1>4, <3>1, Lists, SMT DEF LibInv, SizeInv, Built
  <2>3. UseInv'
    BY <1>1, <1>4 DEF LibInv, UseInv, use, Starting
  <2>4. Live' = Live /\ Registered' = Registered
    BY <1>1 DEF Live, Registered
  <2>5. RegInv'
    BY <1>1, <1>4, <2>4, SMT DEF LibInv, RegInv, Starting, Built
  <2>6. KindsDestroyed'
    BY <1>4 DEF KindsDestroyed
  <2> QED
    BY <2>1, <2>2, <2>3, <2>5, <2>6 DEF LibInv
<1> QED
  BY <1>3, <1>4 DEF ParsePolicy

(* memtier_builder_add_tier makes the builder longer by one.               *)
LEMMA AddTierLen ==
  ASSUME TypeOK, NEW r \in TierRatio, AddTier(r)
  PROVE  Len(builder'.ratio) = Len(builder.ratio) + 1 /\ Len(builder'.ratio) <= MaxTiers
<1>1. builder \in Builder /\ builder.ratio \in Seq(Nat \ {0}) /\ r \in Nat \ {0}
  BY TierThresholdsAssumption DEF TypeOK, Builder
<1>2. builder'.ratio = Append(builder.ratio, r) /\ Len(builder.ratio) < MaxTiers
  BY <1>1 DEF AddTier, Builder
<1>3. Len(Append(builder.ratio, r)) = Len(builder.ratio) + 1 /\ Len(builder.ratio) \in Nat
  BY <1>1, AppendProperties, LenProperties, SMTT(30)
<1> QED
  BY <1>2, <1>3, TierThresholdsAssumption, SMTT(30)

LEMMA BuilderAddKeeps == ASSUME LibInv, TypeOK', BuilderAdd PROVE LibInv'
<1>1. /\ stage = "adding" /\ pos <= Len(temp_cfg)
      /\ UNCHANGED <<env, par, tier, temp_cfg, fs_dax_reg, pmem, use, destructed>>
  BY DEF BuilderAdd
<1>2. CASE Fail /\ UNCHANGED <<pos, tiering>>
  <2>1. faults' \in Nat /\ pos' \in Nat \ {0}
    BY <1>2, SMT DEF BuilderAdd, Fault, LibInv, RegInv, ParseInv
  <2> QED
    BY <1>1, <1>2, <2>1, FailKeeps DEF Starting
<1>3. CASE /\ ~Refused(pos) /\ pos' = pos + 1 /\ UNCHANGED <<stage, faults>>
           /\ IF Dynamic THEN AddTier(temp_cfg[pos].ratio) ELSE UNCHANGED tiering
  <2>1. pos \in 1 .. Len(temp_cfg) /\ temp_cfg[pos].ratio \in TierRatio
    BY <1>1, Lists, SMTT(30) DEF LibInv, ParseInv
  <2>a. /\ stage' = "adding" /\ pos' = pos + 1 /\ pos \in Nat \ {0} /\ Len(temp_cfg) \in Nat
        /\ temp_cfg' = temp_cfg
    BY <1>1, <1>3, Lists DEF LibInv, ParseInv
  <2>b. pos' \in Nat \ {0} /\ pos' <= Len(temp_cfg) + 1
    BY <2>1, <2>a, SMT
  <2>2. ParseInv'
    BY <1>1, <2>a, <2>b DEF LibInv, ParseInv, Starting
  <2>3. SizeInv'
    <3>1. CASE Dynamic
      <4>1. Len(builder'.ratio) = Len(builder.ratio) + 1 /\ Len(builder'.ratio) <= MaxTiers
        BY <1>3, <2>1, <3>1, AddTierLen DEF LibInv
      <4>2. Len(builder.ratio) = pos - 1 /\ Dynamic'
        BY <1>1, <3>1 DEF LibInv, SizeInv, Dynamic
      <4> QED
        BY <2>a, <2>b, <4>1, <4>2, SMT DEF SizeInv, Built
    <3>2. CASE ~Dynamic
      <4>1. builder' = builder /\ ~Dynamic'
        BY <1>1, <1>3, <3>2 DEF tiering, Dynamic
      <4> QED
        BY <2>a, <2>b, <4>1 DEF LibInv, SizeInv, Built
    <3> QED
      BY <3>1, <3>2
  <2>4. UseInv'
    BY <1>1, <1>3 DEF LibInv, UseInv, use
  <2>5. Live' = Live /\ Registered' = Registered
    BY <1>1 DEF Live, Registered
  <2>6. \A m \in 1 .. pos' - 1 : temp_cfg'[m].kind # Null
    <3>1. temp_cfg[pos].kind # Null
      BY <1>3 DEF Refused
    <3>2. \A m \in 1 .. pos - 1 : temp_cfg[m].kind # Null
      BY <1>1 DEF LibInv, RegInv
    <3>3. \A m \in 1 .. pos' - 1 : m \in 1 .. pos - 1 \/ m = pos
      BY <1>3, <2>1, SMTT(30)
    <3> QED
      BY <1>1, <3>1, <3>2, <3>3
  <2>7. RegInv'
    BY <1>1, <1>3, <2>5, <2>6 DEF LibInv, RegInv, Starting, Built
  <2>8. KindsDestroyed'
    BY <1>1, <1>3 DEF KindsDestroyed
  <2> QED
    BY <2>2, <2>3, <2>4, <2>7, <2>8 DEF LibInv
<1> QED
  BY <1>2, <1>3 DEF BuilderAdd

(* After the last tier.                                                    *)
LEMMA BeginThresholdsKeeps == ASSUME LibInv, TypeOK', BeginThresholds PROVE LibInv'
<1>1. /\ stage = "adding" /\ pos > Len(temp_cfg) /\ pos' = 1
      /\ UNCHANGED <<env, par, tier, temp_cfg, fs_dax_reg, pmem, faults, use, destructed, tiering>>
  BY DEF BeginThresholds
<1>2. \/ stage' = "failed"
      \/ stage' = "constructing"
      \/ stage' = "thresholds" /\ env.thresholds # Null
  BY DEF BeginThresholds
<1>3. CASE stage' = "failed"
  <2>1. pos' \in Nat \ {0} /\ faults' \in Nat
    BY <1>1, SMT DEF LibInv, RegInv
  <2> QED
    BY <1>1, <1>3, <2>1, FailKeeps DEF Starting, Fail
<1>4. CASE stage' # "failed"
  <2>1. pos \in Nat /\ pos = Len(temp_cfg) + 1
    BY <1>1, Lists, SMTT(30) DEF LibInv, SizeInv, ParseInv
  <2>2. ParseInv'
    <3>1. ParseInv /\ stage # "absent"
      BY <1>1 DEF LibInv
    <3>2. env.thresholds # Null => Len(env.thresholds) \in Nat /\ Len(env.thresholds) > 0
      BY <3>1, Given1
    <3>3. env.thresholds # Null => 1 <= Len(env.thresholds)
      BY <3>2, SMT
    <3> QED
      BY <1>1, <1>2, <1>4, <3>1, <3>3, SMT DEF ParseInv, Starting
  <2>3. SizeInv'
    <3>1. Len(temp_cfg) \in Nat /\ builder' = builder /\ temp_cfg' = temp_cfg /\ env' = env
      BY <1>1, Lists DEF tiering
    <3>2. Dynamic => Len(builder.ratio) = Len(temp_cfg)
      BY <1>1, <2>1, <3>1, SMT DEF LibInv, SizeInv
    <3>3. Dynamic' => Len(builder'.ratio) = Len(temp_cfg')
      BY <3>1, <3>2 DEF Dynamic
    <3>4. Len(builder'.ratio) <= MaxTiers
      BY <3>1 DEF LibInv, SizeInv
    <3> QED
      BY <1>2, <1>4, <3>3, <3>4 DEF SizeInv
  <2>4. UseInv'
    BY <1>1, <1>2, <1>4 DEF LibInv, UseInv, use, Starting
  <2>5. Live' = Live /\ Registered' = Registered
    BY <1>1 DEF Live, Registered
  <2>6. \A m \in 1 .. Len(temp_cfg') : temp_cfg'[m].kind # Null
    BY <1>1, <2>1, Lists, SMT DEF LibInv, RegInv
  <2>7. RegInv'
    BY <1>1, <1>2, <1>4, <2>5, <2>6 DEF LibInv, RegInv, Starting
  <2>8. KindsDestroyed'
    BY <1>2, <1>4 DEF KindsDestroyed
  <2> QED
    BY <2>2, <2>3, <2>4, <2>7, <2>8 DEF LibInv
<1> QED
  BY <1>3, <1>4

(* A parameter of a threshold: the tiers of the builder stay.              *)
LEMMA CtlSetRatio ==
  ASSUME TypeOK, NEW n, NEW field, NEW v, CtlSetThreshold(n, field, v)
  PROVE  builder'.ratio = builder.ratio
<1>1. builder \in Builder
  BY DEF TypeOK
<1>2. builder' = [builder EXCEPT !.thres = [builder.thres EXCEPT ![n] = [@ EXCEPT ![field] = v]]]
  BY DEF CtlSetThreshold
<1> QED
  BY <1>1, <1>2 DEF Builder

LEMMA ThresholdParamKeeps == ASSUME LibInv, TypeOK', ThresholdParam PROVE LibInv'
<1>1. /\ stage = "thresholds"
      /\ UNCHANGED <<env, tier, temp_cfg, fs_dax_reg, pmem, faults, use, destructed>>
  BY DEF ThresholdParam
<1>2. CASE Fail /\ UNCHANGED <<pos, par, ctl_opts, tiering>>
  BY <1>1, <1>2, FailKeeps DEF Starting, LibInv, ParseInv, RegInv
<1>3. CASE ~(Fail /\ UNCHANGED <<pos, par, ctl_opts, tiering>>)
  <2> DEFINE query == env.thresholds[pos]
             last == par = Len(query)
  <2>1. /\ CtlSetThreshold(pos, Field[query[par][1]], query[par][2])
        /\ pos' = IF last THEN pos + 1 ELSE pos
        /\ par' = IF last THEN 1 ELSE par + 1
        /\ stage' = IF last /\ pos = Len(env.thresholds) THEN "constructing" ELSE stage
    BY <1>3 DEF ThresholdParam
  <2>2. builder'.ratio = builder.ratio
    BY <2>1, CtlSetRatio DEF LibInv
  <2>3. pos \in Nat \ {0} /\ par \in Nat \ {0} /\ env.thresholds # Null
        /\ pos <= Len(env.thresholds) /\ Len(env.thresholds) \in Nat
    BY <1>1, Given1 DEF LibInv, ParseInv
  <2> HIDE DEF query, last
  <2>4. stage' \in {"thresholds", "constructing"}
    BY <1>1, <2>1
  <2>5. stage' = "thresholds" => pos' <= Len(env.thresholds)
    BY <2>1, <2>3, SMTT(30)
  <2>6. ParseInv'
    BY <1>1, <2>1, <2>3, <2>4, <2>5, SMTT(30) DEF LibInv, ParseInv, Starting
  <2>7. SizeInv'
    BY <1>1, <2>2, <2>4 DEF LibInv, SizeInv, Built, Dynamic
  <2>8. UseInv'
    BY <1>1, <2>4 DEF LibInv, UseInv, use, Starting
  <2>9. Live' = Live /\ Registered' = Registered
    BY <1>1 DEF Live, Registered
  <2>10. RegInv'
    BY <1>1, <2>4, <2>9 DEF LibInv, RegInv, Starting, Built
  <2>11. KindsDestroyed'
    BY <2>4 DEF KindsDestroyed
  <2> QED
    BY <2>6, <2>7, <2>8, <2>10, <2>11 DEF LibInv
<1> QED
  BY <1>2, <1>3

LEMMA BuilderConstructKeeps == ASSUME LibInv, TypeOK', BuilderConstruct PROVE LibInv'
<1>1. /\ stage = "constructing"
      /\ UNCHANGED <<env, pos, par, tier, temp_cfg, fs_dax_reg, pmem, use, destructed>>
  BY DEF BuilderConstruct
<1>2. CASE Fail /\ UNCHANGED tiering
  <2>1. faults' \in Nat
    BY <1>2, SMT DEF BuilderConstruct, Fault, LibInv, RegInv
  <2> QED
    BY <1>1, <1>2, <2>1, FailKeeps DEF Starting, LibInv, ParseInv
<1>3. CASE stage' = "running" /\ faults' = faults /\ builder' = builder
  <2>1. ParseInv'
    BY <1>1, <1>3 DEF LibInv, ParseInv, Starting
  <2>2. SizeInv'
    BY <1>1, <1>3 DEF LibInv, SizeInv, Built, Dynamic
  <2>3. UseInv'
    <3>1. \A k \in Pmem : k \in Kinds \ {"DRAM"}
      BY LibmemtierAssumption DEF Kinds
    <3>2. \A k \in Pmem : held[k] = 0
      BY <1>1, <3>1 DEF LibInv, UseInv, Starting
    <3> QED
      BY <1>1, <1>3, <3>2, SMT DEF LibInv, UseInv, use, Starting
  <2>4. Live' = Live /\ Registered' = Registered
    BY <1>1 DEF Live, Registered
  <2>5. RegInv'
    BY <1>1, <1>3, <2>4 DEF LibInv, RegInv, Starting, Built
  <2>6. KindsDestroyed'
    BY <1>3 DEF KindsDestroyed
  <2> QED
    BY <2>1, <2>2, <2>3, <2>5, <2>6 DEF LibInv
<1> QED
  BY <1>2, <1>3 DEF BuilderConstruct, Construct, tiering

(* ctl_destroy_fs_dax_reg destroys all that is registered, unless NULL is. *)
LEMMA Destroys ==
  ASSUME LibInv, Null \notin Registered, DestroyKinds
  PROVE  pmem' \in [Pmem -> {"none", "live", "dead"}] /\ Live' = Live \ Registered
<1>1. Destroyable = Registered
  <2>1. \A m \in DOMAIN fs_dax_reg : Null \notin {fs_dax_reg[l] : l \in 1 .. m}
    BY Lists, SMTT(30) DEF Registered
  <2> QED
    BY <2>1 DEF Destroyable, Registered
<1> QED
  BY <1>1 DEF DestroyKinds, Live, LibInv, RegInv

LEMMA AbortKeeps == ASSUME LibInv, TypeOK', Abort PROVE LibInv'
<1>1. /\ stage = "failed" /\ DestroyKinds
      /\ UNCHANGED <<env, pos, par, tier, temp_cfg, fs_dax_reg, faults, use, destructed, tiering>>
  BY DEF Abort
<1>2. stage' = IF Null \in Registered THEN "crashed" ELSE "aborted"
  BY DEF Abort, Registered
<1>3. pmem' \in [Pmem -> {"none", "live", "dead"}]
  BY <1>1 DEF DestroyKinds, LibInv, RegInv
<1>4. ParseInv'
  BY <1>1, <1>2 DEF LibInv, ParseInv, Starting
<1>5. SizeInv'
  BY <1>1, <1>2 DEF LibInv, SizeInv, Built, tiering
<1>6. UseInv'
  BY <1>1, <1>2 DEF LibInv, UseInv, use, Starting
<1>7. Registered' = Registered
  BY <1>1 DEF Registered
<1>8. RegInv'
  BY <1>1, <1>2, <1>3, <1>7 DEF LibInv, RegInv, Starting, Built
<1>9. KindsDestroyed'
  <2>1. CASE Null \in Registered
    BY <1>2, <2>1 DEF KindsDestroyed
  <2>2. CASE Live' = {}
    BY <2>2 DEF KindsDestroyed, Live
  <2>3. CASE Null \notin Registered /\ Live' # {}
    <3>1. Live' = Live \ Registered
      BY <1>1, <2>3, Destroys
    <3>2. faults > 0 /\ \E x \in Pmem : Live \subseteq Registered \cup {x}
      BY <1>1, <2>3, <3>1 DEF LibInv, RegInv
    <3>3. PICK x : Live' = {x}
      BY <2>3, <3>1, <3>2
    <3> QED
      BY <1>1, <3>2, <3>3, SMT DEF KindsDestroyed, Live
  <2> QED
    BY <2>1, <2>2, <2>3
<1> QED
  BY <1>4, <1>5, <1>6, <1>8, <1>9 DEF LibInv

(* The destructor, after which no kind is left.                            *)
LEMMA ExitKeeps == ASSUME LibInv, TypeOK', Exit PROVE LibInv'
<1>1. /\ stage = "running" /\ stage' = "unloaded" /\ destructed' = TRUE /\ DestroyKinds
      /\ UNCHANGED <<env, pos, par, tier, temp_cfg, fs_dax_reg, faults, held>>
  BY DEF Exit
<1>2. builder' = builder
  BY DEF Exit, Delete, tiering
<1>3. Null \notin Registered
  BY <1>1 DEF LibInv, RegInv, Built
<1>4. pmem' \in [Pmem -> {"none", "live", "dead"}] /\ Live' = {}
  BY <1>1, <1>3, Destroys DEF LibInv, RegInv, Starting
<1>5. ParseInv'
  BY <1>1 DEF LibInv, ParseInv
<1>6. SizeInv'
  BY <1>1, <1>2 DEF LibInv, SizeInv, Built
<1>7. UseInv'
  <2>1. misused = {}
    BY <1>1 DEF LibInv, UseInv
  <2>2. misused' \in {{}, {"report"}}
        /\ (misused' = {"report"} => \E n \in DOMAIN temp_cfg : temp_cfg[n].kind \in Pmem)
    BY <2>1 DEF Exit, Report
  <2>3. KindsMatch'
    BY <1>1, <2>2 DEF KindsMatch
  <2> QED
    BY <1>1, <2>3 DEF LibInv, UseInv, Starting
<1>8. Registered' = Registered
  BY <1>1 DEF Registered
<1>9. RegInv'
  BY <1>1, <1>4, <1>8 DEF LibInv, RegInv, Starting, Built
<1>10. KindsDestroyed'
  BY <1>4 DEF KindsDestroyed, Live
<1> QED
  BY <1>5, <1>6, <1>7, <1>9, <1>10 DEF LibInv

-----------------------------------------------------------------------------
(* The calls that are taken over.                                          *)

(* A call gives one block of a kind, or none.                              *)
LEMMA AllocHeld ==
  ASSUME held \in [Kinds -> Nat], NEW k \in Kinds, Alloc(k)
  PROVE  held' \in [Kinds -> Nat] /\ \A j \in Kinds : j # k => held'[j] = held[j]
<1>1. PICK n \in {0, 1} : held' = [held EXCEPT ![k] = @ + n]
  BY DEF Alloc
<1>2. held[k] + n \in Nat
  BY SMTT(30)
<1> QED
  BY <1>1, <1>2

(* Before there is a memory every block is one of memkind's own kind.      *)
LEMMA DefaultCallKeeps == ASSUME LibInv, TypeOK', DefaultCall PROVE LibInv'
<1>1. stage \in Starting /\ stage # "running"
  BY DEF DefaultCall, Bypassed, LibInv, ParseInv, UseInv, Starting
<1>2. UNCHANGED <<stage, config, destructed>> /\ builder' = builder
  BY DEF DefaultCall, tiering
<1>3. Usable("DRAM") /\ "DRAM" \in Kinds
  BY LibmemtierAssumption DEF Usable, Kinds
<1>4. held \in [Kinds -> Nat] /\ misused = {} /\ \A k \in Kinds \ {"DRAM"} : held[k] = 0
  BY <1>1 DEF LibInv, UseInv, Starting
<1>5. CASE Alloc("DRAM")
  <2>1. held' \in [Kinds -> Nat] /\ \A k \in Kinds \ {"DRAM"} : held'[k] = 0
    BY <1>3, <1>4, <1>5, AllocHeld
  <2>2. misused' = {}
    BY <1>3, <1>4, <1>5 DEF Alloc
  <2> QED
    BY <1>1, <1>2, <2>1, <2>2, UseKeeps
<1>6. ASSUME NEW b \in Kinds, FreeAs("DRAM", b) PROVE LibInv'
  <2>1. b = "DRAM"
    BY <1>4, <1>6, SMT DEF FreeAs
  <2>2. held' \in [Kinds -> Nat] /\ \A k \in Kinds \ {"DRAM"} : held'[k] = 0
    BY <1>3, <1>4, <1>6, <2>1, SMTT(30) DEF FreeAs
  <2>3. misused' = {}
    BY <1>3, <1>4, <1>6, <2>1 DEF FreeAs
  <2> QED
    BY <1>1, <1>2, <2>2, <2>3, UseKeeps
<1> QED
  BY <1>5, <1>6 DEF DefaultCall

(* An allocation from a tier, and a free, while the memory is there.       *)
LEMMA RunningUse ==
  ASSUME LibInv, TypeOK', stage = "running", UNCHANGED <<stage, config, destructed>>,
         builder' = builder,
         \/ UNCHANGED use
         \/ \E n \in 1 .. Len(temp_cfg) : Alloc(temp_cfg[n].kind)
         \/ \E b \in Kinds : FreeAs(FreedAs(b), b)
  PROVE  LibInv'
<1>1. /\ held \in [Kinds -> Nat] /\ misused = {}
      /\ \A k \in Pmem : held[k] > 0 => pmem[k] = "live"
      /\ Pmem \subseteq Kinds
  BY DEF LibInv, UseInv, Kinds
<1>2. CASE UNCHANGED use
  BY <1>1, <1>2, UseKeeps DEF use, Starting
<1>3. ASSUME NEW n \in 1 .. Len(temp_cfg), Alloc(temp_cfg[n].kind) PROVE LibInv'
  <2>1. PICK k : k = temp_cfg[n].kind
    OBVIOUS
  <2>2. k \in Kinds /\ (k \in Pmem => pmem[k] = "live")
    BY <2>1, Lists DEF LibInv, RegInv, Built, Live
  <2>3. held' \in [Kinds -> Nat] /\ \A j \in Kinds : j # k => held'[j] = held[j]
    BY <1>1, <1>3, <2>1, <2>2, AllocHeld
  <2>4. misused' = {}
    BY <1>1, <1>3, <2>1, <2>2 DEF Alloc, Usable
  <2>5. \A j \in Pmem : held'[j] > 0 => pmem[j] = "live"
    BY <1>1, <2>2, <2>3
  <2> QED
    BY <2>3, <2>4, <2>5, UseKeeps DEF Starting
<1>4. ASSUME NEW b \in Kinds, FreeAs(FreedAs(b), b) PROVE LibInv'
  <2>1. held[b] > 0 /\ held' = [held EXCEPT ![b] = @ - 1]
    BY <1>4 DEF FreeAs
  <2>2. held' \in [Kinds -> Nat] /\ \A j \in Kinds : held'[j] > 0 => held[j] > 0
    BY <1>1, <2>1, SMTT(30)
  <2>3. misused' = {}
    BY <1>1, <1>4, <2>1 DEF FreeAs, FreedAs, Usable
  <2>4. \A j \in Pmem : held'[j] > 0 => pmem[j] = "live"
    BY <1>1, <2>2
  <2> QED
    BY <2>2, <2>3, <2>4, UseKeeps DEF Starting
<1> QED
  BY <1>2, <1>3, <1>4

LEMMA StaticCallKeeps == ASSUME LibInv, TypeOK', StaticCall PROVE LibInv'
<1>1. /\ stage = "running" /\ UNCHANGED <<stage, config, destructed>> /\ builder' = builder
      /\ \/ \E n \in 1 .. Len(temp_cfg) : Alloc(temp_cfg[n].kind)
         \/ \E b \in Kinds : FreeAs(FreedAs(b), b)
  BY Lists DEF StaticCall, tiering
<1> QED
  BY <1>1, RunningUse

(* The tier that was chosen is one of the tiers of the memory.             *)
LEMMA DynamicCallKeeps ==
  ASSUME LibInv, TypeOK', NEW t \in Thread, DynamicCall(t)
  PROVE  LibInv'
<1>1. stage = "running" /\ Dynamic /\ UNCHANGED <<stage, config, destructed>>
  BY DEF DynamicCall
<1>2. builder' = builder
  BY DEF DynamicCall, Scan, StoreCount, Skip, Decide, Compute, Store, MallocBegin, LoadCount
<1>3. ASSUME local[t].pc = "chosen", LoadCount(t) PROVE local[t].i \in 1 .. Len(temp_cfg)
  <2>1. local[t].i \in Nat \ {0} /\ local[t].i <= Len(thres) + 1 /\ Running
    BY <1>3 DEF LibInv, TypeOK, Local, LoadCount
  <2>2. Len(builder.ratio) = Len(thres) + 1 /\ Len(builder.ratio) = Len(temp_cfg)
    BY <1>1, <2>1 DEF LibInv, TypeOK, SizeInv, Built
  <2> QED
    BY <2>1, <2>2, Lists, SMT
<1>4. \/ UNCHANGED use
      \/ \E n \in 1 .. Len(temp_cfg) : Alloc(temp_cfg[n].kind)
      \/ \E b \in Kinds : FreeAs(FreedAs(b), b)
  BY <1>3 DEF DynamicCall
<1> QED
  BY <1>1, <1>2, <1>4, RunningUse

(* Without the library nothing of it changes.                              *)
LEMMA AbsentKeeps ==
  ASSUME LibInv, TypeOK', stage = "absent", Next, UNCHANGED lib
  PROVE  LibInv'
<1>1. UNCHANGED <<stage, env, pos, par, tier, temp_cfg, fs_dax_reg, pmem, faults, held, misused,
                  destructed>>
  BY DEF lib, config, use
<1>2. Len(builder'.ratio) <= MaxTiers
  <2>1. CASE builder'.ratio = builder.ratio
    BY <2>1 DEF LibInv, SizeInv
  <2>2. ASSUME NEW r \in TierRatio, AddTier(r) PROVE Len(builder'.ratio) <= MaxTiers
    BY <2>2, AddTierLen DEF LibInv
  <2>3. ASSUME NEW n, NEW field, NEW v, CtlSetThreshold(n, field, v)
        PROVE  builder'.ratio = builder.ratio
    BY <2>3, CtlSetRatio DEF LibInv
  <2>4. ASSUME NEW field \in {"check_cnt", "degree", "trigger"}, NEW v, CtlSet(field, v)
        PROVE  builder'.ratio = builder.ratio
    BY <2>4, Lists DEF CtlSet, Builder
  <2>5. CASE Construct \/ Delete
    BY <2>1, <2>5 DEF Construct, Delete
  <2>6. ASSUME NEW t \in Thread, Call(t) PROVE builder' = builder
    BY <2>6 DEF Call, Update, Scan, StoreCount, Skip, Decide, Compute, Store, MallocBegin, LoadCount
  <2> QED
    BY <2>1, <2>2, <2>3, <2>4, <2>5, <2>6 DEF Next, Build
<1>3. ParseInv'
  BY <1>1 DEF LibInv, ParseInv
<1>4. SizeInv'
  BY <1>1, <1>2 DEF SizeInv, Built
<1>5. UseInv'
  BY <1>1 DEF LibInv, UseInv
<1>6. Live' = Live /\ Registered' = Registered
  BY <1>1 DEF Live, Registered
<1>7. RegInv'
  BY <1>1, <1>6 DEF LibInv, RegInv
<1>8. KindsDestroyed'
  BY <1>1 DEF KindsDestroyed
<1> QED
  BY <1>3, <1>4, <1>5, <1>7, <1>8 DEF LibInv

LEMMA StutterKeeps == ASSUME LibInv, UNCHANGED allvars PROVE LibInv'
<1>1. UNCHANGED <<stage, env, pos, par, tier, temp_cfg, fs_dax_reg, pmem, faults, held, misused,
                  destructed>> /\ UNCHANGED vars
  BY DEF allvars, lib, config, use, tiering, vars
<1>2. TypeOK'
  BY <1>1, NextType DEF LibInv
<1>3. ParseInv' /\ UseInv'
  BY <1>1 DEF LibInv, ParseInv, UseInv, KindsMatch
<1>4. SizeInv'
  BY <1>1 DEF LibInv, SizeInv, Dynamic, vars
<1>5. Live' = Live /\ Registered' = Registered
  BY <1>1 DEF Live, Registered
<1>6. RegInv'
  BY <1>1, <1>5 DEF LibInv, RegInv
<1>7. KindsDestroyed'
  BY <1>1, <1>5 DEF LibInv, KindsDestroyed, Live
<1> QED
  BY <1>2, <1>3, <1>4, <1>6, <1>7 DEF LibInv

LEMMA LibInvStep == LibInv /\ [LibNext]_allvars => LibInv' /\ [Next]_vars
<1> SUFFICES ASSUME LibInv, [LibNext]_allvars PROVE LibInv' /\ [Next]_vars
  OBVIOUS
<1>1. [Next]_vars
  BY LibSimulates
<1>2. TypeOK'
  BY <1>1, NextType DEF LibInv
<1>3. LibInv'
  BY <1>2, AbsentKeeps, LoadKeeps, TierParamKeeps, TierEndKeeps, ParsePolicyKeeps, BuilderAddKeeps,
     BeginThresholdsKeeps, ThresholdParamKeeps, BuilderConstructKeeps, AbortKeeps, DefaultCallKeeps,
     StaticCallKeeps, DynamicCallKeeps, ExitKeeps, StutterKeeps DEF LibNext, Loading
<1> QED
  BY <1>1, <1>3

-----------------------------------------------------------------------------
(* libmemtier uses builder and memory in ways a program may.               *)
LEMMA LibraryUses == LibSpec => Spec
<1>1. LibSpec => Init
  BY LibInitInv DEF LibSpec
<1> QED
  BY <1>1, LibInitInv, LibInvStep, PTL DEF LibSpec, Spec

(* So under libmemtier, too, the thresholds of a gentle configuration keep *)
(* their ranges and their order, and the tiers it chooses agree with them. *)
THEOREM LibraryClamped == LibSpec => []Clamped /\ []TierAsDocumented
BY LibraryUses, ClampedHolds, TierAsDocumentedHolds, PTL

(* No block is freed as one of another kind and no call uses a kind that   *)
(* ctl_destroy_fs_dax_reg destroyed, whichever calls of malloc and free    *)
(* come before, during or after the constructor and the destructor of      *)
(* libmemtier; only the report that the destructor prints of a memory with *)
(* a file-backed tier reads destroyed kinds.                               *)
THEOREM KindsMatchHolds == LibSpec => []KindsMatch
<1>1. LibInv => KindsMatch
  BY DEF LibInv, UseInv, KindsMatch
<1> QED
  BY <1>1, LibInitInv, LibInvStep, PTL DEF LibSpec

(* Every file-backed kind that the constructor of libmemtier created is    *)
(* destroyed when the program is refused or ends, but for one that could   *)
(* not be registered.                                                      *)
THEOREM KindsDestroyedHolds == LibSpec => []KindsDestroyed
<1>1. LibInv => KindsDestroyed
  BY DEF LibInv
<1> QED
  BY <1>1, LibInitInv, LibInvStep, PTL DEF LibSpec
=============================================================================
