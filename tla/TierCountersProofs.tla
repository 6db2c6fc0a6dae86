------------------------- MODULE TierCountersProofs -------------------------
(***************************************************************************)
(* Proofs about TierCounters, for any number of threads, tiers, buckets    *)
(* and sizes.                                                              *)
(***************************************************************************)
EXTENDS TierCounters, FunctionTheorems, TLAPS

\* Zenon is the default prover; a step it does not find names SMT.
USE ZenonT(30)

-----------------------------------------------------------------------------
(* Unsigned arithmetic.                                                    *)

LEMMA Words == Word \in Nat \ {0} /\ FLUSH_THRESHOLD \in Nat \ {0} /\ 2 * FLUSH_THRESHOLD < Word
  BY TierCountersAssumption, SMT

(* What a word holds differs from the number by a multiple of Word, and    *)
(* that determines it.                                                     *)
LEMMA UnsignedDivides ==
  ASSUME NEW x \in Int
  PROVE  Unsigned(x) \in 0 .. Word - 1 /\ \E q \in Int : x = q * Word + Unsigned(x)
  <1>1. x % Word \in 0 .. Word - 1
    BY Words, SMT
  <1>2. x = (x \div Word) * Word + (x % Word) /\ x \div Word \in Int
    BY Words, SMT
  <1> QED
    BY <1>1, <1>2 DEF Unsigned

LEMMA MultipleInRange ==
  ASSUME NEW W \in Nat \ {0}, NEW q \in Int, NEW r \in 0 .. W - 1, NEW s \in 0 .. W - 1,
         q * W = r - s
  PROVE  r = s
  <1>1. CASE q >= 1
    <2>1. q * W >= W
      BY <1>1, SMT
    <2> QED
      BY <2>1, SMT
  <1>2. CASE q <= -1
    <2>1. q * W <= -W
      BY <1>2, SMT
    <2> QED
      BY <2>1, SMT
  <1>3. CASE q = 0
    BY <1>3, SMT
  <1> QED
    BY <1>1, <1>2, <1>3, SMT

LEMMA UnsignedIs ==
  ASSUME NEW x \in Int, NEW q \in Int, NEW r \in 0 .. Word - 1, x = q * Word + r
  PROVE  Unsigned(x) = r
  <1>1. PICK p \in Int : x = p * Word + Unsigned(x)
    BY UnsignedDivides
  <1>2. Unsigned(x) \in 0 .. Word - 1
    BY UnsignedDivides
  <1>3. (p - q) * Word = r - Unsigned(x)
    BY <1>1, <1>2, Words, SMT
  <1> QED
    BY <1>2, <1>3, Words, MultipleInRange, SMT

(* Equal words stay equal when the same is added to both, and a sum can be *)
(* cut down to a word before or after the last addition.                   *)
LEMMA UnsignedSum ==
  ASSUME NEW x \in Int, NEW y \in Int, NEW d \in Int, Unsigned(x) = Unsigned(y)
  PROVE  Unsigned(x + d) = Unsigned(y + d)
  <1>1. PICK p \in Int : x = p * Word + Unsigned(x)
    BY UnsignedDivides
  <1>2. PICK q \in Int : y = q * Word + Unsigned(y)
    BY UnsignedDivides
  <1>3. PICK r \in Int : x + d = r * Word + Unsigned(x + d)
    BY UnsignedDivides, SMT
  <1>4. Unsigned(x + d) \in 0 .. Word - 1 /\ Unsigned(x) \in 0 .. Word - 1
    BY UnsignedDivides, SMT
  <1>5. y + d = (q - p + r) * Word + Unsigned(x + d)
    <2>1. y = x - p * Word + q * Word
      <3> DEFINE P == p * Word
                 Q == q * Word
      <3>1. P \in Int /\ Q \in Int
        BY Words, SMT
      <3>2. x = P + Unsigned(x) /\ y = Q + Unsigned(x) /\ Unsigned(x) \in Int
        BY <1>1, <1>2, <1>4, Words, SMT
      <3> HIDE DEF P, Q
      <3>3. y = x - P + Q
        BY <3>1, <3>2, SMT
      <3> QED
        BY <3>3 DEF P, Q
    <2>2. (q - p + r) * Word = q * Word - p * Word + r * Word
      BY Words, SMT
    <2> QED
      BY <1>3, <1>4, <2>1, <2>2, Words, SMT
  <1> QED
    BY <1>4, <1>5, UnsignedIs, SMT

LEMMA UnsignedTwice ==
  ASSUME NEW x \in Int
  PROVE  Unsigned(Unsigned(x)) = Unsigned(x)
  <1>1. Unsigned(x) \in 0 .. Word - 1
    BY UnsignedDivides
  <1>2. Unsigned(x) = 0 * Word + Unsigned(x)
    BY <1>1, Words, SMT
  <1> QED
    BY <1>1, <1>2, UnsignedIs, SMT

LEMMA UnsignedSmall ==
  ASSUME NEW x \in Int
  PROVE  /\ x >= 0 /\ x < Word => Unsigned(x) = x
         /\ x < 0 /\ -Word <= x => Unsigned(x) = Word + x
  <1>1. ASSUME x >= 0, x < Word
        PROVE  Unsigned(x) = x
    <2>1. x = 0 * Word + x /\ x \in 0 .. Word - 1
      BY <1>1, Words, SMT
    <2> QED
      BY <2>1, UnsignedIs, SMT
  <1>2. ASSUME x < 0, -Word <= x
        PROVE  Unsigned(x) = Word + x
    <2>1. x = (-1) * Word + (Word + x) /\ Word + x \in 0 .. Word - 1
      BY <1>2, Words, SMT
    <2> QED
      BY <2>1, UnsignedIs, SMT
  <1> QED
    BY <1>1, <1>2

-----------------------------------------------------------------------------
(* The types, and what a call knows at each of its steps.                  *)

CallRecord ==
  [pc : Pc, kind : Kind, size : Size \cup {0}, up : BOOLEAN, new : Size \cup {0},
   acc : Int, i : Nat, quiet : BOOLEAN]

Complete(c) ==
  /\ c.pc \in {"choosing", "chosen"} => c.up /\ c.size \in Size
  /\ c.pc = "choosing" => c.i \in 2 .. Len(Tiers)
  /\ c.pc = "gathering" => c.i \in Bucket
  /\ ~c.up /\ c.new > 0 => c.size \in Size
  /\ c.pc = "reallocating" => ~c.up /\ c.new > 0

CallType == call \in [Thread -> CallRecord] /\ \A t \in Thread : Complete(call[t])

DataType ==
  /\ t_alloc_size \in [Kind -> [Bucket -> Int]]
  /\ g_alloc_size \in [Kind -> 0 .. Word - 1]
  /\ blocks \in [Kind -> [Size -> Nat]]
  /\ failures \in 0 .. MaxFailures
  /\ missed \in [Kind -> Int]

Types == CallType /\ DataType

LEMMA TypesImply == Types => TypeOK
  BY DEF Types, CallType, DataType, CallRecord, TypeOK

LEMMA Sets ==
  /\ \A j \in 1 .. Len(Tiers) : Tiers[j] \in Kind
  /\ Len(Tiers) \in Nat \ {0} /\ Tiers[1] \in Kind
  /\ THREAD_BUCKETS \in Nat \ {0}
  /\ \A t \in Thread : BucketOf[t] \in Bucket
  /\ Size \subseteq Nat \ {0}
  /\ IsFiniteSet(Thread) /\ IsFiniteSet(Size) /\ IsFiniteSet(Bucket)
  <1>1. Tiers \in Seq(Kind) /\ Tiers # << >>
    BY TierCountersAssumption
  <1>2. Len(Tiers) \in Nat \ {0} /\ \A j \in 1 .. Len(Tiers) : Tiers[j] \in Kind
    <2> HIDE DEF Kind
    <2> QED
      BY <1>1, SMT
  <1>3. IsFiniteSet(Bucket)
    <2> DEFINE q == [i \in 1 .. THREAD_BUCKETS |-> i - 1]
    <2>1. THREAD_BUCKETS \in Nat
      BY TierCountersAssumption
    <2>2. q \in Seq(Bucket) /\ Len(q) = THREAD_BUCKETS
      BY <2>1, SMT DEF Bucket
    <2>3. \A b \in Bucket : b + 1 \in 1 .. THREAD_BUCKETS /\ q[b + 1] = b
      BY <2>1, SMT DEF Bucket
    <2> HIDE DEF q
    <2> QED
      BY <2>2, <2>3 DEF IsFiniteSet
  <1>4. 1 \in 1 .. Len(Tiers)
    BY <1>2, SMT
  <1> QED
    BY <1>2, <1>3, <1>4, TierCountersAssumption

LEMMA NoCallType == NoCall \in CallRecord /\ Complete(NoCall)
  BY Sets, SMT DEF NoCall, CallRecord, Complete, Pc

(* A step of thread t leaves it with c; the others at most lose their      *)
(* quiet.                                                                  *)
Moves(t, c) ==
  /\ call' \in [Thread -> CallRecord]
  /\ call'[t] = c
  /\ \A u \in Thread \ {t} : \/ call'[u] = call[u]
                             \/ call'[u] = [call[u] EXCEPT !.quiet = FALSE]

LEMMA ContinuesMoves ==
  ASSUME CallType, NEW t \in Thread, NEW c \in CallRecord, Continues(t, c)
  PROVE  Moves(t, c) /\ \A u \in Thread \ {t} : call'[u] = call[u]
  BY DEF Continues, CallType, Moves

LEMMA BeginsMoves ==
  ASSUME CallType, NEW t \in Thread, NEW c \in CallRecord, Begins(t, c)
  PROVE  Moves(t, c) /\ \A u \in Thread \ {t} : call'[u].quiet = FALSE
  <1>1. \A u \in Thread : call[u] \in CallRecord
    BY DEF CallType
  <1>2. \A u \in Thread : [call[u] EXCEPT !.quiet = FALSE] \in CallRecord
    BY <1>1 DEF CallRecord
  <1>3. \A u \in Thread : [call[u] EXCEPT !.quiet = FALSE].quiet = FALSE
    BY <1>1 DEF CallRecord
  <1> QED
    BY <1>2, <1>3 DEF Begins, Moves

LEMMA MovesType ==
  ASSUME CallType, NEW t \in Thread, NEW c \in CallRecord, Complete(c), Moves(t, c)
  PROVE  CallType'
  <1>1. ASSUME NEW u \in Thread \ {t}
        PROVE  Complete(call'[u])
    <2>1. call[u] \in CallRecord /\ Complete(call[u])
      BY DEF CallType
    <2>2. CASE call'[u] = call[u]
      BY <2>1, <2>2
    <2>3. CASE call'[u] = [call[u] EXCEPT !.quiet = FALSE]
      BY <2>1, <2>3 DEF CallRecord, Complete
    <2> QED
      BY <2>2, <2>3 DEF Moves
  <1> QED
    BY <1>1 DEF CallType, Moves

LEMMA Fields ==
  ASSUME NEW c \in CallRecord
  PROVE  /\ c.pc \in Pc /\ c.kind \in Kind /\ c.size \in Size \cup {0} /\ c.up \in BOOLEAN
         /\ c.new \in Size \cup {0} /\ c.acc \in Int /\ c.i \in Nat /\ c.quiet \in BOOLEAN
         /\ c.size \in Nat /\ c.new \in Nat
  <1>1. Size \cup {0} \subseteq Nat
    BY Sets, SMT
  <1> QED
    BY <1>1 DEF CallRecord

-----------------------------------------------------------------------------
(* A bucket beyond FLUSH_THRESHOLD has a thread about to empty it.         *)
Emptied(k, b) ==
  \E t \in Thread : BucketOf[t] = b /\ call[t].kind = k /\ call[t].pc = "taking"

BucketInv ==
  \A k \in Kind, b \in Bucket :
    t_alloc_size[k][b] \in -FLUSH_THRESHOLD .. FLUSH_THRESHOLD \/ Emptied(k, b)

OthersKept(t) ==
  \A u \in Thread \ {t} : call'[u].pc = call[u].pc /\ call'[u].kind = call[u].kind

LEMMA ContinuesOthers ==
  ASSUME CallType, NEW t \in Thread, NEW c, Continues(t, c)
  PROVE  call'[t] = c /\ OthersKept(t) /\ \A u \in Thread \ {t} : call'[u] = call[u]
  BY DEF Continues, CallType, OthersKept

LEMMA BeginsOthers ==
  ASSUME CallType, NEW t \in Thread, NEW c, Begins(t, c)
  PROVE  call'[t] = c /\ OthersKept(t) /\ \A u \in Thread \ {t} : ~call'[u].quiet
  <1>1. \A u \in Thread \ {t} : call'[u] = [call[u] EXCEPT !.quiet = FALSE]
    BY DEF Begins
  <1>2. \A u \in Thread : call[u] \in CallRecord
    BY DEF CallType
  <1>3. \A d \in CallRecord : /\ [d EXCEPT !.quiet = FALSE].pc = d.pc
                              /\ [d EXCEPT !.quiet = FALSE].kind = d.kind
                              /\ ~[d EXCEPT !.quiet = FALSE].quiet
    BY DEF CallRecord
  <1>4. call'[t] = c
    BY DEF Begins
  <1> QED
    BY <1>1, <1>2, <1>3, <1>4 DEF OthersKept

(* How a call begins.                                                      *)
Starts(t) ==
  \E c :
    /\ Begins(t, c)
    /\ c.quiet => Undisturbed(t)
    /\ c.pc \notin {"reporting", "reported"}
    /\ c.pc = "gathering" => c.i = 0

LEMMA BeginForm ==
  ASSUME NEW t \in Thread, Begin(t)
  PROVE  call[t].pc = "idle" /\ UNCHANGED t_alloc_size /\ Starts(t)
  <1>1. ASSUME NEW s \in Size, ChooseBegin(t, s)
        PROVE  Starts(t)
    <2> DEFINE c == [NoCall EXCEPT !.pc = IF Len(Tiers) = 1 THEN "chosen" ELSE "choosing",
                                   !.size = s, !.acc = g_alloc_size[Tiers[1]], !.i = 2,
                                   !.quiet = Undisturbed(t)]
    <2>1. c.quiet = Undisturbed(t) /\ c.pc \notin {"gathering", "reporting", "reported"}
      BY DEF NoCall
    <2>2. Begins(t, c)
      BY <1>1 DEF ChooseBegin
    <2> HIDE DEF c
    <2> QED
      BY <2>1, <2>2 DEF Starts
  <1>2. ASSUME NEW k \in Kind, NEW s \in Size, KindMallocBegin(t, k, s)
        PROVE  Starts(t)
    <2> DEFINE c == [NoCall EXCEPT !.pc = "chosen", !.kind = k, !.size = s]
    <2>1. ~c.quiet /\ c.pc = "chosen"
      BY DEF NoCall
    <2>2. Begins(t, c)
      BY <1>2 DEF KindMallocBegin
    <2> HIDE DEF c
    <2> QED
      BY <2>1, <2>2 DEF Starts
  <1>3. ASSUME NEW k \in Kind, NEW s \in Size, NEW new \in Size \cup {0}, FreeBegin(t, k, s, new)
        PROVE  Starts(t)
    <2> DEFINE c == [NoCall EXCEPT !.pc = "counting", !.kind = k, !.size = s,
                                   !.up = FALSE, !.new = new]
    <2>1. ~c.quiet /\ c.pc = "counting"
      BY DEF NoCall
    <2>2. Begins(t, c)
      BY <1>3 DEF FreeBegin
    <2> HIDE DEF c
    <2> QED
      BY <2>1, <2>2 DEF Starts
  <1>4. ASSUME NEW k \in Kind, FreeNull(t, k)
        PROVE  Starts(t)
    <2> DEFINE c == [NoCall EXCEPT !.pc = "counting", !.kind = k, !.up = FALSE]
    <2>1. ~c.quiet /\ c.pc = "counting"
      BY DEF NoCall
    <2>2. Begins(t, c)
      BY <1>4 DEF FreeNull
    <2> HIDE DEF c
    <2> QED
      BY <2>1, <2>2 DEF Starts
  <1>5. ASSUME NEW k \in Kind, ReportBegin(t, k)
        PROVE  Starts(t)
    <2> DEFINE c == [NoCall EXCEPT !.pc = "gathering", !.kind = k, !.quiet = Undisturbed(t)]
    <2>1. c.quiet = Undisturbed(t) /\ c.pc = "gathering" /\ c.i = 0
      BY DEF NoCall
    <2>2. Begins(t, c)
      BY <1>5 DEF ReportBegin
    <2> HIDE DEF c
    <2> QED
      BY <2>1, <2>2 DEF Starts
  <1>6. call[t].pc = "idle" /\ UNCHANGED t_alloc_size
    BY DEF Begin, ChooseBegin, KindMallocBegin, FreeBegin, FreeNull, ReportBegin
  <1> QED
    BY <1>1, <1>2, <1>3, <1>4, <1>5, <1>6 DEF Begin

LEMMA ZeroWithin == 0 \in -FLUSH_THRESHOLD .. FLUSH_THRESHOLD
  BY Words, SMT

LEMMA BucketNext == Types /\ BucketInv /\ [Next]_vars => BucketInv'
  <1>Untaken. ASSUME Types, BucketInv, NEW t \in Thread, OthersKept(t), call[t].pc # "taking",
                     UNCHANGED t_alloc_size
              PROVE  BucketInv'
    BY <1>Untaken, SMT DEF BucketInv, Emptied, OthersKept
  <1>OneBucket. ASSUME Types, BucketInv, NEW t \in Thread, OthersKept(t), NEW m \in Kind, NEW b \in Bucket,
                       NEW n, t_alloc_size' = [t_alloc_size EXCEPT ![m][b] = n],
                       n \in -FLUSH_THRESHOLD .. FLUSH_THRESHOLD \/ Emptied(m, b)',
                       call[t].pc = "taking" => call[t].kind = m /\ BucketOf[t] = b
                PROVE  BucketInv'
    <2> USE <1>OneBucket
    <2>1. t_alloc_size'[m][b] = n
      BY DEF Types, DataType
    <2>2. ASSUME NEW k \in Kind, NEW e \in Bucket, k # m \/ e # b
          PROVE  t_alloc_size'[k][e] = t_alloc_size[k][e]
      BY <2>2 DEF Types, DataType
    <2>3. ASSUME NEW k \in Kind, NEW e \in Bucket, k # m \/ e # b, Emptied(k, e)
          PROVE  Emptied(k, e)'
      BY <2>3 DEF Emptied, OthersKept
    <2> HIDE DEF Emptied
    <2> QED
      BY <2>1, <2>2, <2>3 DEF BucketInv
  (* The comparison that decides about a flush is of unsigned numbers.  A    *)
  (* bucket that was within the bounds is within them again unless it is     *)
  (* flushed.                                                                *)
  <1>FlushDecides. ASSUME NEW x \in -FLUSH_THRESHOLD .. FLUSH_THRESHOLD, NEW s \in Size \cup {0}
                   PROVE  /\ ~(Unsigned(x + s) > FLUSH_THRESHOLD)
                               => x + s \in -FLUSH_THRESHOLD .. FLUSH_THRESHOLD
                          /\ ~(Unsigned(x - s) < Unsigned(-FLUSH_THRESHOLD))
                               => x - s \in -FLUSH_THRESHOLD .. FLUSH_THRESHOLD
    <2> USE <1>FlushDecides
    <2> DEFINE F == FLUSH_THRESHOLD
               up == x + s
               down == x - s
               low == -F
    <2>1. F \in Nat \ {0} /\ Word \in Nat /\ 2 * F < Word /\ s \in Nat /\ F + s < Word
      BY TierCountersAssumption, SMT
    <2>2. x \in Int /\ -F <= x /\ x <= F
      BY <2>1, SMT
    <2>3. up \in Int /\ down \in Int /\ low \in Int
      BY <2>1, <2>2, SMT
    <2>4. Unsigned(low) = Word + low
      <3>1. low < 0 /\ -Word <= low
        BY <2>1, SMT
      <3> HIDE DEF low
      <3> QED
        BY <2>3, <3>1, UnsignedSmall
    <2>5. up >= 0 => Unsigned(up) = up
      <3>1. up < Word
        BY <2>1, <2>2, SMT
      <3> HIDE DEF up
      <3> QED
        BY <2>3, <3>1, UnsignedSmall
    <2>6. down < 0 => Unsigned(down) = Word + down
      <3>1. -Word <= down
        BY <2>1, <2>2, SMT
      <3> HIDE DEF down
      <3> QED
        BY <2>3, <3>1, UnsignedSmall
    <2>7. ~(Unsigned(up) > F) => up \in -F .. F
      <3>1. -F <= up
        BY <2>1, <2>2, SMT
      <3> HIDE DEF up
      <3> QED
        BY <2>1, <2>3, <2>5, <3>1, SMT
    <2>8. ~(Unsigned(down) < Unsigned(low)) => down \in -F .. F
      <3>1. down <= F
        BY <2>1, <2>2, SMT
      <3>2. Word + low = Word - F /\ Word + down \in Int
        BY <2>1, <2>3, SMT
      <3> HIDE DEF down, low
      <3> QED
        BY <2>1, <2>3, <2>4, <2>6, <3>1, <3>2, SMT
    <2> QED
      BY <2>7, <2>8
  <1>CountBucket. ASSUME Types, BucketInv, NEW t \in Thread, Count(t)
                  PROVE  BucketInv'
    <2> USE <1>CountBucket
    <2> DEFINE o == call[t]
               b == BucketOf[t]
    <2>1. o \in CallRecord /\ o.pc = "counting"
      BY DEF Types, CallType, Count
    <2>2. b \in Bucket /\ o.size \in Size \cup {0} /\ o.up \in BOOLEAN
      BY <2>1, Sets DEF CallRecord
    <2>7. PICK m \in Kind : m = o.kind
      BY <2>1, Fields
    <2> DEFINE x == t_alloc_size[m][b]
               n == IF o.up THEN x + o.size ELSE x - o.size
               flush == IF o.up THEN Unsigned(n) > FLUSH_THRESHOLD
                                ELSE Unsigned(n) < Unsigned(-FLUSH_THRESHOLD)
               c == IF flush THEN [o EXCEPT !.pc = "taking"] ELSE After(o)
    <2>3. t_alloc_size' = [t_alloc_size EXCEPT ![m][b] = n] /\ Continues(t, c)
      BY <2>7 DEF Count
    <2>4. call'[t] = c /\ OthersKept(t)
      <3> HIDE DEF c
      <3> QED
        BY <2>3, ContinuesOthers DEF Types
    <2>5. CASE flush
      <3>1. call'[t].pc = "taking" /\ call'[t].kind = m
        BY <2>1, <2>7, <2>4, <2>5 DEF CallRecord
      <3>2. Emptied(m, b)'
        BY <3>1 DEF Emptied
      <3> HIDE DEF n, b
      <3> QED
        BY <2>1, <2>2, <2>3, <2>4, <3>2, <1>OneBucket
    <2>6. CASE ~flush
      <3>1. CASE x \in -FLUSH_THRESHOLD .. FLUSH_THRESHOLD
        <4>1. n \in -FLUSH_THRESHOLD .. FLUSH_THRESHOLD
          <5> DEFINE s == o.size
                     bound == -FLUSH_THRESHOLD .. FLUSH_THRESHOLD
          <5>1. (~(Unsigned(x + s) > FLUSH_THRESHOLD) => x + s \in bound)
                /\ (~(Unsigned(x - s) < Unsigned(-FLUSH_THRESHOLD)) => x - s \in bound)
            <6>1. s \in Size \cup {0}
              BY <2>2
            <6> HIDE DEF s, x
            <6> QED
              BY <3>1, <6>1, <1>FlushDecides
          <5>2. CASE o.up
            BY <2>6, <5>1, <5>2
          <5>3. CASE ~o.up
            BY <2>6, <5>1, <5>3
          <5> QED
            BY <5>2, <5>3
        <4> HIDE DEF n, b
        <4> QED
          BY <2>1, <2>2, <2>3, <2>4, <4>1, <1>OneBucket
      <3>2. CASE Emptied(m, b)
        <4>1. Emptied(m, b)'
          BY <2>1, <2>4, <3>2 DEF Emptied, OthersKept
        <4> HIDE DEF n, b
        <4> QED
          BY <2>1, <2>2, <2>3, <2>4, <4>1, <1>OneBucket
      <3> QED
        BY <2>2, <3>1, <3>2 DEF BucketInv
    <2> QED
      BY <2>5, <2>6
  <1>StepBucket. ASSUME Types, BucketInv, NEW t \in Thread, Step(t) \/ MemalignError(t) \/ KindRealloc(t)
                 PROVE  BucketInv'
    <2> USE <1>StepBucket
    <2>1. ASSUME NEW c, Continues(t, c), call[t].pc # "taking", UNCHANGED t_alloc_size
          PROVE  BucketInv'
      BY <2>1, ContinuesOthers, <1>Untaken DEF Types
    <2>2. CASE Count(t)
      BY <2>2, <1>CountBucket
    <2>3. CASE Take(t)
      <3> DEFINE m == call[t].kind
                 b == BucketOf[t]
      <3>1. m \in Kind /\ b \in Bucket
        BY Fields, Sets DEF Types, CallType
      <3>2. t_alloc_size' = [t_alloc_size EXCEPT ![m][b] = 0]
        BY <2>3 DEF Take
      <3>3. OthersKept(t)
        BY <2>3, ContinuesOthers DEF Take, Types
      <3>4. call[t].kind = m /\ BucketOf[t] = b
        OBVIOUS
      <3> HIDE DEF m, b
      <3> QED
        BY <3>1, <3>2, <3>3, <3>4, ZeroWithin, <1>OneBucket
    <2>4. CASE Gather(t)
      <3> DEFINE m == call[t].kind
                 b == call[t].i
      <3>1. call[t].pc = "gathering" /\ t_alloc_size' = [t_alloc_size EXCEPT ![m][b] = 0]
        BY <2>4 DEF Gather
      <3>2. m \in Kind /\ b \in Bucket
        BY <3>1, Fields DEF Types, CallType, Complete
      <3>3. OthersKept(t)
        BY <2>4, ContinuesOthers DEF Gather, Types
      <3> HIDE DEF m, b
      <3> QED
        BY <3>1, <3>2, <3>3, ZeroWithin, <1>OneBucket
    <2>5. CASE ChooseNext(t)
      BY <2>1, <2>5 DEF ChooseNext
    <2>6. CASE KindMalloc(t)
      BY <2>1, <2>6 DEF KindMalloc
    <2>7. CASE Add(t)
      BY <2>1, <2>7 DEF Add
    <2>8. CASE Report(t)
      BY <2>1, <2>8 DEF Report
    <2>9. CASE ReportEnd(t)
      BY <2>1, <2>9 DEF ReportEnd
    <2>10. CASE MemalignError(t)
      BY <2>1, <2>10 DEF MemalignError
    <2>11. CASE KindRealloc(t)
      BY <2>1, <2>11 DEF KindRealloc
    <2> QED
      BY <2>2, <2>3, <2>4, <2>5, <2>6, <2>7, <2>8, <2>9, <2>10, <2>11 DEF Step
  <1> SUFFICES ASSUME Types, BucketInv, [Next]_vars
               PROVE  BucketInv'
    OBVIOUS
  <1>1. ASSUME NEW t \in Thread, Begin(t)
        PROVE  BucketInv'
    <2>1. call[t].pc = "idle" /\ UNCHANGED t_alloc_size /\ Starts(t)
      BY <1>1, BeginForm
    <2>2. OthersKept(t)
      BY <2>1, BeginsOthers DEF Starts, Types
    <2> QED
      BY <2>1, <2>2, <1>Untaken
  <1>2. ASSUME NEW k \in Kind, ResetSize(k)
        PROVE  BucketInv'
    <2>1. /\ \A b \in Bucket : t_alloc_size'[k][b] = 0
          /\ \A m \in Kind \ {k} : t_alloc_size'[m] = t_alloc_size[m]
          /\ call' = call
      BY <1>2 DEF ResetSize, Types, DataType
    <2> QED
      BY <2>1, ZeroWithin, SMT DEF BucketInv, Emptied
  <1>3. CASE UNCHANGED vars
    BY <1>3 DEF vars, BucketInv, Emptied
  <1> QED
    BY <1>1, <1>2, <1>3, <1>StepBucket DEF Next

-----------------------------------------------------------------------------
(* Induction, in the form of the existence of least elements.              *)

(* A set of natural numbers that is not empty has a least element.  Let s  *)
(* be an element.  If there were no least one, the numbers 1 .. s + 1      *)
(* would fit injectively into 1 .. s: those up to all of S stay, the       *)
(* others move down by one.                                                *)
LEMMA LeastNat ==
  ASSUME NEW S, S \subseteq Nat, S # {}
  PROVE  \E x \in S : \A y \in S : x <= y
<1> SUFFICES ASSUME \A x \in S : \E y \in S : y < x PROVE FALSE
  BY SMT
<1>1. PICK s \in S : TRUE
  OBVIOUS
<1>2. s \in Nat /\ s + 1 \in Nat /\ \A y \in S : y \in Nat
  BY SMT
<1> DEFINE T == {k \in 1 .. s + 1 : \A y \in S : k <= y}
           h == [k \in 1 .. s + 1 |-> IF k \in T THEN k ELSE k - 1]
<1>3. s + 1 \notin T /\ \A k \in T : k <= s
  BY <1>1, <1>2, SMT
<1>4. \A k \in 1 .. s + 1 : k \notin T => k > 1
  <2> SUFFICES ASSUME NEW k \in 1 .. s + 1, k \notin T, k = 1 PROVE FALSE
    BY <1>2, SMT
  <2>1. PICK y \in S : ~(1 <= y)
    OBVIOUS
  <2>2. y = 0
    BY <1>2, <2>1, SMT
  <2>3. PICK z \in S : z < y
    OBVIOUS
  <2> QED
    BY <1>2, <2>2, <2>3, SMT
<1>5. \A k \in T : k + 1 \in 1 .. s + 1 => k + 1 \in T
  <2> SUFFICES ASSUME NEW k \in T, k + 1 \in 1 .. s + 1, NEW y \in S PROVE k + 1 <= y
    OBVIOUS
  <2>1. k \in Nat /\ k <= y /\ \A z \in S : k <= z
    BY SMT
  <2>2. y # k
    BY <1>2, <2>1, SMT
  <2> QED
    BY <1>2, <2>1, <2>2, SMT
<1>6. T \subseteq 1 .. s + 1
  OBVIOUS
<1> HIDE DEF T
<1>7. h \in [1 .. s + 1 -> 1 .. s]
  BY <1>2, <1>3, <1>4, <1>6, SMT
<1>8. IsInjective(h)
  <2> SUFFICES ASSUME NEW a \in 1 .. s + 1, NEW b \in 1 .. s + 1, h[a] = h[b] PROVE a = b
    BY DEF IsInjective
  <2>1. a \in Int /\ b \in Int
    BY <1>2, SMT
  <2>2. CASE a \in T /\ b \notin T
    BY <1>5, <2>1, <2>2, SMT
  <2>3. CASE a \notin T /\ b \in T
    BY <1>5, <2>1, <2>3, SMT
  <2> QED
    BY <2>1, <2>2, <2>3, SMT
<1>9. ExistsInjection(1 .. s + 1, 1 .. s)
  BY <1>7, <1>8 DEF ExistsInjection, Injection
<1> QED
  BY <1>2, <1>9, Fun_NatInjLeq, SMT

(* The size of a finite set, as far as needed: n places hold it.           *)
Fits(s, n) == \E q : \A x \in s : \E i \in 1 .. n : q[i] = x

LEMMA FiniteFits ==
  ASSUME NEW S, IsFiniteSet(S)
  PROVE  \E n \in Nat : \A s \in SUBSET S : Fits(s, n)
  <1>1. PICK q \in Seq(S) : \A x \in S : \E i \in 1 .. Len(q) : q[i] = x
    BY DEF IsFiniteSet
  <1>2. Len(q) \in Nat
    BY <1>1, SMT
  <1> QED
    BY <1>1, <1>2 DEF Fits

LEMMA NothingFits ==
  ASSUME NEW s
  PROVE  Fits(s, 0) <=> s = {}
  BY SMT DEF Fits

LEMMA MoreFits ==
  ASSUME NEW s, NEW n \in Nat, Fits(s, n)
  PROVE  Fits(s, n + 1)
  <1>1. \A i \in 1 .. n : i \in 1 .. n + 1
    BY SMT
  <1> QED
    BY <1>1 DEF Fits

(* The last place takes over from the one that is given up.                *)
LEMMA Smaller ==
  ASSUME NEW s, NEW n \in Nat, Fits(s, n + 1), NEW x \in s
  PROVE  Fits(s \ {x}, n)
  <1>1. PICK q : \A y \in s : \E i \in 1 .. n + 1 : q[i] = y
    BY DEF Fits
  <1>2. PICK j \in 1 .. n + 1 : q[j] = x
    BY <1>1
  <1> DEFINE p == [i \in 1 .. n |-> IF i = j THEN q[n + 1] ELSE q[i]]
  <1>3. ASSUME NEW y \in s \ {x}
        PROVE  \E i \in 1 .. n : p[i] = y
    <2>1. PICK i \in 1 .. n + 1 : q[i] = y
      BY <1>1
    <2>2. i # j
      BY <1>2, <1>3, <2>1
    <2>3. CASE i = n + 1
      <3>1. j \in 1 .. n
        BY <2>2, <2>3, SMT
      <3> QED
        BY <2>1, <2>3, <3>1
    <2>4. CASE i # n + 1
      <3>1. i \in 1 .. n
        BY <2>4, SMT
      <3> QED
        BY <2>1, <2>2, <3>1
    <2> QED
      BY <2>3, <2>4
  <1> HIDE DEF p
  <1> QED
    BY <1>3 DEF Fits

(* A collection of subsets of a finite set that is not empty has one from  *)
(* which no element can be taken without leaving the collection.           *)
LEMMA SmallestSet ==
  ASSUME NEW S, IsFiniteSet(S), NEW C, C \subseteq SUBSET S, C # {}
  PROVE  \E s \in C : \A x \in s : s \ {x} \notin C
  <1> DEFINE N == {n \in Nat : \E s \in C : Fits(s, n)}
  <1>1. N \subseteq Nat /\ N # {}
    BY FiniteFits
  <1>2. PICK n \in N : \A m \in N : n <= m
    <2> HIDE DEF N
    <2> QED
      BY <1>1, LeastNat
  <1>3. PICK s \in C : Fits(s, n)
    OBVIOUS
  <1>4. ASSUME NEW x \in s, s \ {x} \in C
        PROVE  FALSE
    <2>1. n \in Nat /\ n # 0
      BY <1>3, NothingFits
    <2>2. PICK m \in Nat : n = m + 1
      <3>1. n - 1 \in Nat /\ n = (n - 1) + 1
        BY <2>1, SMT
      <3> QED
        BY <3>1
    <2>3. Fits(s \ {x}, m)
      BY <1>3, <2>2, Smaller
    <2>4. m \in N
      BY <1>4, <2>3
    <2> QED
      BY <1>2, <2>2, <2>4, SMT
  <1> QED
    BY <1>4

-----------------------------------------------------------------------------
(* Sums.  SumFunction takes the elements of a set one by one, in the order *)
(* of a choice: the sums of the subsets of the set are a function that     *)
(* satisfies the equation below.                                           *)
Pick(s) == CHOOSE x \in s : TRUE

Sums(f, S, g) ==
  /\ g \in [SUBSET S -> Int]
  /\ \A s \in SUBSET S : g[s] = IF s = {} THEN 0 ELSE f[Pick(s)] + g[s \ {Pick(s)}]

LEMMA PickElement ==
  ASSUME NEW s, s # {}
  PROVE  Pick(s) \in s
  BY DEF Pick

(* The sums exist: if they did not for the subsets up to some size, take   *)
(* the least such size.                                                    *)
LEMMA SumsExist ==
  ASSUME NEW S, IsFiniteSet(S), NEW f \in [S -> Int]
  PROVE  \E g : Sums(f, S, g)
  <1> DEFINE Small(n) == {s \in SUBSET S : Fits(s, n)}
             Partial(n, g) ==
               /\ g \in [Small(n) -> Int]
               /\ \A s \in Small(n) :
                    g[s] = IF s = {} THEN 0 ELSE f[Pick(s)] + g[s \ {Pick(s)}]
             Missing == {n \in Nat : \A g : ~Partial(n, g)}
  <1>1. 0 \notin Missing
    <2> DEFINE g == [s \in Small(0) |-> 0]
    <2>1. \A s \in Small(0) : s = {}
      BY NothingFits
    <2>2. Partial(0, g)
      BY <2>1, SMT
    <2> QED
      BY <2>2
  <1>2. ASSUME NEW n \in Nat, n \notin Missing
        PROVE  n + 1 \notin Missing
    <2>1. PICK g : Partial(n, g)
      BY <1>2
    <2> DEFINE h == [s \in Small(n + 1) |-> IF s = {} THEN 0
                                            ELSE f[Pick(s)] + g[s \ {Pick(s)}]]
    <2>2. \A s \in Small(n + 1) :
            s # {} => Pick(s) \in s /\ s \ {Pick(s)} \in Small(n)
                      /\ s \ {Pick(s)} \in Small(n + 1)
      <3>1. SUFFICES ASSUME NEW s \in Small(n + 1), s # {}
                     PROVE  Pick(s) \in s /\ s \ {Pick(s)} \in Small(n)
                            /\ s \ {Pick(s)} \in Small(n + 1)
        OBVIOUS
      <3>2. Pick(s) \in s
        BY <3>1, PickElement
      <3>3. Fits(s \ {Pick(s)}, n)
        <4> DEFINE x == Pick(s)
        <4>1. x \in s /\ Fits(s, n + 1)
          BY <3>1, <3>2
        <4> HIDE DEF x
        <4>2. Fits(s \ {x}, n)
          BY <4>1, Smaller
        <4> QED
          BY <4>2 DEF x
      <3>4. Fits(s \ {Pick(s)}, n + 1)
        BY <3>3, MoreFits
      <3>5. s \ {Pick(s)} \in SUBSET S
        BY <3>1
      <3> QED
        BY <3>2, <3>3, <3>4, <3>5
    <2>3. h \in [Small(n + 1) -> Int]
      <3>1. \A s \in Small(n + 1) : s # {} => f[Pick(s)] \in Int /\ g[s \ {Pick(s)}] \in Int
        BY <2>1, <2>2
      <3>2. \A s \in Small(n + 1) :
              (IF s = {} THEN 0 ELSE f[Pick(s)] + g[s \ {Pick(s)}]) \in Int
        BY <3>1, SMT
      <3> QED
        BY <3>2
    <2>4. \A s \in Small(n) : h[s] = g[s]
      <3>1. Small(n) \subseteq Small(n + 1)
        BY MoreFits
      <3>2. \A s \in Small(n) : g[s] = IF s = {} THEN 0 ELSE f[Pick(s)] + g[s \ {Pick(s)}]
        BY <2>1
      <3> HIDE DEF Small, Partial
      <3> QED
        BY <3>1, <3>2
    <2>5. \A s \in Small(n + 1) : h[s] = IF s = {} THEN 0 ELSE f[Pick(s)] + h[s \ {Pick(s)}]
      <3> HIDE DEF Small, Partial
      <3> QED
        BY <2>2, <2>4
    <2>6. Partial(n + 1, h)
      BY <2>3, <2>5
    <2> QED
      BY <2>6
  <1>3. Missing = {}
    <2>1. SUFFICES ASSUME Missing # {}
                   PROVE  FALSE
      OBVIOUS
    <2>2. PICK m \in Missing : \A n \in Missing : m <= n
      <3>1. Missing \subseteq Nat
        OBVIOUS
      <3> HIDE DEF Missing
      <3> QED
        BY <2>1, <3>1, LeastNat
    <2>3. m # 0 /\ m - 1 \in Nat /\ m - 1 \notin Missing
      <3> HIDE DEF Partial
      <3> QED
        BY <1>1, <2>2, SMT
    <2>4. (m - 1) + 1 \notin Missing
      <3> HIDE DEF Missing
      <3> QED
        BY <1>2, <2>3
    <2>5. (m - 1) + 1 = m
      BY <2>2, SMT
    <2> QED
      BY <2>2, <2>4, <2>5
  <1>4. PICK n \in Nat : \A s \in SUBSET S : Fits(s, n)
    BY FiniteFits
  <1>5. PICK g : Partial(n, g)
    BY <1>3
  <1>6. Small(n) = SUBSET S
    BY <1>4
  <1> QED
    BY <1>5, <1>6 DEF Sums

(* The sum of a function is one of these sums.                             *)
LEMMA SumIsSum ==
  ASSUME NEW S, IsFiniteSet(S), NEW f \in [S -> Int]
  PROVE  \E g : Sums(f, S, g) /\ SumFunction(f) = g[S]
  <1> DEFINE Equation(g) ==
               g = [s \in SUBSET S |-> IF s = {} THEN 0 ELSE f[Pick(s)] + g[s \ {Pick(s)}]]
             iter == CHOOSE g : Equation(g)
  <1>1. PICK g : Sums(f, S, g)
    BY SumsExist
  <1>2. Equation(g)
    BY <1>1 DEF Sums
  <1>3. Equation(iter)
    BY <1>2
  <1>4. SumFunction(f) = iter[S]
    <2>1. DOMAIN f = S
      OBVIOUS
    <2> QED
      BY <2>1 DEF SumFunction, SumFunctionOnSet, FoldFunctionOnSet, MapThenFoldSet, Pick
  <1>5. ASSUME NEW s \in SUBSET S
        PROVE  iter[s] = g[s]
    <2> DEFINE C == {r \in SUBSET S : iter[r] # g[r]}
    <2>1. SUFFICES ASSUME C # {}
                   PROVE  FALSE
      OBVIOUS
    <2>2. PICK r \in C : \A x \in r : r \ {x} \notin C
      <3>1. C \subseteq SUBSET S
        OBVIOUS
      <3> HIDE DEF C
      <3> QED
        BY <2>1, <3>1, SmallestSet
    <2>3. \A x \in r : iter[r \ {x}] = g[r \ {x}]
      BY <2>2
    <2>4. /\ iter[r] = IF r = {} THEN 0 ELSE f[Pick(r)] + iter[r \ {Pick(r)}]
          /\ g[r] = IF r = {} THEN 0 ELSE f[Pick(r)] + g[r \ {Pick(r)}]
      <3> HIDE DEF iter
      <3> QED
        BY <1>2, <1>3
    <2>5. r # {} => Pick(r) \in r
      BY PickElement
    <2> HIDE DEF iter
    <2> QED
      BY <2>2, <2>3, <2>4, <2>5
  <1>6. iter[S] = g[S]
    BY <1>5
  <1> HIDE DEF iter
  <1> QED
    BY <1>1, <1>4, <1>6

(* The order does not matter.                                              *)
AnyOrder(f, S, g) == \A s \in SUBSET S : \A y \in s : g[s] = f[y] + g[s \ {y}]

LEMMA SumsAnyOrder ==
  ASSUME NEW S, IsFiniteSet(S), NEW f \in [S -> Int], NEW g, Sums(f, S, g)
  PROVE  AnyOrder(f, S, g)
  <1> DEFINE C == {r \in SUBSET S : \E x \in r : g[r] # f[x] + g[r \ {x}]}
  <1>1. SUFFICES ASSUME C # {}
                 PROVE  FALSE
    BY DEF AnyOrder
  <1>2. PICK r \in C : \A x \in r : r \ {x} \notin C
    <2>1. C \subseteq SUBSET S
      OBVIOUS
    <2> HIDE DEF C
    <2> QED
      BY <1>1, <2>1, SmallestSet
  <1>3. PICK x \in r : g[r] # f[x] + g[r \ {x}]
    BY <1>2
  <1>4. Pick(r) \in r /\ g[r] = f[Pick(r)] + g[r \ {Pick(r)}]
    <2>1. r # {} /\ r \in SUBSET S
      BY <1>3
    <2> QED
      BY <2>1, PickElement DEF Sums
  <1>5. Pick(r) # x
    BY <1>3, <1>4
  <1>6. g[r \ {Pick(r)}] = f[x] + g[(r \ {Pick(r)}) \ {x}]
    BY <1>2, <1>4, <1>5
  <1>7. g[r \ {x}] = f[Pick(r)] + g[(r \ {x}) \ {Pick(r)}]
    BY <1>2, <1>4, <1>5
  <1>8. (r \ {x}) \ {Pick(r)} = (r \ {Pick(r)}) \ {x}
    OBVIOUS
  <1> DEFINE fp == f[Pick(r)]
             fx == f[x]
             gp == g[r \ {Pick(r)}]
             gx == g[r \ {x}]
             rest == g[(r \ {Pick(r)}) \ {x}]
  <1>9. gx = fp + rest /\ gp = fx + rest /\ g[r] = fp + gp /\ g[r] # fx + gx
    BY <1>3, <1>4, <1>6, <1>7, <1>8
  <1>10. fx \in Int /\ fp \in Int /\ rest \in Int
    BY <1>4 DEF Sums
  <1> HIDE DEF C, fp, fx, gp, gx, rest
  <1> QED
    BY <1>9, <1>10, SMT

LEMMA SumsAgree ==
  ASSUME NEW S, IsFiniteSet(S), NEW f \in [S -> Int], NEW h \in [S -> Int],
         NEW g, Sums(f, S, g), NEW k, Sums(h, S, k),
         NEW s \in SUBSET S, \A x \in s : f[x] = h[x]
  PROVE  g[s] = k[s]
  <1> DEFINE C == {r \in SUBSET s : g[r] # k[r]}
  <1>1. SUFFICES ASSUME C # {}
                 PROVE  FALSE
    OBVIOUS
  <1>2. PICK r \in C : \A x \in r : r \ {x} \notin C
    <2>1. C \subseteq SUBSET S
      OBVIOUS
    <2> HIDE DEF C
    <2> QED
      BY <1>1, <2>1, SmallestSet
  <1>3. \A x \in r : g[r \ {x}] = k[r \ {x}]
    BY <1>2
  <1>4. /\ g[r] = IF r = {} THEN 0 ELSE f[Pick(r)] + g[r \ {Pick(r)}]
        /\ k[r] = IF r = {} THEN 0 ELSE h[Pick(r)] + k[r \ {Pick(r)}]
    BY DEF Sums
  <1>5. r # {} => Pick(r) \in r
    BY PickElement
  <1> QED
    BY <1>2, <1>3, <1>4, <1>5

(* A change in one place changes the sum by as much.                       *)
LEMMA SumChanges ==
  ASSUME NEW S, IsFiniteSet(S), NEW f \in [S -> Int], NEW h \in [S -> Int],
         NEW y \in S, \A x \in S \ {y} : h[x] = f[x]
  PROVE  SumFunction(h) = SumFunction(f) + h[y] - f[y]
  <1>1. PICK g : Sums(f, S, g) /\ SumFunction(f) = g[S]
    BY SumIsSum
  <1>2. PICK k : Sums(h, S, k) /\ SumFunction(h) = k[S]
    BY SumIsSum
  <1>3. g[S \ {y}] = k[S \ {y}]
    BY <1>1, <1>2, SumsAgree, SMT
  <1>4. g[S] = f[y] + g[S \ {y}] /\ k[S] = h[y] + k[S \ {y}]
    <2>1. AnyOrder(f, S, g) /\ AnyOrder(h, S, k)
      BY <1>1, <1>2, SumsAnyOrder
    <2> QED
      BY <2>1 DEF AnyOrder
  <1>5. f[y] \in Int /\ h[y] \in Int /\ g[S \ {y}] \in Int
    BY <1>1 DEF Sums
  <1> QED
    BY <1>1, <1>2, <1>3, <1>4, <1>5, SMT

(* A sum is a number, and that of zeros is zero.                           *)
LEMMA SumInt ==
  ASSUME NEW S, IsFiniteSet(S), NEW f \in [S -> Int]
  PROVE  SumFunction(f) \in Int
  <1>1. PICK g : Sums(f, S, g) /\ SumFunction(f) = g[S]
    BY SumIsSum
  <1>2. g[S] \in Int
    BY <1>1 DEF Sums
  <1> QED
    BY <1>1, <1>2

LEMMA SumZero ==
  ASSUME NEW S, IsFiniteSet(S), NEW f \in [S -> Int], \A x \in S : f[x] = 0
  PROVE  SumFunction(f) = 0
  <1>1. PICK g : Sums(f, S, g) /\ SumFunction(f) = g[S]
    BY SumIsSum
  <1> DEFINE C == {r \in SUBSET S : g[r] # 0}
  <1>2. SUFFICES ASSUME C # {}
                 PROVE  FALSE
    BY <1>1
  <1>3. PICK r \in C : \A x \in r : r \ {x} \notin C
    <2>1. C \subseteq SUBSET S
      OBVIOUS
    <2> HIDE DEF C
    <2> QED
      BY <1>2, <2>1, SmallestSet
  <1>4. g[r] = IF r = {} THEN 0 ELSE f[Pick(r)] + g[r \ {Pick(r)}]
    BY <1>1 DEF Sums
  <1>5. r # {} => Pick(r) \in r
    BY PickElement
  <1>6. r # {} => f[Pick(r)] = 0 /\ g[r \ {Pick(r)}] = 0
    BY <1>3, <1>5
  <1>7. g[r] # 0
    OBVIOUS
  <1> HIDE DEF C
  <1> QED
    BY <1>4, <1>6, <1>7, SMT

-----------------------------------------------------------------------------
(* The parts of the count, and how a step changes each of them.            *)

InBuckets(k) == SumFunction(t_alloc_size[k])

DueOf(c, k) ==
  (IF c.kind = k /\ c.pc \in {"adding", "gathering", "reporting"} THEN c.acc ELSE 0)
  + (IF c.kind = k /\ c.pc = "counting" THEN IF c.up THEN c.size ELSE -c.size ELSE 0)

Due(k) == [t \in Thread |-> DueOf(call[t], k)]

LEMMA DueType ==
  ASSUME NEW c \in CallRecord, NEW k
  PROVE  DueOf(c, k) \in Int
  <1>1. c.acc \in Int /\ c.size \in Int
    <2>1. Size \cup {0} \subseteq Int
      BY Sets, SMT
    <2>2. c.acc \in Int /\ c.size \in Size \cup {0}
      BY DEF CallRecord
    <2> QED
      BY <2>1, <2>2
  <1> QED
    BY <1>1, SMT DEF DueOf

LEMMA CountedIs ==
  ASSUME NEW k
  PROVE  Counted(k) = g_alloc_size[k] + InBuckets(k) + SumFunction(Due(k))
  <1>1. \A t \in Thread : InHand(t, k) + ToCount(t, k) = DueOf(call[t], k)
    BY DEF InHand, ToCount, DueOf
  <1>2. [t \in Thread |-> InHand(t, k) + ToCount(t, k)] = Due(k)
    BY <1>1 DEF Due
  <1> QED
    BY <1>2 DEF Counted, InBuckets

PartsType ==
  \A k \in Kind :
    /\ g_alloc_size[k] \in Int /\ InBuckets(k) \in Int
    /\ SumFunction(Due(k)) \in Int /\ Live(k) \in Int /\ missed[k] \in Int

LEMMA DueInt ==
  ASSUME CallType, NEW k
  PROVE  Due(k) \in [Thread -> Int]
  BY DueType DEF Due, CallType

LEMMA PartsInt == Types => PartsType
  <1>1. SUFFICES ASSUME Types, NEW k \in Kind
                 PROVE  /\ g_alloc_size[k] \in Int /\ InBuckets(k) \in Int
                        /\ SumFunction(Due(k)) \in Int /\ Live(k) \in Int /\ missed[k] \in Int
    BY DEF PartsType
  <1>2. InBuckets(k) \in Int
    <2>1. t_alloc_size[k] \in [Bucket -> Int]
      BY <1>1 DEF Types, DataType
    <2> QED
      BY <2>1, Sets, SumInt DEF InBuckets
  <1>3. SumFunction(Due(k)) \in Int
    <2>1. Due(k) \in [Thread -> Int]
      BY <1>1, DueInt DEF Types
    <2> QED
      BY <2>1, Sets, SumInt
  <1>4. Live(k) \in Int
    <2> DEFINE f == [s \in Size |-> s * blocks[k][s]]
    <2>1. f \in [Size -> Int]
      BY <1>1, Sets, SMT DEF Types, DataType
    <2> HIDE DEF f
    <2>2. SumFunction(f) \in Int
      BY <2>1, Sets, SumInt
    <2> QED
      BY <2>2 DEF Live, f
  <1> QED
    BY <1>1, <1>2, <1>3, <1>4, Words, SMT DEF Types, DataType

LEMMA DueChanges ==
  ASSUME Types, NEW t \in Thread, NEW c \in CallRecord, Moves(t, c), NEW k \in Kind
  PROVE  SumFunction(Due(k))' = SumFunction(Due(k)) + DueOf(c, k) - DueOf(call[t], k)
  <1> DEFINE f == [u \in Thread |-> DueOf(call[u], k)]
             h == [u \in Thread |-> DueOf(call'[u], k)]
  <1>1. f \in [Thread -> Int]
    BY DueType DEF Types, CallType
  <1>2. h \in [Thread -> Int]
    BY DueType DEF Moves
  <1>3. ASSUME NEW u \in Thread \ {t}
        PROVE  h[u] = f[u]
    <2>1. call[u] \in CallRecord
      BY DEF Types, CallType
    <2>2. CASE call'[u] = call[u]
      BY <2>2
    <2>3. CASE call'[u] = [call[u] EXCEPT !.quiet = FALSE]
      <3>1. DueOf(call'[u], k) = DueOf(call[u], k)
        BY <2>1, <2>3 DEF CallRecord, DueOf
      <3> QED
        BY <3>1
    <2> QED
      BY <2>2, <2>3 DEF Moves
  <1>4. h[t] = DueOf(c, k) /\ f[t] = DueOf(call[t], k)
    BY DEF Moves
  <1> HIDE DEF f, h
  <1>5. SumFunction(h) = SumFunction(f) + h[t] - f[t]
    BY <1>1, <1>2, <1>3, Sets, SumChanges, SMT
  <1>6. Due(k) = f /\ Due(k)' = h
    BY DEF Due, f, h
  <1> QED
    BY <1>4, <1>5, <1>6

LEMMA BucketChanges ==
  ASSUME DataType, NEW m \in Kind, NEW b \in Bucket, NEW n \in Int,
         t_alloc_size' = [t_alloc_size EXCEPT ![m][b] = n]
  PROVE  /\ t_alloc_size' \in [Kind -> [Bucket -> Int]]
         /\ \A k \in Kind : InBuckets(k)' = IF k = m
              THEN InBuckets(k) + n - t_alloc_size[m][b] ELSE InBuckets(k)
  <1> DEFINE f == t_alloc_size[m]
             h == [f EXCEPT ![b] = n]
  <1>1. t_alloc_size \in [Kind -> [Bucket -> Int]]
    BY DEF DataType
  <1>2. f \in [Bucket -> Int] /\ h \in [Bucket -> Int] /\ h[b] = n /\ f[b] = t_alloc_size[m][b]
        /\ \A x \in Bucket \ {b} : h[x] = f[x]
    BY <1>1
  <1>3. t_alloc_size' = [t_alloc_size EXCEPT ![m] = h]
    BY <1>1
  <1> HIDE DEF h
  <1>4. t_alloc_size' \in [Kind -> [Bucket -> Int]] /\ t_alloc_size'[m] = h
        /\ \A k \in Kind \ {m} : t_alloc_size'[k] = t_alloc_size[k]
    BY <1>1, <1>2, <1>3
  <1> HIDE DEF f
  <1>5. IsFiniteSet(Bucket)
    BY Sets
  <1>6. SumFunction(h) = SumFunction(f) + h[b] - f[b]
    BY <1>2, <1>5, SumChanges
  <1> QED
    BY <1>2, <1>4, <1>6 DEF InBuckets, f

LEMMA BlocksChange ==
  ASSUME DataType, NEW m \in Kind, NEW s \in Size, NEW n \in Nat,
         blocks' = [blocks EXCEPT ![m][s] = n]
  PROVE  /\ blocks' \in [Kind -> [Size -> Nat]]
         /\ \A k \in Kind : Live(k)' = IF k = m
              THEN Live(k) + s * n - s * blocks[m][s] ELSE Live(k)
  <1> DEFINE f == [r \in Size |-> r * blocks[m][r]]
             h == [r \in Size |-> r * blocks'[m][r]]
  <1>1. blocks \in [Kind -> [Size -> Nat]]
    BY DEF DataType
  <1>2. /\ blocks' \in [Kind -> [Size -> Nat]]
        /\ \A k \in Kind \ {m} : blocks'[k] = blocks[k]
        /\ \A r \in Size \ {s} : blocks'[m][r] = blocks[m][r]
        /\ blocks'[m][s] = n
    BY <1>1
  <1>3. f \in [Size -> Int] /\ h \in [Size -> Int]
    BY <1>1, <1>2, Sets, SMT
  <1>4. (\A r \in Size \ {s} : h[r] = f[r]) /\ h[s] = s * n /\ f[s] = s * blocks[m][s]
    BY <1>2
  <1> HIDE DEF f, h
  <1>5. SumFunction(h) = SumFunction(f) + h[s] - f[s]
    <2>1. IsFiniteSet(Size)
      BY Sets
    <2> QED
      BY <1>3, <1>4, <2>1, SumChanges
  <1>6. Live(m) = SumFunction(f) /\ Live(m)' = SumFunction(h)
    BY DEF Live, f, h
  <1>7. \A k \in Kind \ {m} : Live(k)' = Live(k)
    BY <1>2 DEF Live
  <1> QED
    BY <1>2, <1>4, <1>5, <1>6, <1>7

LEMMA MinusZero ==
  ASSUME NEW x \in Int, x <= 0, x >= 0
  PROVE  -x = 0
  BY SMT

LEMMA OneBlock ==
  ASSUME NEW s \in Int, NEW n \in Int
  PROVE  s * (n + 1) - s * n = s /\ s * (n - 1) - s * n = -s
  BY SMT

Balanced(k) ==
  Unsigned(g_alloc_size[k] + InBuckets(k) + SumFunction(Due(k))) = Unsigned(Live(k) + missed[k])

LEMMA ConservedIs == Conserved <=> \A k \in Kind : Balanced(k)
  BY CountedIs DEF Conserved, Balanced, Accounted

-----------------------------------------------------------------------------
(* What a thread that no other call disturbed can rely on.                 *)
QuietOf(t) ==
  /\ Undisturbed(t)
  /\ call[t].pc = "gathering" =>
       \A b \in Bucket : b < call[t].i => t_alloc_size[call[t].kind][b] = 0
  /\ call[t].pc = "reporting" => \A b \in Bucket : t_alloc_size[call[t].kind][b] = 0
  /\ call[t].pc = "reported" => call[t].acc = Unsigned(Accounted(call[t].kind))

QuietInv == \A t \in Thread : call[t].quiet => QuietOf(t)

LEMMA QuietNext == Types /\ Conserved /\ QuietInv /\ [Next]_vars => QuietInv'
  (* A step of a call that no other call disturbs, other than the steps of   *)
  (* memtier_kind_allocated_size.                                            *)
  <1>PlainQuiet. ASSUME Types, QuietInv, NEW t \in Thread, NEW c, Continues(t, c),
                        call[t].pc \notin {"idle", "reported"}, c.quiet => call[t].quiet,
                        c.pc \notin {"gathering", "reporting", "reported"}
                 PROVE  QuietInv'
    <2> USE <1>PlainQuiet
    <2>1. call'[t] = c /\ OthersKept(t) /\ \A u \in Thread \ {t} : call'[u] = call[u]
      BY ContinuesOthers DEF Types
    <2>2. \A u \in Thread \ {t} : ~call[u].quiet
      BY DEF QuietInv, QuietOf, Undisturbed
    <2>3. ASSUME c.quiet
          PROVE  QuietOf(t)'
      BY <2>1, <2>3 DEF QuietInv, QuietOf, Undisturbed
    <2> HIDE DEF QuietOf
    <2> QED
      BY <2>1, <2>2, <2>3 DEF QuietInv
  <1>AfterQuiet. ASSUME NEW o \in CallRecord
                 PROVE  After(o).pc \in {"idle", "reallocating"} /\ (After(o).quiet => o.quiet)
    BY <1>AfterQuiet DEF After, NoCall, CallRecord
  <1>StepQuiet. ASSUME Types, QuietInv, NEW t \in Thread,
                       \/ ChooseNext(t) \/ KindMalloc(t) \/ Count(t) \/ Take(t) \/ Add(t)
                       \/ MemalignError(t) \/ KindRealloc(t)
                PROVE  QuietInv'
    <2> USE <1>StepQuiet
    <2> DEFINE o == call[t]
    <2>1. o \in CallRecord /\ Complete(o)
      BY DEF Types, CallType
    <2>2. o.pc \notin {"idle", "reported"}
      BY DEF ChooseNext, KindMalloc, Count, Take, Add, MemalignError, KindRealloc
    <2>3. PICK c :
            /\ Continues(t, c)
            /\ c.quiet => o.quiet
            /\ c.pc \notin {"gathering", "reporting", "reported"}
      <3>1. CASE ChooseNext(t)
        <4> DEFINE below == g_alloc_size[Tiers[o.i]] * Ratio[1] < o.acc * Ratio[o.i]
                   c == [o EXCEPT !.kind = IF below THEN Tiers[o.i] ELSE @,
                                  !.pc = IF o.i = Len(Tiers) THEN "chosen" ELSE @,
                                  !.i = @ + 1]
        <4>1. Continues(t, c) /\ o.pc = "choosing"
          BY <3>1 DEF ChooseNext
        <4> HIDE DEF below
        <4>2. c.quiet = o.quiet /\ c.pc \in {"choosing", "chosen"}
          BY <2>1, <4>1 DEF CallRecord
        <4> HIDE DEF c
        <4> QED
          BY <4>1, <4>2
      <3>2. CASE KindMalloc(t)
        <4> DEFINE c == [o EXCEPT !.pc = "counting", !.acc = 0]
                   d == [o EXCEPT !.pc = "counting", !.size = 0, !.acc = 0]
        <4>1. Continues(t, c) \/ Continues(t, d)
          BY <3>2 DEF KindMalloc
        <4>2. c.quiet = o.quiet /\ c.pc = "counting" /\ d.quiet = o.quiet /\ d.pc = "counting"
          BY <2>1 DEF CallRecord
        <4> HIDE DEF c, d
        <4> QED
          BY <4>1, <4>2
      <3>3. CASE Count(t)
        <4> DEFINE d == [o EXCEPT !.pc = "taking"]
        <4>1. Continues(t, d) \/ Continues(t, After(o))
          BY <3>3 DEF Count
        <4>2. d.quiet = o.quiet /\ d.pc = "taking"
          BY <2>1 DEF CallRecord
        <4> HIDE DEF d
        <4> QED
          BY <2>1, <4>1, <4>2, <1>AfterQuiet
      <3>4. CASE Take(t)
        <4> DEFINE d == [o EXCEPT !.pc = "adding", !.acc = t_alloc_size[o.kind][BucketOf[t]]]
        <4>1. Continues(t, d)
          BY <3>4 DEF Take
        <4>2. d.quiet = o.quiet /\ d.pc = "adding"
          BY <2>1 DEF CallRecord
        <4> HIDE DEF d
        <4> QED
          BY <4>1, <4>2
      <3>5. CASE Add(t)
        <4>1. Continues(t, After(o))
          BY <3>5 DEF Add
        <4> QED
          BY <2>1, <4>1, <1>AfterQuiet
      <3>6. CASE MemalignError(t)
        <4>1. PICK s \in Size : Continues(t, [o EXCEPT !.pc = "counting", !.size = s, !.acc = 0])
          BY <3>6 DEF MemalignError
        <4> DEFINE d == [o EXCEPT !.pc = "counting", !.size = s, !.acc = 0]
        <4>2. Continues(t, d)
          BY <4>1
        <4>3. d.quiet = o.quiet /\ d.pc = "counting"
          BY <2>1 DEF CallRecord
        <4> HIDE DEF d
        <4> QED
          BY <4>2, <4>3
      <3>7. CASE KindRealloc(t)
        <4> DEFINE c == [o EXCEPT !.pc = "counting", !.up = TRUE, !.size = o.new, !.new = 0]
                   d == [o EXCEPT !.pc = "counting", !.up = TRUE, !.size = 0, !.new = 0]
        <4>1. Continues(t, c) \/ Continues(t, d)
          BY <3>7 DEF KindRealloc
        <4>2. c.quiet = o.quiet /\ c.pc = "counting" /\ d.quiet = o.quiet /\ d.pc = "counting"
          BY <2>1 DEF CallRecord
        <4> HIDE DEF c, d
        <4> QED
          BY <4>1, <4>2
      <3> QED
        BY <3>1, <3>2, <3>3, <3>4, <3>5, <3>6, <3>7
    <2> QED
      BY <2>2, <2>3, <1>PlainQuiet
  (* The steps of memtier_kind_allocated_size.                               *)
  <1>GatherQuiet. ASSUME Types, QuietInv, NEW t \in Thread, Gather(t)
                  PROVE  QuietInv'
    <2> USE <1>GatherQuiet
    <2> DEFINE o == call[t]
               c == [o EXCEPT !.acc = @ + t_alloc_size[o.kind][o.i], !.i = @ + 1,
                              !.pc = IF o.i = THREAD_BUCKETS - 1 THEN "reporting" ELSE @]
    <2>1. o \in CallRecord /\ o.pc = "gathering" /\ o.i \in Bucket /\ o.kind \in Kind
      BY DEF Types, CallType, Complete, Gather, CallRecord
    <2>2. Continues(t, c) /\ t_alloc_size' = [t_alloc_size EXCEPT ![o.kind][o.i] = 0]
      BY DEF Gather
    <2>3. /\ c.quiet = o.quiet /\ c.kind = o.kind /\ c.i = o.i + 1
          /\ c.pc = IF o.i = THREAD_BUCKETS - 1 THEN "reporting" ELSE "gathering"
      BY <2>1 DEF CallRecord
    <2> HIDE DEF c
    <2>4. call'[t] = c /\ \A u \in Thread \ {t} : call'[u] = call[u]
      BY <2>2, ContinuesOthers DEF Types
    <2>5. \A u \in Thread \ {t} : ~call[u].quiet
      BY <2>1 DEF QuietInv, QuietOf, Undisturbed
    <2>6. ASSUME c.quiet
          PROVE  QuietOf(t)'
      <3>1. QuietOf(t)
        BY <2>3, <2>6 DEF QuietInv
      <3>2. Undisturbed(t)'
        BY <2>4, <3>1 DEF QuietOf, Undisturbed
      <3>3. \A b \in Bucket : b < o.i + 1 => t_alloc_size'[o.kind][b] = 0
        <4>1. \A b \in Bucket : b < o.i + 1 => b = o.i \/ b < o.i
          BY <2>1, Sets, SMT DEF Bucket
        <4>2. \A b \in Bucket : b < o.i => t_alloc_size[o.kind][b] = 0
          BY <2>1, <3>1 DEF QuietOf
        <4>3. /\ t_alloc_size'[o.kind][o.i] = 0
              /\ \A b \in Bucket \ {o.i} : t_alloc_size'[o.kind][b] = t_alloc_size[o.kind][b]
          BY <2>1, <2>2 DEF Types, DataType
        <4> QED
          BY <4>1, <4>2, <4>3
      <3>4. o.i = THREAD_BUCKETS - 1 => \A b \in Bucket : b < o.i + 1
        BY Sets, SMT DEF Bucket
      <3> QED
        BY <2>3, <2>4, <3>2, <3>3, <3>4 DEF QuietOf
    <2> HIDE DEF QuietOf
    <2> QED
      BY <2>4, <2>5, <2>6 DEF QuietInv
  (* Nobody else has anything due, and the buckets are empty: what was       *)
  (* gathered and the global counter are all there is.                       *)
  <1>ReportQuiet. ASSUME Types, Conserved, QuietInv, NEW t \in Thread, Report(t),
                         UNCHANGED << failures, missed >>
                  PROVE  QuietInv'
    <2> USE <1>ReportQuiet
    <2> DEFINE o == call[t]
               m == o.kind
               total == Unsigned(g_alloc_size[m] + o.acc)
               c == [o EXCEPT !.pc = "reported", !.acc = total]
    <2>1. o \in CallRecord /\ o.pc = "reporting" /\ m \in Kind /\ o.acc \in Int
      BY DEF Types, CallType, Report, CallRecord
    <2>2. Continues(t, c) /\ blocks' = blocks /\ missed' = missed
      BY DEF Report
    <2>3. c.quiet = o.quiet /\ c.kind = m /\ c.pc = "reported" /\ c.acc = total
      BY <2>1 DEF CallRecord
    <2> HIDE DEF c
    <2>4. call'[t] = c /\ \A u \in Thread \ {t} : call'[u] = call[u]
      BY <2>2, ContinuesOthers DEF Types
    <2>5. \A u \in Thread \ {t} : ~call[u].quiet
      BY <2>1 DEF QuietInv, QuietOf, Undisturbed
    <2>6. ASSUME c.quiet
          PROVE  QuietOf(t)'
      <3>1. QuietOf(t)
        BY <2>3, <2>6 DEF QuietInv
      <3>2. Undisturbed(t)'
        BY <2>4, <3>1 DEF QuietOf, Undisturbed
      <3>3. InBuckets(m) = 0
        <4> DEFINE f == t_alloc_size[m]
        <4>1. f \in [Bucket -> Int] /\ \A b \in Bucket : f[b] = 0
          BY <2>1, <3>1 DEF QuietOf, Types, DataType
        <4>2. InBuckets(m) = SumFunction(f)
          BY DEF InBuckets
        <4> HIDE DEF f
        <4> QED
          BY <4>1, <4>2, SumZero, Sets
      <3>4. SumFunction(Due(m)) = o.acc
        <4> DEFINE h == Due(m)
                   z == [u \in Thread |-> 0]
        <4>1. h \in [Thread -> Int] /\ h[t] = o.acc /\ \A u \in Thread \ {t} : h[u] = 0
          <5>1. h \in [Thread -> Int]
            BY DueInt DEF Types
          <5>2. \A u \in Thread \ {t} : DueOf(call[u], m) = 0
            BY <3>1, SMT DEF QuietOf, Undisturbed, DueOf
          <5>3. DueOf(o, m) = o.acc
            BY <2>1, SMT DEF DueOf
          <5> QED
            BY <5>1, <5>2, <5>3 DEF Due
        <4>2. z \in [Thread -> Int] /\ \A u \in Thread : z[u] = 0
          BY SMTT(30)
        <4> HIDE DEF h, z
        <4>3. SumFunction(z) = 0
          BY <4>2, SumZero, Sets
        <4>4. SumFunction(h) = SumFunction(z) + h[t] - z[t]
          <5>1. IsFiniteSet(Thread)
            BY Sets
          <5>2. \A u \in Thread \ {t} : h[u] = z[u]
            BY <4>1, <4>2
          <5> QED
            BY <4>1, <4>2, <5>1, <5>2, SumChanges, SMT
        <4>5. SumFunction(h) = o.acc
          BY <2>1, <4>1, <4>2, <4>3, <4>4, SMT
        <4> QED
          BY <4>5 DEF h
      <3>5. total = Unsigned(Accounted(m))
        <4>1. Balanced(m)
          BY <2>1, ConservedIs
        <4>2. g_alloc_size[m] + 0 + o.acc = g_alloc_size[m] + o.acc
          BY <2>1, Words, SMT DEF Types, DataType
        <4>3. Unsigned(g_alloc_size[m] + 0 + o.acc) = Unsigned(Live(m) + missed[m])
          BY <3>3, <3>4, <4>1 DEF Balanced
        <4> QED
          BY <4>2, <4>3 DEF Accounted
      <3>6. Accounted(call[t].kind)' = Accounted(m)
        BY <2>2, <2>3, <2>4 DEF Accounted, Live
      <3> QED
        BY <2>3, <2>4, <3>2, <3>5, <3>6 DEF QuietOf, Unsigned
    <2> HIDE DEF QuietOf
    <2> QED
      BY <2>4, <2>5, <2>6 DEF QuietInv
  <1>ReportEndQuiet. ASSUME Types, QuietInv, NEW t \in Thread, ReportEnd(t), UNCHANGED << failures, missed >>
                     PROVE  QuietInv'
    <2> USE <1>ReportEndQuiet
    <2>1. Continues(t, NoCall) /\ UNCHANGED << t_alloc_size, blocks, missed >>
      BY DEF ReportEnd
    <2>2. call'[t] = NoCall /\ \A u \in Thread \ {t} : call'[u] = call[u]
      BY <2>1, ContinuesOthers DEF Types
    <2>3. NoCall.pc = "idle" /\ ~NoCall.quiet
      BY DEF NoCall
    <2>4. ASSUME NEW u \in Thread, call'[u].quiet
          PROVE  QuietOf(u)'
      <3>1. u # t /\ call'[u] = call[u] /\ QuietOf(u)
        BY <2>2, <2>3, <2>4 DEF QuietInv
      <3>2. Undisturbed(u)'
        BY <2>2, <2>3, <3>1 DEF QuietOf, Undisturbed
      <3>3. Accounted(call[u].kind)' = Accounted(call[u].kind)
        BY <2>1, <3>1 DEF Accounted, Live
      <3> QED
        BY <2>1, <3>1, <3>2, <3>3 DEF QuietOf, Unsigned
    <2> QED
      BY <2>4 DEF QuietInv
  <1>BeginQuiet. ASSUME Types, QuietInv, NEW t \in Thread, Begin(t)
                 PROVE  QuietInv'
    <2> USE <1>BeginQuiet
    <2>1. UNCHANGED t_alloc_size /\ Starts(t)
      BY BeginForm
    <2>2. PICK c : /\ Begins(t, c)
                   /\ c.quiet => Undisturbed(t)
                   /\ c.pc \notin {"reporting", "reported"}
                   /\ c.pc = "gathering" => c.i = 0
      BY <2>1 DEF Starts
    <2>3. call'[t] = c /\ OthersKept(t) /\ \A u \in Thread \ {t} : ~call'[u].quiet
      BY <2>2, BeginsOthers DEF Types
    <2>4. ASSUME c.quiet
          PROVE  QuietOf(t)'
      <3>1. Undisturbed(t)'
        BY <2>2, <2>3, <2>4 DEF Undisturbed, OthersKept
      <3>2. \A b \in Bucket : ~(b < 0)
        BY Sets, SMT DEF Bucket
      <3> QED
        BY <2>2, <2>3, <3>1, <3>2 DEF QuietOf
    <2> HIDE DEF QuietOf
    <2> QED
      BY <2>3, <2>4 DEF QuietInv
  <1>ResetSizeQuiet. ASSUME Types, QuietInv, NEW r \in Kind, ResetSize(r)
                     PROVE  QuietInv'
    <2> USE <1>ResetSizeQuiet
    <2>1. /\ Unused(r) /\ call' = call /\ blocks' = blocks
          /\ \A k \in Kind \ {r} : t_alloc_size'[k] = t_alloc_size[k] /\ missed'[k] = missed[k]
      BY DEF ResetSize, Types, DataType
    <2>2. ASSUME NEW t \in Thread, call'[t].quiet
          PROVE  QuietOf(t)'
      <3>1. QuietOf(t) /\ Undisturbed(t)'
        BY <2>1, <2>2 DEF QuietInv, QuietOf, Undisturbed
      <3>2. CASE call[t].pc = "idle"
        BY <2>1, <3>1, <3>2 DEF QuietOf
      <3>3. CASE call[t].pc # "idle"
        <4>1. call[t].kind \in Kind \ {r}
          BY <2>1, <3>3 DEF Unused, Types, CallType, CallRecord
        <4>2. Accounted(call[t].kind)' = Accounted(call[t].kind)
          BY <2>1, <4>1 DEF Accounted, Live
        <4> QED
          BY <2>1, <3>1, <4>1, <4>2 DEF QuietOf, Unsigned
      <3> QED
        BY <3>2, <3>3
    <2> QED
      BY <2>2 DEF QuietInv
  <1> SUFFICES ASSUME Types, Conserved, QuietInv, [Next]_vars
               PROVE  QuietInv'
    OBVIOUS
  <1>1. ASSUME NEW t \in Thread, Begin(t)
        PROVE  QuietInv'
    BY <1>1, <1>BeginQuiet
  <1>2. ASSUME NEW t \in Thread, Step(t), UNCHANGED << failures, missed >>
        PROVE  QuietInv'
    BY <1>2, <1>StepQuiet, <1>GatherQuiet, <1>ReportQuiet, <1>ReportEndQuiet DEF Step
  <1>3. ASSUME NEW t \in Thread, MemalignError(t) \/ KindRealloc(t)
        PROVE  QuietInv'
    BY <1>3, <1>StepQuiet
  <1>4. ASSUME NEW k \in Kind, ResetSize(k)
        PROVE  QuietInv'
    BY <1>4, <1>ResetSizeQuiet
  <1>5. CASE UNCHANGED vars
    BY <1>5 DEF vars, QuietInv, QuietOf, Undisturbed, Accounted, Live
  <1> QED
    BY <1>1, <1>2, <1>3, <1>4, <1>5 DEF Next

-----------------------------------------------------------------------------
(* Every step keeps the balance of the parts.                              *)

LEMMA ConservedKept ==
  ASSUME Types, Types', Conserved, NEW d \in [Kind -> Int],
         \A k \in Kind :
           /\ Unsigned(g_alloc_size'[k]) = Unsigned(g_alloc_size[k] + d[k])
           /\ d[k] + (InBuckets(k)' - InBuckets(k)) + (SumFunction(Due(k))' - SumFunction(Due(k)))
                = (Live(k)' - Live(k)) + (missed'[k] - missed[k])
  PROVE  Conserved'
  <1>1. ASSUME NEW k \in Kind
        PROVE  Balanced(k)'
    <2> DEFINE g == g_alloc_size[k]
               g2 == g_alloc_size'[k]
               b == InBuckets(k)
               b2 == InBuckets(k)'
               h == SumFunction(Due(k))
               h2 == SumFunction(Due(k))'
               l == Live(k)
               l2 == Live(k)'
               m == missed[k]
               m2 == missed'[k]
               e == d[k]
               change == e + (b2 - b) + (h2 - h)
               x == g + b + h
               y == l + m
               g1 == g + e
               bh == b2 + h2
    <2>1. g \in Int /\ b \in Int /\ h \in Int /\ l \in Int /\ m \in Int
      BY PartsInt DEF PartsType
    <2>2. g2 \in Int /\ b2 \in Int /\ h2 \in Int /\ l2 \in Int /\ m2 \in Int
      <3>1. PartsType'
        BY PartsInt, PTL
      <3> QED
        BY <3>1 DEF PartsType
    <2>3. Unsigned(x) = Unsigned(y)
      BY ConservedIs DEF Balanced
    <2>4. Unsigned(g2) = Unsigned(g1)
      OBVIOUS
    <2>5. e \in Int /\ change = (l2 - l) + (m2 - m)
      OBVIOUS
    <2> HIDE DEF g, g2, b, b2, h, h2, l, l2, m, m2, e
    <2>6. change \in Int /\ x \in Int /\ y \in Int /\ g1 \in Int /\ bh \in Int
      BY <2>1, <2>2, <2>5, SMTT(30)
    <2>7. g2 + bh = g2 + b2 + h2 /\ g1 + bh = x + change /\ y + change = l2 + m2
      BY <2>1, <2>2, <2>5, SMTT(30)
    <2> HIDE DEF change, x, y, g1, bh
    <2>8. Unsigned(g2 + bh) = Unsigned(g1 + bh)
      BY <2>2, <2>4, <2>6, UnsignedSum, SMT
    <2>9. Unsigned(x + change) = Unsigned(y + change)
      BY <2>3, <2>6, UnsignedSum
    <2>10. Unsigned(g2 + b2 + h2) = Unsigned(l2 + m2)
      BY <2>7, <2>8, <2>9
    <2> QED
      BY <2>10 DEF Balanced, g2, b2, h2, l2, m2, Unsigned
  <1>2. (\A k \in Kind : Balanced(k))'
    BY <1>1
  <1> QED
    BY <1>2, ConservedIs, PTL

(* The steps that leave the counters and the blocks alone.                 *)
LEMMA NeutralStep ==
  ASSUME Types, Conserved, NEW t \in Thread, NEW c \in CallRecord, Complete(c), Moves(t, c),
         \A k \in Kind : DueOf(c, k) = DueOf(call[t], k),
         UNCHANGED << t_alloc_size, g_alloc_size, blocks, failures, missed >>
  PROVE  Types' /\ Conserved'
  <1>1. Types'
    BY MovesType DEF Types, DataType
  <1>2. PartsType
    BY PartsInt
  <1>3. \A k \in Kind : SumFunction(Due(k))' = SumFunction(Due(k))
    <2>1. SUFFICES ASSUME NEW k \in Kind
                   PROVE  SumFunction(Due(k))' = SumFunction(Due(k))
      OBVIOUS
    <2>2. SumFunction(Due(k))' = SumFunction(Due(k)) + DueOf(c, k) - DueOf(call[t], k)
      BY DueChanges
    <2>3. DueOf(c, k) \in Int
      BY DueType
    <2> QED
      BY <1>2, <2>2, <2>3, SMT DEF PartsType
  <1>4. \A k \in Kind : InBuckets(k)' = InBuckets(k) /\ Live(k)' = Live(k)
    BY DEF InBuckets, Live
  <1> DEFINE d == [k \in Kind |-> 0]
  <1>5. d \in [Kind -> Int] /\ \A k \in Kind : d[k] = 0
    BY SMT
  <1> HIDE DEF d
  <1> QED
    BY <1>1, <1>2, <1>3, <1>4, <1>5, ConservedKept, SMTT(30) DEF PartsType

(* The calls that count: thread t goes on with c, and what is due in kind  *)
(* m changes.  The three kinds of changes, to the blocks held, to a bucket *)
(* and to the global counter, are the three lemmas.                        *)
OnlyDueOf(t, c, m) == \A k \in Kind : k # m => DueOf(c, k) = DueOf(call[t], k)

LEMMA DueOfOther ==
  ASSUME NEW c \in CallRecord, NEW k \in Kind, k # c.kind
  PROVE  DueOf(c, k) = 0
  BY SMT DEF DueOf

LEMMA SameKindDue ==
  ASSUME CallType, NEW t \in Thread, NEW c \in CallRecord,
         c.kind = call[t].kind \/ \A k \in Kind : DueOf(call[t], k) = 0
  PROVE  OnlyDueOf(t, c, c.kind)
  BY DueOfOther, SMT DEF OnlyDueOf, CallType

LEMMA BlockStep ==
  ASSUME Types, Types', Conserved, NEW t \in Thread, NEW c \in CallRecord, Moves(t, c),
         OnlyDueOf(t, c, c.kind),
         UNCHANGED << t_alloc_size, g_alloc_size >>,
         NEW x \in Int, NEW y \in Int,
         \A k \in Kind : Live(k)' = IF k = c.kind THEN Live(k) + x ELSE Live(k),
         \A k \in Kind : missed'[k] = IF k = c.kind THEN missed[k] + y ELSE missed[k],
         DueOf(c, c.kind) - DueOf(call[t], c.kind) = x + y
  PROVE  Conserved'
  <1>1. PartsType
    BY PartsInt
  <1>2. \A k \in Kind : InBuckets(k)' = InBuckets(k)
    BY DEF InBuckets
  <1>3. \A k \in Kind : SumFunction(Due(k))' - SumFunction(Due(k))
                          = IF k = c.kind THEN x + y ELSE 0
    <2>1. SUFFICES ASSUME NEW k \in Kind
                   PROVE  SumFunction(Due(k))' - SumFunction(Due(k))
                            = IF k = c.kind THEN x + y ELSE 0
      OBVIOUS
    <2>2. SumFunction(Due(k))' = SumFunction(Due(k)) + DueOf(c, k) - DueOf(call[t], k)
      BY DueChanges
    <2>3. DueOf(c, k) \in Int /\ DueOf(call[t], k) \in Int /\ SumFunction(Due(k)) \in Int
      BY <1>1, DueType DEF Types, CallType, PartsType
    <2> QED
      BY <2>2, <2>3, SMT DEF OnlyDueOf
  <1> DEFINE d == [k \in Kind |-> 0]
  <1>4. d \in [Kind -> Int] /\ \A k \in Kind : d[k] = 0
    BY SMT
  <1> HIDE DEF d
  <1>5. ASSUME NEW k \in Kind
        PROVE  /\ Unsigned(g_alloc_size'[k]) = Unsigned(g_alloc_size[k] + d[k])
               /\ d[k] + (InBuckets(k)' - InBuckets(k)) + (SumFunction(Due(k))' - SumFunction(Due(k)))
                    = (Live(k)' - Live(k)) + (missed'[k] - missed[k])
    <2>1. g_alloc_size[k] \in Int /\ InBuckets(k) \in Int /\ Live(k) \in Int /\ missed[k] \in Int
      BY <1>1 DEF PartsType
    <2> DEFINE due == SumFunction(Due(k))' - SumFunction(Due(k))
    <2>2. CASE k = c.kind
      <3>1. Live(k)' = Live(k) + x /\ missed'[k] = missed[k] + y
        BY <2>2
      <3>2. InBuckets(k)' = InBuckets(k) /\ due = x + y /\ d[k] = 0
        BY <1>2, <1>3, <1>4, <2>2
      <3> QED
        BY <2>1, <3>1, <3>2, SMTT(30)
    <2>3. CASE k # c.kind
      <3>1. Live(k)' = Live(k) /\ missed'[k] = missed[k]
        BY <2>3
      <3>2. InBuckets(k)' = InBuckets(k) /\ due = 0 /\ d[k] = 0
        BY <1>2, <1>3, <1>4, <2>3
      <3> QED
        BY <2>1, <3>1, <3>2, SMT
    <2> QED
      BY <2>2, <2>3
  <1> QED
    BY <1>4, <1>5, ConservedKept

LEMMA BucketStep ==
  ASSUME Types, Types', Conserved, NEW t \in Thread, NEW c \in CallRecord, Moves(t, c),
         NEW m \in Kind, OnlyDueOf(t, c, m),
         UNCHANGED << g_alloc_size, blocks, missed >>,
         NEW b \in Bucket, NEW n \in Int, t_alloc_size' = [t_alloc_size EXCEPT ![m][b] = n],
         DueOf(c, m) - DueOf(call[t], m) = t_alloc_size[m][b] - n
  PROVE  Conserved'
  <1>1. PartsType
    BY PartsInt
  <1>2. \A k \in Kind : Live(k)' = Live(k)
    BY DEF Live
  <1>3. \A k \in Kind : InBuckets(k)' = IF k = m THEN InBuckets(k) + n - t_alloc_size[m][b]
                                                 ELSE InBuckets(k)
    BY BucketChanges DEF Types
  <1>4. t_alloc_size[m][b] \in Int
    BY SMT DEF Types, DataType
  <1> DEFINE d == [k \in Kind |-> 0]
  <1>5. d \in [Kind -> Int] /\ \A k \in Kind : d[k] = 0
    BY SMT
  <1> HIDE DEF d
  <1>6. ASSUME NEW k \in Kind
        PROVE  /\ Unsigned(g_alloc_size'[k]) = Unsigned(g_alloc_size[k] + d[k])
               /\ d[k] + (InBuckets(k)' - InBuckets(k)) + (SumFunction(Due(k))' - SumFunction(Due(k)))
                    = (Live(k)' - Live(k)) + (missed'[k] - missed[k])
    <2>1. /\ g_alloc_size[k] \in Int /\ InBuckets(k) \in Int /\ Live(k) \in Int /\ missed[k] \in Int
          /\ SumFunction(Due(k)) \in Int
      BY <1>1 DEF PartsType
    <2>2. SumFunction(Due(k))' = SumFunction(Due(k)) + DueOf(c, k) - DueOf(call[t], k)
      BY DueChanges
    <2>3. DueOf(c, k) \in Int /\ DueOf(call[t], k) \in Int
      BY DueType DEF Types, CallType
    <2>4. CASE k = m
      BY <1>2, <1>3, <1>4, <1>5, <2>1, <2>2, <2>3, <2>4, SMTT(30)
    <2>5. CASE k # m
      BY <1>2, <1>3, <1>5, <2>1, <2>2, <2>3, <2>5, SMT DEF OnlyDueOf
    <2> QED
      BY <2>4, <2>5
  <1> QED
    BY <1>5, <1>6, ConservedKept

LEMMA GlobalStep ==
  ASSUME Types, Types', Conserved, NEW t \in Thread, NEW c \in CallRecord, Moves(t, c),
         NEW m \in Kind, OnlyDueOf(t, c, m),
         UNCHANGED << t_alloc_size, blocks, missed >>,
         NEW n \in Int, g_alloc_size' = [g_alloc_size EXCEPT ![m] = Unsigned(@ + n)],
         DueOf(c, m) - DueOf(call[t], m) = -n
  PROVE  Conserved'
  <1>1. PartsType
    BY PartsInt
  <1>2. \A k \in Kind : Live(k)' = Live(k) /\ InBuckets(k)' = InBuckets(k)
    BY DEF Live, InBuckets
  <1> DEFINE d == [k \in Kind |-> IF k = m THEN n ELSE 0]
  <1>3. d \in [Kind -> Int] /\ d[m] = n /\ \A k \in Kind : k # m => d[k] = 0
    BY SMT
  <1> HIDE DEF d
  <1>4. ASSUME NEW k \in Kind
        PROVE  /\ Unsigned(g_alloc_size'[k]) = Unsigned(g_alloc_size[k] + d[k])
               /\ d[k] + (InBuckets(k)' - InBuckets(k)) + (SumFunction(Due(k))' - SumFunction(Due(k)))
                    = (Live(k)' - Live(k)) + (missed'[k] - missed[k])
    <2>1. /\ g_alloc_size[k] \in Int /\ InBuckets(k) \in Int /\ Live(k) \in Int /\ missed[k] \in Int
          /\ SumFunction(Due(k)) \in Int
      BY <1>1 DEF PartsType
    <2>2. SumFunction(Due(k))' = SumFunction(Due(k)) + DueOf(c, k) - DueOf(call[t], k)
      BY DueChanges
    <2>3. DueOf(c, k) \in Int /\ DueOf(call[t], k) \in Int
      BY DueType DEF Types, CallType
    <2>4. CASE k = m
      <3>1. g_alloc_size'[k] = Unsigned(g_alloc_size[k] + n)
        BY <2>4 DEF Types, DataType
      <3>2. Unsigned(g_alloc_size'[k]) = Unsigned(g_alloc_size[k] + n)
        <4>1. g_alloc_size[k] + n \in Int
          BY <2>1, SMT
        <4> QED
          BY <3>1, <4>1, UnsignedTwice
      <3> QED
        BY <1>2, <1>3, <2>1, <2>2, <2>3, <2>4, <3>2, SMT
    <2>5. CASE k # m
      <3>1. g_alloc_size'[k] = g_alloc_size[k]
        BY <2>5 DEF Types, DataType
      <3> QED
        BY <1>2, <1>3, <2>1, <2>2, <2>3, <2>5, <3>1, SMTT(30) DEF OnlyDueOf
    <2> QED
      BY <2>4, <2>5
  <1> QED
    BY <1>3, <1>4, ConservedKept

LEMMA MissType ==
  ASSUME DataType, NEW m \in Kind, NEW n \in Int, Miss(m, n)
  PROVE  /\ missed' \in [Kind -> Int] /\ failures' \in 0 .. MaxFailures
         /\ \A k \in Kind : missed'[k] = IF k = m THEN missed[k] + n ELSE missed[k]
  <1>1. MaxFailures \in Nat
    BY TierCountersAssumption
  <1>2. failures \in 0 .. MaxFailures /\ failures < MaxFailures /\ failures' = failures + 1
    BY DEF Miss, DataType
  <1>3. missed \in [Kind -> Int] /\ missed' = [missed EXCEPT ![m] = @ + n]
    BY DEF Miss, DataType
  <1>4. failures' \in 0 .. MaxFailures
    BY <1>1, <1>2, SMT
  <1> QED
    BY <1>3, <1>4, SMT

(* The records that the steps make of a call's.                            *)
WithPc(o, p) ==
  [o EXCEPT !.pc = p]

LEMMA WithPcType ==
  ASSUME NEW o \in CallRecord, NEW p \in Pc,
         NEW c, c = WithPc(o, p)
  PROVE  /\ c \in CallRecord
         /\ c.pc = p
         /\ c.kind = o.kind /\ c.size = o.size /\ c.up = o.up /\ c.new = o.new
         /\ c.acc = o.acc /\ c.i = o.i /\ c.quiet = o.quiet
  <1>1. c \in CallRecord
    BY DEF CallRecord, WithPc
  <1> QED
    BY <1>1 DEF CallRecord, WithPc

WithPcAcc(o, p, a) ==
  [o EXCEPT !.pc = p, !.acc = a]

LEMMA WithPcAccType ==
  ASSUME NEW o \in CallRecord, NEW p \in Pc, NEW a \in Int,
         NEW c, c = WithPcAcc(o, p, a)
  PROVE  /\ c \in CallRecord
         /\ c.pc = p /\ c.acc = a
         /\ c.kind = o.kind /\ c.size = o.size /\ c.up = o.up /\ c.new = o.new
         /\ c.i = o.i /\ c.quiet = o.quiet
  <1>1. c \in CallRecord
    BY DEF CallRecord, WithPcAcc
  <1> QED
    BY <1>1 DEF CallRecord, WithPcAcc

WithSize(o, p, s, a) ==
  [o EXCEPT !.pc = p, !.size = s, !.acc = a]

LEMMA WithSizeType ==
  ASSUME NEW o \in CallRecord, NEW p \in Pc, NEW s \in Size \cup {0}, NEW a \in Int,
         NEW c, c = WithSize(o, p, s, a)
  PROVE  /\ c \in CallRecord
         /\ c.pc = p /\ c.size = s /\ c.acc = a
         /\ c.kind = o.kind /\ c.up = o.up /\ c.new = o.new /\ c.i = o.i
         /\ c.quiet = o.quiet
  <1>1. c \in CallRecord
    BY DEF CallRecord, WithSize
  <1> QED
    BY <1>1 DEF CallRecord, WithSize

WithNew(o, p, s, n) ==
  [o EXCEPT !.pc = p, !.up = TRUE, !.size = s, !.new = n]

LEMMA WithNewType ==
  ASSUME NEW o \in CallRecord, NEW p \in Pc, NEW s \in Size \cup {0}, NEW n \in Size \cup {0},
         NEW c, c = WithNew(o, p, s, n)
  PROVE  /\ c \in CallRecord
         /\ c.pc = p /\ c.up /\ c.size = s /\ c.new = n
         /\ c.kind = o.kind /\ c.acc = o.acc /\ c.i = o.i /\ c.quiet = o.quiet
  <1>1. c \in CallRecord
    BY DEF CallRecord, WithNew
  <1> QED
    BY <1>1 DEF CallRecord, WithNew

WithKind(o, k, p, j) ==
  [o EXCEPT !.kind = k, !.pc = p, !.i = j]

LEMMA WithKindType ==
  ASSUME NEW o \in CallRecord, NEW k \in Kind, NEW p \in Pc, NEW j \in Nat,
         NEW c, c = WithKind(o, k, p, j)
  PROVE  /\ c \in CallRecord
         /\ c.kind = k /\ c.pc = p /\ c.i = j
         /\ c.size = o.size /\ c.up = o.up /\ c.new = o.new /\ c.acc = o.acc
         /\ c.quiet = o.quiet
  <1>1. c \in CallRecord
    BY DEF CallRecord, WithKind
  <1> QED
    BY <1>1 DEF CallRecord, WithKind

WithAcc(o, a, j, p) ==
  [o EXCEPT !.acc = a, !.i = j, !.pc = p]

LEMMA WithAccType ==
  ASSUME NEW o \in CallRecord, NEW a \in Int, NEW j \in Nat, NEW p \in Pc,
         NEW c, c = WithAcc(o, a, j, p)
  PROVE  /\ c \in CallRecord
         /\ c.acc = a /\ c.i = j /\ c.pc = p
         /\ c.kind = o.kind /\ c.size = o.size /\ c.up = o.up /\ c.new = o.new
         /\ c.quiet = o.quiet
  <1>1. c \in CallRecord
    BY DEF CallRecord, WithAcc
  <1> QED
    BY <1>1 DEF CallRecord, WithAcc

(* The beginnings of calls: nothing is due before or after, but for a      *)
(* block that is given up.                                                 *)
LEMMA BeginStep ==
  ASSUME Types, Conserved, NEW t \in Thread, Begin(t), UNCHANGED << failures, missed >>
  PROVE  Types' /\ Conserved'
  <1>0. call[t] \in CallRecord /\ Complete(call[t])
    BY DEF Types, CallType
  <1>1. ASSUME call[t].pc = "idle"
        PROVE  \A k \in Kind : DueOf(call[t], k) = 0
    BY <1>1, SMTT(30) DEF DueOf
  <1>2. CASE \E s \in Size : ChooseBegin(t, s)
    <2>1. PICK s \in Size : ChooseBegin(t, s)
      BY <1>2
    <2> DEFINE c == [NoCall EXCEPT !.pc = IF Len(Tiers) = 1 THEN "chosen" ELSE "choosing",
                              !.size = s, !.acc = g_alloc_size[Tiers[1]], !.i = 2,
                              !.quiet = Undisturbed(t)]
    <2>2. g_alloc_size[Tiers[1]] \in Int
      BY Sets, Words, SMT DEF Types, DataType
    <2>3. c \in CallRecord
      BY <2>2, NoCallType DEF CallRecord, Pc, Undisturbed
    <2>4. /\ c.pc = IF Len(Tiers) = 1 THEN "chosen" ELSE "choosing"
          /\ c.size = s /\ c.i = 2 /\ c.up = TRUE /\ c.new = 0
      BY DEF NoCall
    <2>5. call[t].pc = "idle" /\ Begins(t, c)
          /\ UNCHANGED << t_alloc_size, g_alloc_size, blocks >>
      BY <2>1 DEF ChooseBegin
    <2> HIDE DEF c
    <2>6. Complete(c)
      <3>1. Len(Tiers) \in Nat \ {0}
        BY Sets
      <3>2. CASE Len(Tiers) = 1
        BY <2>4, <3>2 DEF Complete
      <3>3. CASE Len(Tiers) # 1
        <4>1. c.pc = "choosing"
          BY <2>4, <3>3
        <4>2. 2 \in 2 .. Len(Tiers)
          BY <3>1, <3>3, SMT
        <4> QED
          BY <2>4, <4>1, <4>2 DEF Complete
      <3> QED
        BY <3>2, <3>3
    <2>7. Moves(t, c)
      BY <2>3, <2>5, BeginsMoves DEF Types
    <2>8. \A k \in Kind : DueOf(c, k) = DueOf(call[t], k)
      BY <1>1, <2>4, <2>5 DEF DueOf
    <2> QED
      BY <2>3, <2>5, <2>6, <2>7, <2>8, NeutralStep
  <1>3. CASE \E k \in Kind, s \in Size : KindMallocBegin(t, k, s)
    <2>1. PICK m \in Kind, s \in Size : KindMallocBegin(t, m, s)
      BY <1>3
    <2> DEFINE c == [NoCall EXCEPT !.pc = "chosen", !.kind = m, !.size = s]
    <2>2. c \in CallRecord
      BY NoCallType DEF CallRecord, Pc
    <2>3. c.pc = "chosen" /\ c.size = s /\ c.up = TRUE /\ c.new = 0
      BY DEF NoCall
    <2>4. call[t].pc = "idle" /\ Begins(t, c)
          /\ UNCHANGED << t_alloc_size, g_alloc_size, blocks >>
      BY <2>1 DEF KindMallocBegin
    <2> HIDE DEF c
    <2>5. Complete(c)
      BY <2>3 DEF Complete
    <2>6. Moves(t, c)
      BY <2>2, <2>4, BeginsMoves DEF Types
    <2>7. \A k \in Kind : DueOf(c, k) = DueOf(call[t], k)
      BY <1>1, <2>3, <2>4 DEF DueOf
    <2> QED
      BY <2>2, <2>4, <2>5, <2>6, <2>7, NeutralStep
  <1>4. CASE \E k \in Kind, s \in Size, new \in Size \cup {0} : FreeBegin(t, k, s, new)
    <2>1. PICK m \in Kind, s \in Size, new \in Size \cup {0} : FreeBegin(t, m, s, new)
      BY <1>4
    <2> DEFINE c == [NoCall EXCEPT !.pc = "counting", !.kind = m, !.size = s,
                                   !.up = FALSE, !.new = new]
    <2>2. c \in CallRecord
      BY NoCallType DEF CallRecord, Pc
    <2>3. c.pc = "counting" /\ c.kind = m /\ c.size = s /\ c.up = FALSE /\ c.new = new
      BY DEF NoCall
    <2>4. /\ call[t].pc = "idle" /\ Begins(t, c)
          /\ blocks[m][s] > 0 /\ blocks' = [blocks EXCEPT ![m][s] = @ - 1]
          /\ UNCHANGED << t_alloc_size, g_alloc_size >>
      BY <2>1 DEF FreeBegin
    <2> HIDE DEF c
    <2>5. Complete(c)
      BY <2>3 DEF Complete
    <2>6. Moves(t, c)
      BY <2>2, <2>4, BeginsMoves DEF Types
    <2>7. blocks[m][s] \in Nat /\ blocks[m][s] - 1 \in Nat /\ s \in Nat
          /\ blocks' = [blocks EXCEPT ![m][s] = blocks[m][s] - 1]
      BY <2>4, Sets, SMTT(30) DEF Types, DataType
    <2>8. /\ blocks' \in [Kind -> [Size -> Nat]]
          /\ \A k \in Kind : Live(k)' = IF k = m
               THEN Live(k) + s * (blocks[m][s] - 1) - s * blocks[m][s] ELSE Live(k)
      BY <2>7, BlocksChange DEF Types
    <2>9. \A k \in Kind : Live(k)' = IF k = c.kind THEN Live(k) + (-s) ELSE Live(k)
      <3>1. s * (blocks[m][s] - 1) - s * blocks[m][s] = -s
        BY <2>7, OneBlock, SMT
      <3>2. s * (blocks[m][s] - 1) \in Int /\ s * blocks[m][s] \in Int
        BY <2>7, SMT
      <3>3. \A k \in Kind : Live(k) \in Int
        BY PartsInt DEF PartsType
      <3> QED
        BY <2>3, <2>7, <2>8, <3>1, <3>2, <3>3
    <2>10. Types'
      BY <2>2, <2>4, <2>5, <2>6, <2>8, MovesType DEF Types, DataType
    <2>11. OnlyDueOf(t, c, c.kind)
      BY <1>1, <2>2, <2>4, SameKindDue DEF Types
    <2>12. DueOf(c, c.kind) - DueOf(call[t], c.kind) = -s + 0
      BY <1>1, <2>3, <2>4, <2>7, SMTT(30) DEF DueOf
    <2>13. \A k \in Kind : missed'[k] = IF k = c.kind THEN missed[k] + 0 ELSE missed[k]
      BY SMT DEF Types, DataType
    <2>14. -s \in Int
      BY <2>7, SMT
    <2> QED
      BY <2>2, <2>4, <2>6, <2>9, <2>10, <2>11, <2>12, <2>13, <2>14, BlockStep, SMTT(30)
  <1>5. CASE \E k \in Kind : FreeNull(t, k)
    <2>1. PICK m \in Kind : FreeNull(t, m)
      BY <1>5
    <2> DEFINE c == [NoCall EXCEPT !.pc = "counting", !.kind = m, !.up = FALSE]
    <2>2. c \in CallRecord
      BY NoCallType DEF CallRecord, Pc
    <2>3. c.pc = "counting" /\ c.size = 0 /\ c.up = FALSE /\ c.new = 0
      BY DEF NoCall
    <2>4. call[t].pc = "idle" /\ Begins(t, c)
          /\ UNCHANGED << t_alloc_size, g_alloc_size, blocks >>
      BY <2>1 DEF FreeNull
    <2> HIDE DEF c
    <2>5. Complete(c)
      BY <2>3, SMT DEF Complete
    <2>6. Moves(t, c)
      BY <2>2, <2>4, BeginsMoves DEF Types
    <2>7. \A k \in Kind : DueOf(c, k) = 0
      <3>1. c.pc \notin {"adding", "gathering", "reporting"} /\ ~c.up
            /\ c.size \in Int /\ c.size <= 0 /\ c.size >= 0
        BY <2>3, SMT
      <3>2. -c.size = 0
        BY <3>1, MinusZero
      <3> QED
        BY <3>1, <3>2, SMT DEF DueOf
    <2>8. \A k \in Kind : DueOf(c, k) = DueOf(call[t], k)
      BY <1>1, <2>4, <2>7
    <2> QED
      BY <2>2, <2>4, <2>5, <2>6, <2>8, NeutralStep
  <1>6. CASE \E k \in Kind : ReportBegin(t, k)
    <2>1. PICK m \in Kind : ReportBegin(t, m)
      BY <1>6
    <2> DEFINE c == [NoCall EXCEPT !.pc = "gathering", !.kind = m, !.quiet = Undisturbed(t)]
    <2>2. c \in CallRecord
      BY NoCallType DEF CallRecord, Pc, Undisturbed
    <2>3. c.pc = "gathering" /\ c.acc = 0 /\ c.i = 0 /\ c.up = TRUE
      BY DEF NoCall
    <2>4. call[t].pc = "idle" /\ Begins(t, c)
          /\ UNCHANGED << t_alloc_size, g_alloc_size, blocks >>
      BY <2>1 DEF ReportBegin
    <2> HIDE DEF c
    <2>5. Complete(c)
      BY <2>3, Sets, SMTT(30) DEF Complete, Bucket
    <2>6. Moves(t, c)
      BY <2>2, <2>4, BeginsMoves DEF Types
    <2>7. \A k \in Kind : DueOf(c, k) = DueOf(call[t], k)
      BY <1>1, <2>3, <2>4 DEF DueOf
    <2> QED
      BY <2>2, <2>4, <2>5, <2>6, <2>7, NeutralStep
  <1> QED
    BY <1>2, <1>3, <1>4, <1>5, <1>6 DEF Begin

(* The steps in the middle of a call.                                      *)
LEMMA ChooseNextStep ==
  ASSUME Types, Conserved, NEW t \in Thread, ChooseNext(t), UNCHANGED << failures, missed >>
  PROVE  Types' /\ Conserved'
  <1> DEFINE o == call[t]
             below == g_alloc_size[Tiers[o.i]] * Ratio[1] < o.acc * Ratio[o.i]
             c == [o EXCEPT !.kind = IF below THEN Tiers[o.i] ELSE @,
                            !.pc = IF o.i = Len(Tiers) THEN "chosen" ELSE @, !.i = @ + 1]
  <1>1. o \in CallRecord /\ Complete(o) /\ o.pc = "choosing"
    BY DEF Types, CallType, ChooseNext
  <1>2. o.i \in 2 .. Len(Tiers) /\ o.up /\ o.size \in Size
    BY <1>1 DEF Complete
  <1>3. o.i \in Nat /\ Tiers[o.i] \in Kind /\ Len(Tiers) \in Nat
    BY <1>2, Sets, SMTT(30)
  <1>4. Continues(t, c) /\ UNCHANGED << t_alloc_size, g_alloc_size, blocks >>
    BY DEF ChooseNext
  <1> HIDE DEF below
  <1>5. c \in CallRecord /\ c.pc \in {"choosing", "chosen"} /\ c.i = o.i + 1
        /\ c.up = o.up /\ c.size = o.size /\ (c.pc = "choosing" => o.i # Len(Tiers))
    <2> DEFINE k == IF below THEN Tiers[o.i] ELSE o.kind
               p == IF o.i = Len(Tiers) THEN "chosen" ELSE o.pc
               j == o.i + 1
    <2>1. k \in Kind /\ j \in Nat
      BY <1>1, <1>3, Fields, SMTT(30)
    <2>2. p \in Pc /\ p \in {"choosing", "chosen"} /\ (p = "choosing" => o.i # Len(Tiers))
      BY <1>1 DEF Pc
    <2>3. c = WithKind(o, k, p, j)
      BY <1>1 DEF CallRecord, WithKind
    <2> HIDE DEF k, p, j, c, o
    <2>4. c \in CallRecord /\ c.pc = p /\ c.i = j /\ c.up = o.up /\ c.size = o.size
      BY <1>1, <2>1, <2>2, <2>3, WithKindType, SMTT(30)
    <2> QED
      BY <2>2, <2>4 DEF j
  <1> HIDE DEF c, o
  <1>6. Complete(c)
    <2>1. c.pc = "choosing" => c.i \in 2 .. Len(Tiers)
      BY <1>2, <1>3, <1>5, SMT
    <2> QED
      BY <1>2, <1>5, <2>1 DEF Complete
  <1>7. Moves(t, c)
    BY <1>4, <1>5, ContinuesMoves DEF Types
  <1>8. \A k \in Kind : DueOf(c, k) = DueOf(o, k)
    BY <1>1, <1>5 DEF DueOf
  <1> QED
    BY <1>4, <1>5, <1>6, <1>7, <1>8, NeutralStep DEF o

LEMMA KindMallocStep ==
  ASSUME Types, Conserved, NEW t \in Thread, KindMalloc(t), UNCHANGED << failures, missed >>
  PROVE  Types' /\ Conserved'
  <1> DEFINE o == call[t]
  <1>1. o \in CallRecord /\ Complete(o) /\ o.pc = "chosen"
    BY DEF Types, CallType, KindMalloc
  <1>2. o.up /\ o.size \in Size /\ o.kind \in Kind /\ o.size \in Nat
    BY <1>1, Fields DEF Complete
  <1>3. \A k \in Kind : DueOf(o, k) = 0
    BY <1>1, SMT DEF DueOf
  <1>4. CASE /\ blocks' = [blocks EXCEPT ![o.kind][o.size] = @ + 1]
             /\ Continues(t, [o EXCEPT !.pc = "counting", !.acc = 0])
    <2> DEFINE c == [o EXCEPT !.pc = "counting", !.acc = 0]
    <2>1. c \in CallRecord /\ c.pc = "counting" /\ c.kind = o.kind /\ c.size = o.size
          /\ c.up = o.up /\ c.new = o.new
      <3>1. c = WithPcAcc(o, "counting", 0)
        BY DEF WithPcAcc
      <3>2. "counting" \in Pc /\ 0 \in Int
        BY SMT DEF Pc
      <3> HIDE DEF c, o
      <3> QED
        BY <1>1, <3>1, <3>2, WithPcAccType, SMT
    <2>2. Continues(t, c) /\ UNCHANGED << t_alloc_size, g_alloc_size >>
      BY <1>4 DEF KindMalloc
    <2> HIDE DEF c
    <2>3. Complete(c)
      BY <1>2, <2>1 DEF Complete
    <2>4. Moves(t, c)
      BY <2>1, <2>2, ContinuesMoves DEF Types
    <2> DEFINE m == o.kind
               s == o.size
               n == blocks[m][s]
    <2>5. m \in Kind /\ s \in Size /\ s \in Nat
      BY <1>2
    <2>6. n \in Nat /\ blocks' = [blocks EXCEPT ![m][s] = n + 1]
      BY <1>4, <2>5 DEF Types, DataType
    <2> HIDE DEF m, s
    <2>7. /\ blocks' \in [Kind -> [Size -> Nat]]
          /\ \A k \in Kind : Live(k)' = IF k = m THEN Live(k) + s * (n + 1) - s * n ELSE Live(k)
      <3>1. n + 1 \in Nat
        BY <2>6, SMT
      <3> QED
        BY <2>5, <2>6, <3>1, BlocksChange DEF Types
    <2> HIDE DEF n
    <2>8. \A k \in Kind : Live(k)' = IF k = m THEN Live(k) + s ELSE Live(k)
      <3>1. s * (n + 1) - s * n = s /\ s * (n + 1) \in Int /\ s * n \in Int
        BY <2>5, <2>6, OneBlock, SMTT(30)
      <3>2. \A k \in Kind : Live(k) \in Int
        BY PartsInt DEF PartsType
      <3> QED
        BY <2>5, <2>7, <3>1, <3>2
    <2>9. Types'
      BY <2>1, <2>2, <2>3, <2>4, <2>7, MovesType DEF Types, DataType
    <2>10. OnlyDueOf(t, c, c.kind)
      BY <1>3, <2>1, SameKindDue DEF Types
    <2> DEFINE z == 0
    <2>11. DueOf(c, c.kind) - DueOf(call[t], c.kind) = s + z /\ s \in Int /\ z \in Int
      BY <1>2, <1>3, <2>1, <2>5, SMT DEF DueOf, s
    <2>12. \A k \in Kind : missed'[k] = IF k = c.kind THEN missed[k] + z ELSE missed[k]
      BY SMT DEF Types, DataType
    <2>13. \A k \in Kind : Live(k)' = IF k = c.kind THEN Live(k) + s ELSE Live(k)
      BY <2>1, <2>8 DEF m
    <2> HIDE DEF o, z
    <2> QED
      BY <2>1, <2>2, <2>4, <2>5, <2>9, <2>10, <2>11, <2>12, <2>13, BlockStep
  <1>5. CASE /\ UNCHANGED blocks
             /\ Continues(t, [o EXCEPT !.pc = "counting", !.size = 0, !.acc = 0])
    <2> DEFINE c == [o EXCEPT !.pc = "counting", !.size = 0, !.acc = 0]
    <2>1. c \in CallRecord /\ c.pc = "counting" /\ c.size = 0 /\ c.up = o.up
      <3>1. c = WithSize(o, "counting", 0, 0)
        BY DEF WithSize
      <3>2. "counting" \in Pc /\ 0 \in Size \cup {0} /\ 0 \in Int
        BY SMT DEF Pc
      <3> HIDE DEF c, o
      <3> QED
        BY <1>1, <3>1, <3>2, WithSizeType, SMT
    <2>2. Continues(t, c) /\ UNCHANGED << t_alloc_size, g_alloc_size >>
      BY <1>5 DEF KindMalloc
    <2> HIDE DEF c
    <2>3. Complete(c)
      BY <1>2, <2>1 DEF Complete
    <2>4. Moves(t, c)
      BY <2>1, <2>2, ContinuesMoves DEF Types
    <2>5. \A k \in Kind : DueOf(c, k) = DueOf(call[t], k)
      BY <1>2, <1>3, <2>1, SMTT(30) DEF DueOf
    <2> QED
      BY <1>5, <2>1, <2>2, <2>3, <2>4, <2>5, NeutralStep
  <1> QED
    BY <1>4, <1>5 DEF KindMalloc

LEMMA MemalignErrorStep ==
  ASSUME Types, Conserved, NEW t \in Thread, MemalignError(t)
  PROVE  Types' /\ Conserved'
  <1> DEFINE o == call[t]
  <1>1. o \in CallRecord /\ Complete(o) /\ o.pc = "chosen"
    BY DEF Types, CallType, MemalignError
  <1>2. o.up /\ o.kind \in Kind
    BY <1>1, Fields DEF Complete
  <1>3. \A k \in Kind : DueOf(o, k) = 0
    BY <1>1, SMT DEF DueOf
  <1>4. PICK s \in Size : /\ Continues(t, [o EXCEPT !.pc = "counting", !.size = s, !.acc = 0])
                          /\ Miss(o.kind, s)
    BY DEF MemalignError
  <1> DEFINE c == [o EXCEPT !.pc = "counting", !.size = s, !.acc = 0]
  <1>5. c \in CallRecord /\ c.pc = "counting" /\ c.kind = o.kind /\ c.size = s /\ c.up = o.up
    <2>1. c = WithSize(o, "counting", s, 0)
      BY DEF WithSize
    <2>2. "counting" \in Pc /\ s \in Size \cup {0} /\ 0 \in Int
      BY SMT DEF Pc
    <2> HIDE DEF c, o
    <2> QED
      BY <1>1, <2>1, <2>2, WithSizeType, SMT
  <1>6. Continues(t, c) /\ UNCHANGED << t_alloc_size, g_alloc_size, blocks >>
    BY <1>4 DEF MemalignError
  <1>7. s \in Int
    BY Sets, SMT
  <1> HIDE DEF c
  <1>8. Complete(c)
    BY <1>2, <1>5 DEF Complete
  <1>9. Moves(t, c)
    BY <1>5, <1>6, ContinuesMoves DEF Types
  <1>10. /\ missed' \in [Kind -> Int] /\ failures' \in 0 .. MaxFailures
         /\ \A k \in Kind : missed'[k] = IF k = c.kind THEN missed[k] + s ELSE missed[k]
    BY <1>2, <1>4, <1>5, <1>7, MissType, SMTT(30) DEF Types
  <1>11. Types'
    BY <1>5, <1>6, <1>8, <1>9, <1>10, MovesType DEF Types, DataType
  <1>12. OnlyDueOf(t, c, c.kind)
    BY <1>3, <1>5, SameKindDue DEF Types
  <1>13. DueOf(c, c.kind) - DueOf(call[t], c.kind) = 0 + s
    BY <1>2, <1>3, <1>5, <1>7, SMTT(30) DEF DueOf
  <1>14. \A k \in Kind : Live(k)' = IF k = c.kind THEN Live(k) + 0 ELSE Live(k)
    <2>1. \A k \in Kind : Live(k) \in Int
      BY PartsInt DEF PartsType
    <2>2. \A k \in Kind : Live(k)' = Live(k)
      BY <1>6 DEF Live
    <2> QED
      BY <2>1, <2>2, SMT
  <1> QED
    BY <1>5, <1>6, <1>7, <1>9, <1>10, <1>11, <1>12, <1>13, <1>14, BlockStep, SMTT(30)

LEMMA KindReallocStep ==
  ASSUME Types, Conserved, NEW t \in Thread, KindRealloc(t)
  PROVE  Types' /\ Conserved'
  <1> DEFINE o == call[t]
             m == o.kind
  <1>1. o \in CallRecord /\ Complete(o) /\ o.pc = "reallocating"
    BY DEF Types, CallType, KindRealloc
  <1>2. o.kind \in Kind /\ o.new \in Size /\ o.size \in Size /\ o.size \in Nat /\ o.new \in Nat
    BY <1>1, Fields, SMT DEF Complete
  <1>3. \A k \in Kind : DueOf(o, k) = 0
    BY <1>1, SMT DEF DueOf
  <1>4. "counting" \in Pc /\ 0 \in Size \cup {0}
    BY DEF Pc
  <1>5. \A k \in Kind : Live(k) \in Int
    BY PartsInt DEF PartsType
  <1>6. CASE /\ blocks' = [blocks EXCEPT ![o.kind][o.new] = @ + 1]
             /\ Continues(t, [o EXCEPT !.pc = "counting", !.up = TRUE, !.size = o.new, !.new = 0])
             /\ UNCHANGED << failures, missed >>
    <2> DEFINE s == o.new
               n == blocks[m][s]
               c == WithNew(o, "counting", s, 0)
               z == 0
    <2>1. m \in Kind /\ s \in Size /\ s \in Nat
      BY <1>2
    <2>2. n \in Nat /\ blocks' = [blocks EXCEPT ![m][s] = n + 1]
      BY <1>6, <2>1 DEF Types, DataType
    <2>3. Continues(t, c) /\ UNCHANGED << t_alloc_size, g_alloc_size >>
      BY <1>6 DEF KindRealloc, WithNew
    <2>4. c \in CallRecord /\ c.pc = "counting" /\ c.kind = m /\ c.size = s /\ c.up /\ c.new = 0
      <3>1. c = WithNew(o, "counting", s, 0) /\ m = o.kind
        OBVIOUS
      <3>2. s \in Size \cup {0}
        BY <2>1
      <3> HIDE DEF o, c, m, s
      <3> QED
        BY <1>1, <1>4, <3>1, <3>2, WithNewType, SMTT(30)
    <2> HIDE DEF c, m, s
    <2>5. Complete(c)
      BY <2>4 DEF Complete
    <2>6. Moves(t, c)
      BY <2>3, <2>4, ContinuesMoves DEF Types
    <2>7. /\ blocks' \in [Kind -> [Size -> Nat]]
          /\ \A k \in Kind : Live(k)' = IF k = m THEN Live(k) + s * (n + 1) - s * n ELSE Live(k)
      <3>1. n + 1 \in Nat
        BY <2>2, SMTT(30)
      <3> QED
        BY <2>1, <2>2, <3>1, BlocksChange DEF Types
    <2> HIDE DEF n
    <2>8. \A k \in Kind : Live(k)' = IF k = c.kind THEN Live(k) + s ELSE Live(k)
      <3>1. s * (n + 1) - s * n = s /\ s * (n + 1) \in Int /\ s * n \in Int
        BY <2>1, <2>2, OneBlock, SMT
      <3> QED
        BY <1>5, <2>1, <2>4, <2>7, <3>1
    <2>9. Types'
      BY <1>6, <2>3, <2>4, <2>5, <2>6, <2>7, MovesType DEF Types, DataType
    <2>10. OnlyDueOf(t, c, c.kind)
      BY <1>3, <2>4, SameKindDue DEF Types
    <2>11. DueOf(c, c.kind) - DueOf(call[t], c.kind) = s + z /\ s \in Int /\ z \in Int
      BY <1>3, <2>1, <2>4, SMT DEF DueOf
    <2>12. \A k \in Kind : missed'[k] = IF k = c.kind THEN missed[k] + z ELSE missed[k]
      BY <1>6, SMTT(30) DEF Types, DataType
    <2> HIDE DEF o, z
    <2> QED
      BY <2>3, <2>4, <2>6, <2>8, <2>9, <2>10, <2>11, <2>12, BlockStep
  <1>7. CASE /\ Miss(o.kind, -o.size)
             /\ blocks' = [blocks EXCEPT ![o.kind][o.size] = @ + 1]
             /\ Continues(t, [o EXCEPT !.pc = "counting", !.up = TRUE, !.size = 0, !.new = 0])
    <2> DEFINE s == o.size
               n == blocks[m][s]
               c == WithNew(o, "counting", 0, 0)
    <2>1. m \in Kind /\ s \in Size /\ s \in Nat
      BY <1>2
    <2>2. n \in Nat /\ blocks' = [blocks EXCEPT ![m][s] = n + 1]
      BY <1>7, <2>1 DEF Types, DataType
    <2>3. Continues(t, c) /\ UNCHANGED << t_alloc_size, g_alloc_size >> /\ Miss(m, -s)
      BY <1>7 DEF KindRealloc, WithNew
    <2>4. c \in CallRecord /\ c.pc = "counting" /\ c.kind = m /\ c.size = 0 /\ c.up /\ c.new = 0
      <3>1. c = WithNew(o, "counting", 0, 0) /\ m = o.kind
        OBVIOUS
      <3>2. 0 \in Size \cup {0}
        BY <2>1
      <3> HIDE DEF o, c, m, s
      <3> QED
        BY <1>1, <1>4, <3>1, <3>2, WithNewType, SMTT(30)
    <2> HIDE DEF c, m, s
    <2>5. Complete(c)
      BY <2>4 DEF Complete
    <2>6. Moves(t, c)
      BY <2>3, <2>4, ContinuesMoves DEF Types
    <2>7. /\ blocks' \in [Kind -> [Size -> Nat]]
          /\ \A k \in Kind : Live(k)' = IF k = m THEN Live(k) + s * (n + 1) - s * n ELSE Live(k)
      <3>1. n + 1 \in Nat
        BY <2>2, SMT
      <3> QED
        BY <2>1, <2>2, <3>1, BlocksChange DEF Types
    <2> HIDE DEF n
    <2>8. \A k \in Kind : Live(k)' = IF k = c.kind THEN Live(k) + s ELSE Live(k)
      <3>1. s * (n + 1) - s * n = s /\ s * (n + 1) \in Int /\ s * n \in Int
        BY <2>1, <2>2, OneBlock, SMT
      <3> QED
        BY <1>5, <2>1, <2>4, <2>7, <3>1
    <2> DEFINE y == -s
    <2>9. s \in Int /\ y \in Int /\ s + y = 0 /\ Miss(m, y)
      BY <2>1, <2>3, SMTT(30)
    <2> HIDE DEF y
    <2>10. /\ missed' \in [Kind -> Int] /\ failures' \in 0 .. MaxFailures
           /\ \A k \in Kind : missed'[k] = IF k = c.kind THEN missed[k] + y ELSE missed[k]
      BY <2>1, <2>4, <2>9, MissType DEF Types
    <2>11. Types'
      BY <2>3, <2>4, <2>5, <2>6, <2>7, <2>10, MovesType DEF Types, DataType
    <2>12. OnlyDueOf(t, c, c.kind)
      BY <1>3, <2>4, SameKindDue DEF Types
    <2>13. DueOf(c, c.kind) - DueOf(call[t], c.kind) = s + y
      BY <1>3, <2>1, <2>4, <2>9, SMT DEF DueOf
    <2> HIDE DEF o
    <2> QED
      BY <2>3, <2>4, <2>6, <2>8, <2>9, <2>10, <2>11, <2>12, <2>13, BlockStep
  <1> QED
    BY <1>6, <1>7 DEF KindRealloc

(* What follows the count has nothing due.                                 *)
LEMMA AfterType ==
  ASSUME NEW o \in CallRecord, Complete(o), o.pc \in {"counting", "taking", "adding"}
  PROVE  After(o) \in CallRecord /\ Complete(After(o)) /\ \A k \in Kind : DueOf(After(o), k) = 0
  <1>1. CASE ~o.up /\ o.new > 0
    <2> DEFINE c == WithPcAcc(o, "reallocating", 0)
    <2>1. After(o) = c
      BY <1>1 DEF After, WithPcAcc
    <2>2. "reallocating" \in Pc /\ 0 \in Int
      BY SMTT(30) DEF Pc
    <2>3. c \in CallRecord /\ c.pc = "reallocating" /\ c.up = o.up /\ c.new = o.new
          /\ c.size = o.size
      BY <2>2, WithPcAccType, SMTT(30)
    <2> HIDE DEF c
    <2>4. Complete(c) /\ \A k \in Kind : DueOf(c, k) = 0
      BY <1>1, <2>3, SMT DEF Complete, DueOf
    <2> QED
      BY <2>1, <2>3, <2>4
  <1>2. CASE ~(~o.up /\ o.new > 0)
    <2>1. After(o) = NoCall
      BY <1>2 DEF After
    <2>2. \A k \in Kind : DueOf(NoCall, k) = 0
      BY SMT DEF DueOf, NoCall
    <2> QED
      BY <2>1, <2>2, NoCallType
  <1> QED
    BY <1>1, <1>2
(* Count moves the size from what the thread still has to count to its     *)
(* bucket.                                                                 *)
LEMMA CountStep ==
  ASSUME Types, Conserved, NEW t \in Thread, Count(t), UNCHANGED << failures, missed >>
  PROVE  Types' /\ Conserved'
  <1> DEFINE o == call[t]
             m == o.kind
             b == BucketOf[t]
             n == IF o.up THEN t_alloc_size[m][b] + o.size ELSE t_alloc_size[m][b] - o.size
             flush == IF o.up THEN Unsigned(n) > FLUSH_THRESHOLD
                              ELSE Unsigned(n) < Unsigned(-FLUSH_THRESHOLD)
             c == IF flush THEN WithPc(o, "taking") ELSE After(o)
  <1>1. o \in CallRecord /\ Complete(o) /\ o.pc = "counting"
    BY DEF Types, CallType, Count
  <1>2. m \in Kind /\ b \in Bucket /\ o.size \in Int /\ o.up \in BOOLEAN
    BY <1>1, Fields, Sets, SMTT(30)
  <1>3. t_alloc_size[m][b] \in Int
    BY <1>2 DEF Types, DataType
  <1>4. /\ t_alloc_size' = [t_alloc_size EXCEPT ![m][b] = n]
        /\ Continues(t, c)
        /\ UNCHANGED << g_alloc_size, blocks >>
    BY DEF Count, WithPc
  <1>5. c \in CallRecord /\ Complete(c) /\ \A k \in Kind : DueOf(c, k) = 0
    <2> DEFINE w == WithPc(o, "taking")
    <2>1. w \in CallRecord /\ w.pc = "taking" /\ w.up = o.up /\ w.new = o.new /\ w.size = o.size
      <3>1. w = WithPc(o, "taking") /\ "taking" \in Pc
        BY DEF Pc
      <3> HIDE DEF w, o
      <3> QED
        BY <1>1, <3>1, WithPcType, SMT
    <2> HIDE DEF w, o
    <2>2. Complete(w) /\ \A k \in Kind : DueOf(w, k) = 0
      BY <1>1, <2>1, SMTT(30) DEF Complete, DueOf
    <2>3. After(o) \in CallRecord /\ Complete(After(o)) /\ \A k \in Kind : DueOf(After(o), k) = 0
      BY <1>1, AfterType
    <2>4. c = w \/ c = After(o)
      BY DEF w
    <2> HIDE DEF c
    <2> QED
      BY <2>1, <2>2, <2>3, <2>4
  <1> HIDE DEF c
  <1>6. n \in Int
    BY <1>2, <1>3, SMTT(30)
  <1>7. DueOf(o, m) = n - t_alloc_size[m][b]
    <2>1. CASE o.up
      BY <1>1, <1>2, <1>3, <2>1, SMT DEF DueOf
    <2>2. CASE ~o.up
      BY <1>1, <1>2, <1>3, <2>2, SMTT(30) DEF DueOf
    <2> QED
      BY <2>1, <2>2
  <1>8. Moves(t, c)
    BY <1>4, <1>5, ContinuesMoves DEF Types
  <1> HIDE DEF n
  <1>9. t_alloc_size' \in [Kind -> [Bucket -> Int]]
    BY <1>2, <1>4, <1>6, BucketChanges DEF Types
  <1>10. Types'
    BY <1>4, <1>5, <1>8, <1>9, MovesType DEF Types, DataType
  <1>11. OnlyDueOf(t, c, m)
    BY <1>1, <1>5, DueOfOther DEF OnlyDueOf
  <1>12. DueOf(c, m) - DueOf(call[t], m) = t_alloc_size[m][b] - n
    BY <1>2, <1>3, <1>5, <1>6, <1>7, SMT
  <1> HIDE DEF o, m, b
  <1> QED
    BY <1>2, <1>4, <1>5, <1>6, <1>8, <1>10, <1>11, <1>12, BucketStep

(* Take moves the bucket to the hands of the thread.                       *)
LEMMA TakeStep ==
  ASSUME Types, Conserved, NEW t \in Thread, Take(t), UNCHANGED << failures, missed >>
  PROVE  Types' /\ Conserved'
  <1> DEFINE o == call[t]
             m == o.kind
             b == BucketOf[t]
             a == t_alloc_size[m][b]
             c == WithPcAcc(o, "adding", a)
             z == 0
  <1>1. o \in CallRecord /\ Complete(o) /\ o.pc = "taking"
    BY DEF Types, CallType, Take
  <1>2. m \in Kind /\ b \in Bucket
    BY <1>1, Fields, Sets
  <1>3. a \in Int /\ z \in Int
    BY <1>2, SMTT(30) DEF Types, DataType
  <1>4. /\ t_alloc_size' = [t_alloc_size EXCEPT ![m][b] = z]
        /\ Continues(t, c)
        /\ UNCHANGED << g_alloc_size, blocks >>
    BY DEF Take, WithPcAcc
  <1>5. c \in CallRecord /\ c.pc = "adding" /\ c.acc = a /\ c.kind = m
        /\ c.up = o.up /\ c.new = o.new /\ c.size = o.size
    <2>1. c = WithPcAcc(o, "adding", a) /\ "adding" \in Pc /\ m = o.kind
      BY DEF Pc
    <2> HIDE DEF c, o, a, m
    <2> QED
      BY <1>1, <1>3, <2>1, WithPcAccType, SMT
  <1> HIDE DEF c
  <1>6. Complete(c)
    BY <1>1, <1>5 DEF Complete
  <1>7. Moves(t, c)
    BY <1>4, <1>5, ContinuesMoves DEF Types
  <1> HIDE DEF z
  <1>8. t_alloc_size' \in [Kind -> [Bucket -> Int]]
    BY <1>2, <1>3, <1>4, BucketChanges DEF Types
  <1>9. Types'
    BY <1>4, <1>5, <1>6, <1>7, <1>8, MovesType DEF Types, DataType
  <1>10. OnlyDueOf(t, c, m)
    BY <1>1, <1>5, DueOfOther DEF OnlyDueOf
  <1>11. DueOf(c, m) = a /\ DueOf(o, m) = 0
    <2> HIDE DEF a, b
    <2> QED
      BY <1>1, <1>3, <1>5, SMTT(30) DEF DueOf
  <1>12. DueOf(c, m) - DueOf(call[t], m) = t_alloc_size[m][b] - z
    BY <1>3, <1>11 DEF z
  <1> HIDE DEF o, m, b
  <1> QED
    BY <1>2, <1>3, <1>4, <1>5, <1>7, <1>9, <1>10, <1>12, BucketStep

LEMMA GlobalType ==
  ASSUME Types, NEW m \in Kind, NEW n \in Int,
         g_alloc_size' = [g_alloc_size EXCEPT ![m] = Unsigned(@ + n)]
  PROVE  g_alloc_size' \in [Kind -> 0 .. Word - 1]
  <1> DEFINE x == g_alloc_size[m] + n
             y == Unsigned(x)
  <1>1. x \in Int
    BY Words, SMT DEF Types, DataType
  <1>2. y \in 0 .. Word - 1
    <2> HIDE DEF x
    <2> QED
      BY <1>1, UnsignedDivides
  <1>3. g_alloc_size' = [g_alloc_size EXCEPT ![m] = y]
    OBVIOUS
  <1> HIDE DEF y
  <1> QED
    BY <1>2, <1>3 DEF Types, DataType

(* Add moves what the thread has in its hands to the global counter.       *)
LEMMA AddStep ==
  ASSUME Types, Conserved, NEW t \in Thread, Add(t), UNCHANGED << failures, missed >>
  PROVE  Types' /\ Conserved'
  <1> DEFINE o == call[t]
             m == o.kind
             n == o.acc
             c == After(o)
  <1>1. o \in CallRecord /\ Complete(o) /\ o.pc = "adding"
    BY DEF Types, CallType, Add
  <1>2. m \in Kind /\ n \in Int
    BY <1>1, Fields
  <1>3. /\ g_alloc_size' = [g_alloc_size EXCEPT ![m] = Unsigned(@ + n)]
        /\ Continues(t, c)
        /\ UNCHANGED << t_alloc_size, blocks >>
    BY DEF Add
  <1>4. c \in CallRecord /\ Complete(c) /\ \A k \in Kind : DueOf(c, k) = 0
    <2> HIDE DEF o
    <2> QED
      BY <1>1, AfterType
  <1>5. DueOf(o, m) = n
    BY <1>1, <1>2, SMT DEF DueOf
  <1> HIDE DEF c
  <1>6. Moves(t, c)
    BY <1>3, <1>4, ContinuesMoves DEF Types
  <1>7. g_alloc_size' \in [Kind -> 0 .. Word - 1]
    BY <1>2, <1>3, GlobalType
  <1>8. Types'
    BY <1>3, <1>4, <1>6, <1>7, MovesType DEF Types, DataType
  <1>9. OnlyDueOf(t, c, m)
    BY <1>1, <1>4, DueOfOther DEF OnlyDueOf
  <1>10. DueOf(c, m) - DueOf(call[t], m) = -n
    BY <1>2, <1>4, <1>5, SMTT(30)
  <1> HIDE DEF o, m, n
  <1> QED
    BY <1>2, <1>3, <1>4, <1>6, <1>8, <1>9, <1>10, GlobalStep

(* Gather moves a bucket to the hands of the reporting thread.             *)
LEMMA GatherStep ==
  ASSUME Types, Conserved, NEW t \in Thread, Gather(t), UNCHANGED << failures, missed >>
  PROVE  Types' /\ Conserved'
  <1> DEFINE o == call[t]
             m == o.kind
             b == o.i
             a == o.acc + t_alloc_size[m][b]
             j == b + 1
             p == IF b = THREAD_BUCKETS - 1 THEN "reporting" ELSE o.pc
             c == WithAcc(o, a, j, p)
             z == 0
  <1>1. o \in CallRecord /\ Complete(o) /\ o.pc = "gathering"
    BY DEF Types, CallType, Gather
  <1>2. m \in Kind /\ b \in Bucket /\ o.acc \in Int
    BY <1>1, Fields DEF Complete
  <1>3. a \in Int /\ z \in Int /\ t_alloc_size[m][b] \in Int
    BY <1>2, SMT DEF Types, DataType
  <1>4. /\ t_alloc_size' = [t_alloc_size EXCEPT ![m][b] = z]
        /\ Continues(t, c)
        /\ UNCHANGED << g_alloc_size, blocks >>
    BY DEF Gather, WithAcc
  <1>5. /\ j \in Nat
        /\ p = "reporting" \/ (p = "gathering" /\ j \in Bucket)
        /\ p \in Pc
    BY <1>1, <1>2, Sets, SMTT(30) DEF Bucket, Pc
  <1>6. c \in CallRecord /\ c.acc = a /\ c.i = j /\ c.pc = p /\ c.kind = m
        /\ c.up = o.up /\ c.new = o.new /\ c.size = o.size
    <2>1. c = WithAcc(o, a, j, p) /\ m = o.kind
      OBVIOUS
    <2> HIDE DEF c, o, a, j, p, m
    <2> QED
      BY <1>1, <1>3, <1>5, <2>1, WithAccType, SMTT(30)
  <1> HIDE DEF c, p, j
  <1>7. Complete(c)
    BY <1>1, <1>5, <1>6 DEF Complete
  <1>8. Moves(t, c)
    BY <1>4, <1>6, ContinuesMoves DEF Types
  <1>9. OnlyDueOf(t, c, m)
    BY <1>1, <1>6, DueOfOther DEF OnlyDueOf
  <1>10. DueOf(c, m) = a /\ DueOf(o, m) = o.acc
    BY <1>1, <1>2, <1>3, <1>5, <1>6, SMTT(30) DEF DueOf
  <1>11. DueOf(c, m) - DueOf(call[t], m) = t_alloc_size[m][b] - z
    BY <1>2, <1>3, <1>10, SMT
  <1> HIDE DEF z, o, m, b
  <1>12. t_alloc_size' \in [Kind -> [Bucket -> Int]]
    BY <1>2, <1>3, <1>4, BucketChanges DEF Types
  <1>13. Types'
    BY <1>4, <1>6, <1>7, <1>8, <1>12, MovesType DEF Types, DataType
  <1> QED
    BY <1>2, <1>3, <1>4, <1>6, <1>8, <1>9, <1>11, <1>13, BucketStep

(* Report moves what was gathered to the global counter.                   *)
LEMMA ReportStep ==
  ASSUME Types, Conserved, NEW t \in Thread, Report(t), UNCHANGED << failures, missed >>
  PROVE  Types' /\ Conserved'
  <1> DEFINE o == call[t]
             m == o.kind
             n == o.acc
             total == Unsigned(g_alloc_size[m] + n)
             c == WithPcAcc(o, "reported", total)
  <1>1. o \in CallRecord /\ Complete(o) /\ o.pc = "reporting"
    BY DEF Types, CallType, Report
  <1>2. m \in Kind /\ n \in Int
    BY <1>1, Fields
  <1>3. /\ g_alloc_size' = [g_alloc_size EXCEPT ![m] = Unsigned(@ + n)]
        /\ Continues(t, c)
        /\ UNCHANGED << t_alloc_size, blocks >>
    BY DEF Report, WithPcAcc
  <1>4. g_alloc_size' \in [Kind -> 0 .. Word - 1]
    <2> HIDE DEF o, m, n
    <2> QED
      BY <1>2, <1>3, GlobalType
  <1>5. total \in Int
    <2>1. total = g_alloc_size'[m]
      BY <1>2, <1>3 DEF Types, DataType
    <2> HIDE DEF total
    <2> QED
      BY <1>2, <1>4, <2>1, Words, SMTT(30)
  <1>6. c \in CallRecord /\ c.pc = "reported" /\ c.kind = m
        /\ c.up = o.up /\ c.new = o.new /\ c.size = o.size
    <2>1. c = WithPcAcc(o, "reported", total) /\ "reported" \in Pc /\ m = o.kind
      BY DEF Pc
    <2> HIDE DEF c, o, total, m
    <2> QED
      BY <1>1, <1>5, <2>1, WithPcAccType, SMTT(30)
  <1> HIDE DEF c
  <1>7. Complete(c)
    BY <1>1, <1>6 DEF Complete
  <1>8. Moves(t, c)
    BY <1>3, <1>6, ContinuesMoves DEF Types
  <1>9. Types'
    BY <1>3, <1>4, <1>6, <1>7, <1>8, MovesType DEF Types, DataType
  <1>10. OnlyDueOf(t, c, m)
    BY <1>1, <1>6, DueOfOther DEF OnlyDueOf
  <1>11. DueOf(o, m) = n /\ DueOf(c, m) = 0
    BY <1>1, <1>2, <1>6, SMTT(30) DEF DueOf
  <1>12. DueOf(c, m) - DueOf(call[t], m) = -n
    BY <1>2, <1>11, SMT
  <1> HIDE DEF o, m, n
  <1> QED
    BY <1>2, <1>3, <1>6, <1>8, <1>9, <1>10, <1>12, GlobalStep

LEMMA ReportEndStep ==
  ASSUME Types, Conserved, NEW t \in Thread, ReportEnd(t), UNCHANGED << failures, missed >>
  PROVE  Types' /\ Conserved'
  <1>1. Continues(t, NoCall) /\ call[t].pc = "reported"
        /\ UNCHANGED << t_alloc_size, g_alloc_size, blocks, failures, missed >>
    BY DEF ReportEnd
  <1>2. NoCall.pc = "idle"
    BY DEF NoCall
  <1>3. \A k \in Kind : DueOf(NoCall, k) = DueOf(call[t], k)
    BY <1>1, <1>2 DEF DueOf
  <1>4. Moves(t, NoCall)
    BY <1>1, NoCallType, ContinuesMoves DEF Types
  <1> QED
    BY <1>1, <1>3, <1>4, NoCallType, NeutralStep

(* A kind nobody holds a block of and no call works on: its balance starts *)
(* again from zero.                                                        *)
LEMMA ResetSizeStep ==
  ASSUME Types, Conserved, NEW r \in Kind, ResetSize(r)
  PROVE  Types' /\ Conserved'
  <1> DEFINE none == [b \in Bucket |-> 0]
  <1>1. /\ Unused(r)
        /\ t_alloc_size' = [t_alloc_size EXCEPT ![r] = none]
        /\ g_alloc_size' = [g_alloc_size EXCEPT ![r] = 0]
        /\ missed' = [missed EXCEPT ![r] = 0]
        /\ blocks' = blocks /\ call' = call /\ failures' = failures
    BY DEF ResetSize
  <1>2. none \in [Bucket -> Int] /\ \A b \in Bucket : none[b] = 0
    BY SMTT(30)
  <1> HIDE DEF none
  <1>3. Types'
    BY <1>1, <1>2, Words, SMT DEF Types, CallType, DataType
  <1>4. PartsType'
    BY <1>3, PartsInt, PTL
  <1>5. InBuckets(r)' = 0
    <2>1. t_alloc_size'[r] = none
      BY <1>1 DEF Types, DataType
    <2>2. SumFunction(none) = 0
      BY <1>2, SumZero, Sets
    <2> QED
      BY <2>1, <2>2 DEF InBuckets
  <1>6. SumFunction(Due(r))' = 0
    <2>1. \A t \in Thread : DueOf(call[t], r) = 0
      BY <1>1, SMT DEF Unused, DueOf
    <2>2. Due(r) \in [Thread -> Int] /\ \A t \in Thread : Due(r)[t] = 0
      BY <2>1, DueInt DEF Types, Due
    <2> DEFINE d == Due(r)
    <2>3. SumFunction(d) = 0
      <3>1. d \in [Thread -> Int] /\ \A t \in Thread : d[t] = 0
        BY <2>2
      <3> HIDE DEF d
      <3> QED
        BY <3>1, SumZero, Sets
    <2>4. Due(r)' = Due(r)
      BY <1>1 DEF Due
    <2> QED
      BY <2>3, <2>4
  <1>7. Live(r)' = 0
    <2> DEFINE l == [s \in Size |-> s * blocks[r][s]]
    <2>1. l \in [Size -> Int] /\ \A s \in Size : l[s] = 0
      BY <1>1, Sets, SMT DEF Unused
    <2>2. SumFunction(l) = 0
      <3> HIDE DEF l
      <3> QED
        BY <2>1, SumZero, Sets
    <2>3. Live(r)' = SumFunction(l)
      BY <1>1 DEF Live
    <2> QED
      BY <2>2, <2>3
  <1>8. Balanced(r)'
    <2>1. g_alloc_size'[r] = 0 /\ missed'[r] = 0
      BY <1>1 DEF Types, DataType
    <2> QED
      BY <1>5, <1>6, <1>7, <2>1, SMT DEF Balanced
  <1>9. ASSUME NEW k \in Kind, k # r
        PROVE  Balanced(k)'
    <2>1. Balanced(k)
      BY ConservedIs
    <2>2. t_alloc_size'[k] = t_alloc_size[k] /\ g_alloc_size'[k] = g_alloc_size[k]
          /\ missed'[k] = missed[k]
      BY <1>1, <1>9 DEF Types, DataType
    <2>3. InBuckets(k)' = InBuckets(k) /\ Due(k)' = Due(k) /\ Live(k)' = Live(k)
      BY <1>1, <2>2 DEF InBuckets, Due, Live
    <2> QED
      BY <2>1, <2>2, <2>3 DEF Balanced
  <1>10. (\A k \in Kind : Balanced(k))'
    BY <1>8, <1>9
  <1>11. Conserved'
    BY <1>10, ConservedIs, PTL
  <1> QED
    BY <1>3, <1>11

LEMMA ConservedInit == Init => Types /\ Conserved
  <1> SUFFICES ASSUME Init
               PROVE  Types /\ Conserved
    OBVIOUS
  <1>1. CallType
    BY NoCallType DEF Init, CallType
  <1>2. DataType
    BY Words, TierCountersAssumption, SMTT(30) DEF Init, DataType
  <1>3. ASSUME NEW k \in Kind
        PROVE  Balanced(k)
    <2> DEFINE none == [b \in Bucket |-> 0]
               d == Due(k)
               l == [s \in Size |-> s * blocks[k][s]]
    <2>1. t_alloc_size[k] = none /\ g_alloc_size[k] = 0 /\ missed[k] = 0
      BY DEF Init
    <2>2. none \in [Bucket -> Int] /\ \A b \in Bucket : none[b] = 0
      BY SMTT(30)
    <2>3. d \in [Thread -> Int] /\ \A t \in Thread : d[t] = 0
      BY SMT DEF Init, Due, DueOf, NoCall
    <2>4. l \in [Size -> Int] /\ \A s \in Size : l[s] = 0
      BY Sets, SMT DEF Init
    <2>5. InBuckets(k) = SumFunction(none) /\ Live(k) = SumFunction(l)
      BY <2>1 DEF InBuckets, Live
    <2>6. SumFunction(none) = 0 /\ SumFunction(d) = 0 /\ SumFunction(l) = 0
      <3> HIDE DEF none, d, l
      <3> QED
        BY <2>2, <2>3, <2>4, SumZero, Sets
    <2> QED
      BY <2>1, <2>5, <2>6, SMT DEF Balanced
  <1> QED
    BY <1>1, <1>2, <1>3, ConservedIs DEF Types

LEMMA ConservedNext == Types /\ Conserved /\ [Next]_vars => (Types /\ Conserved)'
  <1> SUFFICES ASSUME Types, Conserved, [Next]_vars
               PROVE  (Types /\ Conserved)'
    OBVIOUS
  <1>1. ASSUME NEW t \in Thread, Begin(t), UNCHANGED << failures, missed >>
        PROVE  (Types /\ Conserved)'
    BY <1>1, BeginStep
  <1>2. ASSUME NEW t \in Thread, Step(t), UNCHANGED << failures, missed >>
        PROVE  (Types /\ Conserved)'
    <2>1. CASE ChooseNext(t)
      BY <1>2, <2>1, ChooseNextStep
    <2>2. CASE KindMalloc(t)
      BY <1>2, <2>2, KindMallocStep
    <2>3. CASE Count(t)
      BY <1>2, <2>3, CountStep
    <2>4. CASE Take(t)
      BY <1>2, <2>4, TakeStep
    <2>5. CASE Add(t)
      BY <1>2, <2>5, AddStep
    <2>6. CASE Gather(t)
      BY <1>2, <2>6, GatherStep
    <2>7. CASE Report(t)
      BY <1>2, <2>7, ReportStep
    <2>8. CASE ReportEnd(t)
      BY <1>2, <2>8, ReportEndStep
    <2> QED
      BY <1>2, <2>1, <2>2, <2>3, <2>4, <2>5, <2>6, <2>7, <2>8 DEF Step
  <1>3. ASSUME NEW t \in Thread, MemalignError(t)
        PROVE  (Types /\ Conserved)'
    BY <1>3, MemalignErrorStep
  <1>4. ASSUME NEW t \in Thread, KindRealloc(t)
        PROVE  (Types /\ Conserved)'
    BY <1>4, KindReallocStep
  <1>5. ASSUME NEW k \in Kind, ResetSize(k)
        PROVE  (Types /\ Conserved)'
    BY <1>5, ResetSizeStep
  <1>6. CASE UNCHANGED vars
    <2>1. Types'
      BY <1>6 DEF vars, Types, CallType, DataType
    <2>2. \A k \in Kind : Balanced(k)
      BY ConservedIs
    <2>3. (\A k \in Kind : Balanced(k))'
      BY <1>6, <2>2 DEF vars, Balanced, InBuckets, Due, Live
    <2> QED
      BY <2>1, <2>3, ConservedIs, PTL
  <1> QED
    BY <1>1, <1>2, <1>3, <1>4, <1>5, <1>6 DEF Next

LEMMA TypesConserved == Spec => [](Types /\ Conserved)
  BY ConservedInit, ConservedNext, PTL DEF Spec

(* No byte is lost or counted twice, with any number of threads, tiers and *)
(* buckets: increment_alloc_size, decrement_alloc_size and                 *)
(* memtier_kind_allocated_size only move bytes between the counters.       *)
THEOREM ConservedHolds == Spec => []Conserved
  BY TypesConserved, PTL

(* Between calls every bucket is within FLUSH_THRESHOLD of zero, whichever *)
(* threads share it: the comparisons of increment_alloc_size and           *)
(* decrement_alloc_size, unsigned as they are, miss no bucket beyond it,   *)
(* as long as no block is so large that a size_t cannot hold the sum.      *)
THEOREM BucketsBoundedHolds == Spec => []BucketsBounded
  <1>1. Init => BucketInv
    BY ZeroWithin, SMT DEF Init, BucketInv
  <1>2. Types /\ BucketInv => BucketsBounded
    BY TypesImply DEF BucketInv, BucketsBounded, Emptied, Idle
  <1> QED
    BY <1>1, <1>2, TypesConserved, BucketNext, PTL DEF Spec

(* memtier_kind_allocated_size is exact when no other call overlaps it,    *)
(* with any number of threads and buckets and whatever was left in the     *)
(* buckets and in the hands of failed calls before.                        *)
THEOREM ReportExactHolds == Spec => []ReportExact
  <1>1. Init => QuietInv
    BY SMT DEF Init, QuietInv, NoCall
  <1>2. QuietInv => ReportExact
    BY DEF QuietInv, QuietOf, ReportExact
  <1> QED
    BY <1>1, <1>2, TypesConserved, QuietNext, PTL DEF Spec
=============================================================================
