--------------------------- MODULE ExtentHooksProofs ---------------------------
(***************************************************************************)
(* What the extent hooks of an arena keep true, for every size and every   *)
(* alignment: the memory of a fixed kind is handed out once, aligned and   *)
(* inside the area, and that of the other kinds is cut to size without a   *)
(* page lost or taken, by any number of threads.                           *)
(***************************************************************************)
EXTENDS ExtentHooks, TLAPS

\* Zenon is the default prover; a step it does not find names SMT.
USE ZenonT(30)

(* The extents end where the unused part of the area begins.               *)
Behind == \A e \in fixed_extents : e.addr + e.size <= addr

\* A destroyed kind has no extents.
Gone == ~alive => fixed_extents = {}

FixedInv ==
    /\ Fixed!TypeOK /\ Fixed!Accounted /\ Behind /\ Gone
    /\ Fixed!Disjoint /\ Fixed!InArea /\ Fixed!Aligned

(* The distance to the next multiple: what AlignOffset computes, and that  *)
(* it is less than the alignment.                                          *)
LEMMA NextMultiple ==
    ASSUME NEW x \in Nat, NEW a \in Nat \ {0}
    PROVE  /\ x % a \in 0 .. a - 1
           /\ x % a # 0 => (x + (a - (x % a))) % a = 0
<1>1. x % a \in 0 .. a - 1 /\ x = a * (x \div a) + (x % a) /\ x \div a \in Nat
  BY SMT
<1>2. ASSUME x % a # 0 PROVE (x + (a - (x % a))) % a = 0
  <2> DEFINE q == x \div a + 1
  <2>1. q \in Nat /\ x + (a - (x % a)) = a * q
    BY <1>1, SMT
  <2>2. (a * q) % a = 0
    BY <2>1, SMT
  <2> QED BY <2>1, <2>2
<1> QED BY <1>1, <1>2

(* A sum below the wrap is not changed by it.                              *)
LEMMA NoWrap == ASSUME NEW x \in Nat, x < FixedWrap PROVE x % FixedWrap = x
BY FixedAssumption, SMT
LEMMA OffsetFacts ==
    ASSUME addr \in Nat, NEW a \in FixedAlignment
    PROVE  /\ Fixed!AlignOffset(a) \in Nat
           /\ Fixed!AlignOffset(a) < a
           /\ (addr + Fixed!AlignOffset(a)) % a = 0
<1>1. a \in Nat \ {0}
  BY FixedAssumption
<1>2. addr % a \in 0 .. a - 1
  BY <1>1, NextMultiple
<1>3. CASE addr % a = 0
  BY <1>1, <1>3, SMT DEF Fixed!AlignOffset
<1>4. CASE addr % a # 0
  <2>1. Fixed!AlignOffset(a) = a - (addr % a)
    BY <1>4 DEF Fixed!AlignOffset
  <2>2. (addr + (a - (addr % a))) % a = 0
    BY <1>1, <1>4, NextMultiple
  <2> QED BY <1>1, <1>2, <1>4, <2>1, <2>2, SMT
<1> QED BY <1>3, <1>4

(* Handing out pages from the first unused one keeps the extents apart and *)
(* inside the area, when there is room for them.                           *)
LEMMA HandOutKeeps ==
    ASSUME FixedInv, alive,
           NEW a \in Nat, NEW s \in FixedSize, NEW m \in Nat \ {0},
           Fixed!HandOut(a, s, m), addr <= a, a % m = 0,
           a + s <= Start + AreaSize,
           addr' = a + s, current' = addr' - Start,
           alive' = alive, kinds' = kinds, dirty' = dirty
    PROVE  FixedInv'
<1> DEFINE n == [addr |-> a, size |-> s, alignment |-> m,
                 zeroed |-> Fixed!Span([addr |-> a, size |-> s]) \cap dirty = {}]
<1>1. fixed_extents' = fixed_extents \cup {n}
  BY DEF Fixed!HandOut
<1>2. n.addr = a /\ n.size = s /\ n.alignment = m /\ n.zeroed \in BOOLEAN
  OBVIOUS
<1> HIDE DEF n
<1>3. s \in Nat \ {0} /\ Start \in Nat /\ AreaSize \in Nat
  BY FixedAssumption
<1>4. addr \in Nat /\ addr = Start + current /\ current \in Nat
  BY DEF FixedInv, Fixed!TypeOK, Fixed!Accounted
<1>5. \A e \in fixed_extents : e.addr \in Nat /\ e.size \in Nat /\ e.addr + e.size <= a
  <2> TAKE e \in fixed_extents
  <2>1. e.addr \in Nat /\ e.size \in FixedSize
    BY DEF FixedInv, Fixed!TypeOK
  <2>2. e.size \in Nat
    BY <2>1, FixedAssumption
  <2>3. e.addr + e.size <= addr
    BY DEF FixedInv, Behind
  <2> QED BY <1>4, <2>1, <2>2, <2>3, SMT
<1>6. Fixed!TypeOK'
  <2>1. addr' \in Nat /\ current' \in Nat
    BY <1>3, <1>4, SMT
  <2>2. \A e \in fixed_extents' : /\ e.addr \in Nat /\ e.size \in FixedSize
                                  /\ e.alignment \in Nat \ {0}
                                  /\ e.zeroed \in BOOLEAN
    BY <1>1, <1>2 DEF FixedInv, Fixed!TypeOK
  <2> QED BY <2>1, <2>2 DEF FixedInv, Fixed!TypeOK
<1>7. Fixed!Accounted'
  BY <1>3, <1>4, SMT DEF Fixed!Accounted
<1>8. Behind'
  BY <1>1, <1>2, <1>3, <1>5, SMT DEF Behind
<1>9. Gone'
  BY DEF Gone
<1>10. Fixed!Disjoint'
  BY <1>1, <1>2, <1>5 DEF FixedInv, Fixed!Disjoint
<1>11. Fixed!InArea'
  BY <1>1, <1>2, <1>3, <1>4, SMT DEF FixedInv, Fixed!InArea
<1>12. Fixed!Aligned'
  BY <1>1, <1>2 DEF FixedInv, Fixed!Aligned
<1> QED BY <1>6, <1>7, <1>8, <1>9, <1>10, <1>11, <1>12 DEF FixedInv

LEMMA MmapAlignedKeeps ==
    ASSUME FixedInv, NEW s \in FixedSize, NEW m \in FixedAlignment, Fixed!MmapAligned(s, m)
    PROVE  FixedInv'
<1> DEFINE o == Fixed!AlignOffset(m)
<1>1. s \in Nat \ {0} /\ m \in Nat \ {0} /\ 16 * s <= 7 * FixedWrap /\ 4 * m <= FixedWrap
  BY FixedAssumption
<1>2. alive /\ addr \in Nat /\ current \in Nat /\ addr = Start + current /\ current <= AreaSize
  BY DEF FixedInv, Fixed!TypeOK, Fixed!Accounted, Fixed!MmapAligned
<1>3. o \in Nat /\ o < m /\ (addr + o) % m = 0
  BY <1>2, OffsetFacts
<1>4. Fixed!HandOut(addr + o, s, m) /\ addr' = addr + o + s /\ current' = current + s + o
      /\ (current + s + o) % FixedWrap <= AreaSize
  BY DEF Fixed!MmapAligned, Fixed!FitsAligned
<1>5. alive' = alive /\ kinds' = kinds /\ dirty' = dirty
  BY DEF Fixed!MmapAligned
<1> HIDE DEF o
<1>6. current + s + o \in Nat /\ current + s + o < FixedWrap
  BY <1>1, <1>2, <1>3, FixedAssumption, SMT
<1>7. (current + s + o) % FixedWrap = current + s + o
  BY <1>6, NoWrap
<1>8. /\ addr + o \in Nat /\ addr <= addr + o
      /\ (addr + o) + s <= Start + AreaSize
      /\ addr' = (addr + o) + s /\ current' = addr' - Start
  BY <1>1, <1>2, <1>3, <1>4, <1>7, FixedAssumption, SMT
<1> QED BY <1>1, <1>2, <1>3, <1>4, <1>5, <1>8, HandOutKeeps

LEMMA MmapKeeps ==
    ASSUME FixedInv, NEW s \in FixedSize, Fixed!Mmap(s)
    PROVE  FixedInv'
<1>1. s \in Nat \ {0} /\ 16 * s <= 7 * FixedWrap
  BY FixedAssumption
<1>2. alive /\ addr \in Nat /\ current \in Nat /\ addr = Start + current /\ current <= AreaSize
  BY DEF FixedInv, Fixed!TypeOK, Fixed!Accounted, Fixed!Mmap
<1>3. Fixed!HandOut(addr, s, 1) /\ addr' = addr + s /\ current' = current + s
      /\ (current + s) % FixedWrap <= AreaSize
  BY FixedAssumption DEF Fixed!Mmap
<1>4. alive' = alive /\ kinds' = kinds /\ dirty' = dirty
  BY DEF Fixed!Mmap
<1>5. current + s \in Nat /\ current + s < FixedWrap
  BY <1>1, <1>2, FixedAssumption, SMT
<1>6. (current + s) % FixedWrap = current + s
  BY <1>5, NoWrap
<1>7. addr + s <= Start + AreaSize /\ current' = addr' - Start /\ addr % 1 = 0
  BY <1>1, <1>2, <1>3, <1>6, FixedAssumption, SMT
<1> QED BY <1>1, <1>2, <1>3, <1>4, <1>7, HandOutKeeps, SMT

LEMMA FixedInit == Fixed!Init => FixedInv
<1> SUFFICES ASSUME Fixed!Init PROVE FixedInv
  OBVIOUS
<1>1. Fixed!TypeOK
  <2>1. Start \in Nat /\ MaxKinds \in Nat
    BY FixedAssumption
  <2>2. kinds \in 0 .. MaxKinds /\ addr \in Nat /\ current \in Nat
    BY <2>1, SMT DEF Fixed!Init
  <2> QED BY <2>2 DEF Fixed!Init, Fixed!TypeOK
<1>2. Fixed!Accounted /\ Behind /\ Gone
  BY DEF Fixed!Init, Fixed!Accounted, Behind, Gone
<1>3. Fixed!Disjoint /\ Fixed!InArea /\ Fixed!Aligned
  BY DEF Fixed!Init, Fixed!Disjoint, Fixed!InArea, Fixed!Aligned
<1> QED BY <1>1, <1>2, <1>3 DEF FixedInv

LEMMA FixedStep == FixedInv /\ [Fixed!Next]_fixed_vars => FixedInv'
<1> SUFFICES ASSUME FixedInv, [Fixed!Next]_fixed_vars PROVE FixedInv'
  OBVIOUS
<1>1. CASE Fixed!CreateFixed
  <2>1. Fixed!Area \subseteq Int
    BY FixedAssumption, SMT DEF Fixed!Area
  <2>2. /\ fixed_extents = {} /\ fixed_extents' = {}
        /\ alive' = TRUE /\ kinds' = kinds + 1 /\ kinds < MaxKinds
        /\ addr' = Start /\ current' = 0 /\ dirty' \subseteq Int
    BY <1>1, <2>1 DEF Fixed!CreateFixed, FixedInv, Gone
  <2>3. /\ kinds' \in 0 .. MaxKinds /\ addr' \in Nat /\ current' \in Nat
        /\ addr' = Start + current' /\ current' <= AreaSize
    BY <2>2, FixedAssumption, SMT DEF FixedInv, Fixed!TypeOK
  <2> QED BY <2>2, <2>3
         DEF FixedInv, Fixed!TypeOK, Fixed!Accounted, Behind, Gone,
             Fixed!Disjoint, Fixed!InArea, Fixed!Aligned
<1>2. CASE Fixed!Destroy
  BY <1>2 DEF Fixed!Destroy, FixedInv, Fixed!TypeOK, Fixed!Accounted, Behind, Gone,
         Fixed!Disjoint, Fixed!InArea, Fixed!Aligned
<1>3. ASSUME NEW s \in FixedSize, NEW a \in FixedAlignment, Fixed!MmapAligned(s, a)
      PROVE  FixedInv'
  BY <1>3, MmapAlignedKeeps
<1>4. ASSUME NEW s \in FixedSize, Fixed!Mmap(s) PROVE FixedInv'
  BY <1>4, MmapKeeps
<1>5. ASSUME NEW e \in fixed_extents, Fixed!Use(e) PROVE FixedInv'
  <2>1. dirty' \subseteq Int
    <3>1. e.addr \in Nat /\ e.size \in Nat
      <4>1. e.addr \in Nat /\ e.size \in FixedSize
        BY DEF FixedInv, Fixed!TypeOK
      <4> QED BY <4>1, FixedAssumption
    <3>2. Fixed!Span(e) \subseteq Int
      BY <3>1, SMT DEF Fixed!Span
    <3> QED BY <1>5, <3>2 DEF Fixed!Use, FixedInv, Fixed!TypeOK
  <2> QED BY <1>5, <2>1
         DEF Fixed!Use, FixedInv, Fixed!TypeOK, Fixed!Accounted, Behind, Gone,
             Fixed!Disjoint, Fixed!InArea, Fixed!Aligned
<1>6. CASE UNCHANGED fixed_vars
  BY <1>6 DEF fixed_vars, FixedInv, Fixed!TypeOK, Fixed!Accounted, Behind, Gone,
         Fixed!Disjoint, Fixed!InArea, Fixed!Aligned
<1> QED BY <1>1, <1>2, <1>3, <1>4, <1>5, <1>6 DEF Fixed!Next

LEMMA FixedHolds == HooksSpec => []FixedInv
<1>1. HooksInit => FixedInv
  BY FixedInit DEF HooksInit
<1>2. FixedInv /\ [HooksNext]_hooks_vars => FixedInv'
  <2>1. ASSUME [HooksNext]_hooks_vars PROVE [Fixed!Next]_fixed_vars
    BY <2>1 DEF HooksNext, CreateMap, hooks_vars
  <2> QED BY <2>1, FixedStep
<1> QED BY <1>1, <1>2, PTL DEF HooksSpec

(* The memory of a fixed kind is handed out at most once, aligned as       *)
(* jemalloc asked and inside the program's area, for every area, every     *)
(* size up to jemalloc's largest and every alignment: no sum in            *)
(* memkind_fixed_mmap_aligned wraps.                                       *)
THEOREM FixedMemorySafe == HooksSpec => []MemorySafe
<1>1. FixedInv => MemorySafe
  BY DEF FixedInv, MemorySafe, Fixed!MemorySafe
<1> QED BY <1>1, FixedHolds, PTL

-----------------------------------------------------------------------------
(***************************************************************************)
(* The hooks that map anonymous memory.                                    *)
(***************************************************************************)
AnonCall ==
    [pc : {"idle", "map", "wrong_place", "misaligned", "slow", "head", "tail"},
     new_addr : Anon!Page \cup {Null}, asked : Nat \ {0}, granule : {1, HugePage},
     size : Nat \ {0}, alignment : Nat \ {0}, addr : Nat]

AnonType ==
    /\ mapped \subseteq Anon!Page
    /\ anon_call \in [Thread -> AnonCall]
    /\ \A e \in anon_extents :
          e.addr \in Nat /\ e.size \in Nat \ {0} /\ e.granule \in {1, HugePage}

\* What a call was asked for, in terms of what it keeps.
Asked(c) ==
    c.pc # "idle" =>
        /\ c.size >= c.asked /\ c.size % c.granule = 0
        /\ c.alignment \in AnonAlignment
        /\ c.new_addr # Null => c.alignment = 1
        /\ c.pc \notin {"map", "slow"} => c.addr % c.granule = 0
        /\ c.pc \notin {"map", "wrong_place"} =>
              c.new_addr = Null /\ c.alignment % c.granule = 0

CallAsked == \A t \in Thread : Asked(anon_call[t])

Block(e) == Anon!Span(e.addr, e.size)

\* Pages have one owner, page by page.
AnonOwned ==
    /\ \A p : p \in mapped <=> \/ p \in left
                               \/ \E e \in anon_extents : p \in Block(e)
                               \/ \E t \in Thread : p \in Anon!InHand(t)
    /\ \A e \in anon_extents : Block(e) \cap left = {}
    /\ \A t \in Thread : Anon!InHand(t) \cap left = {}
    /\ \A d, e \in anon_extents : d # e => Block(d) \cap Block(e) = {}
    /\ \A s, t \in Thread : s # t => Anon!InHand(s) \cap Anon!InHand(t) = {}
    /\ \A e \in anon_extents, t \in Thread : Block(e) \cap Anon!InHand(t) = {}

AnonInv == AnonType /\ CallAsked /\ AnonOwned

-----------------------------------------------------------------------------
LEMMA Multiple ==
    ASSUME NEW x \in Nat, NEW a \in Nat \ {0}
    PROVE  /\ x % a \in 0 .. a - 1
           /\ x % a = 0 => \E q \in Nat : x = a * q
<1>1. x % a \in 0 .. a - 1 /\ x = a * (x \div a) + (x % a) /\ x \div a \in Nat
  BY SMT
<1> QED BY <1>1, SMT

LEMMA MultipleOf ==
    ASSUME NEW q \in Nat, NEW a \in Nat \ {0}
    PROVE  (a * q) % a = 0
  BY SMT

\* A multiple of a multiple.
LEMMA MultipleOfMultiple ==
    ASSUME NEW x \in Nat, NEW a \in Nat \ {0}, NEW b \in Nat \ {0}, x % a = 0, a % b = 0
    PROVE  x % b = 0
<1>1. PICK q \in Nat : x = a * q
  BY Multiple
<1>2. PICK r \in Nat : a = b * r
  BY Multiple
<1>3. r * q \in Nat /\ x = b * (r * q)
  BY <1>1, <1>2, SMT
<1> QED BY <1>3, MultipleOf

\* RoundUp makes whole pages of the kind of it, and not fewer.
LEMMA RoundUpFacts ==
    ASSUME NEW s \in Nat \ {0}, NEW g \in Nat \ {0}
    PROVE  /\ Anon!RoundUp(s, g) \in Nat \ {0}
           /\ Anon!RoundUp(s, g) >= s
           /\ Anon!RoundUp(s, g) % g = 0
<1> DEFINE n == s + (g - 1)
           q == n \div g
<1>1. n \in Nat /\ q \in Nat /\ n % g \in 0 .. g - 1 /\ n = g * q + (n % g)
  BY SMT
<1>2. Anon!RoundUp(s, g) = q * g
  BY DEF Anon!RoundUp
<1>3. q * g = g * q /\ g * q \in Nat
  BY <1>1, SMT
<1> HIDE DEF q
<1>4. g * q >= s
  BY <1>1, <1>3, SMT
<1>5. (g * q) % g = 0
  BY <1>1, MultipleOf
<1> QED BY <1>2, <1>3, <1>4, <1>5, SMT

LEMMA CutToMultiple ==
    ASSUME NEW n \in Nat, NEW a \in Nat \ {0}
    PROVE  /\ n % a \in 0 .. a - 1
           /\ n - (n % a) \in Nat
           /\ (n - (n % a)) % a = 0
<1>1. n % a \in 0 .. a - 1 /\ n = a * (n \div a) + (n % a) /\ n \div a \in Nat
  BY SMT
<1>2. a * (n \div a) \in Nat
  BY <1>1, SMT
<1>3. n - (n % a) = a * (n \div a)
  BY <1>1, <1>2, SMT
<1>4. (a * (n \div a)) % a = 0
  BY <1>1, MultipleOf
<1> QED BY <1>1, <1>2, <1>3, <1>4

\* What a call of the hook has in its variables.
LEMMA CallTypes ==
    ASSUME AnonType, NEW t \in Thread
    PROVE  /\ anon_call[t].pc \in
                 {"idle", "map", "wrong_place", "misaligned", "slow", "head", "tail"}
           /\ anon_call[t].new_addr \in Anon!Page \cup {Null}
           /\ anon_call[t].asked \in Nat \ {0} /\ anon_call[t].granule \in {1, HugePage}
           /\ anon_call[t].granule \in Nat \ {0}
           /\ anon_call[t].size \in Nat \ {0} /\ anon_call[t].alignment \in Nat \ {0}
           /\ anon_call[t].addr \in Nat
<1>1. anon_call[t] \in AnonCall
  BY DEF AnonType
<1> QED BY <1>1, AnonAssumption, SMT DEF AnonCall

\* The first multiple of the alignment above addr, at most alignment pages away.
LEMMA AlignedAddrFacts ==
    ASSUME AnonType, NEW t \in Thread
    PROVE  /\ Anon!AlignedAddr(t) \in Nat
           /\ Anon!AlignedAddr(t) % anon_call[t].alignment = 0
           /\ anon_call[t].addr < Anon!AlignedAddr(t)
           /\ Anon!AlignedAddr(t) <= anon_call[t].addr + anon_call[t].alignment
<1> DEFINE a == anon_call[t].alignment
           n == anon_call[t].addr + a
<1>1. a \in Nat \ {0} /\ anon_call[t].addr \in Nat /\ n \in Nat
  BY CallTypes, SMT
<1>2. n % a \in 0 .. a - 1 /\ n - (n % a) \in Nat /\ (n - (n % a)) % a = 0
  BY <1>1, CutToMultiple
<1>3. Anon!AlignedAddr(t) = n - (n % a)
  BY DEF Anon!AlignedAddr
<1>4. n - (n % a) > anon_call[t].addr /\ n - (n % a) <= n
  BY <1>1, <1>2, SMT
<1> QED BY <1>2, <1>3, <1>4

-----------------------------------------------------------------------------
\* What a call has in hand, by where it is.
LEMMA Hands ==
    ASSUME NEW t \in Thread
    PROVE  /\ anon_call[t].pc \in {"idle", "map", "slow"} => Anon!InHand(t) = {}
           /\ anon_call[t].pc \in {"wrong_place", "misaligned"} =>
                 Anon!InHand(t) = anon_call[t].addr .. anon_call[t].addr + anon_call[t].size - 1
           /\ anon_call[t].pc = "head" =>
                 Anon!InHand(t) =
                     anon_call[t].addr ..
                     anon_call[t].addr + (anon_call[t].size + anon_call[t].alignment) - 1
           /\ anon_call[t].pc = "tail" =>
                 Anon!InHand(t) =
                     Anon!AlignedAddr(t) ..
                     anon_call[t].addr + (anon_call[t].size + anon_call[t].alignment) - 1
  BY DEF Anon!InHand, Anon!Span, Anon!Extended

LEMMA HandsAfter ==
    ASSUME NEW t \in Thread
    PROVE  /\ anon_call'[t].pc \in {"idle", "map", "slow"} => Anon!InHand(t)' = {}
           /\ anon_call'[t].pc \in {"wrong_place", "misaligned"} =>
                 Anon!InHand(t)' = anon_call'[t].addr .. anon_call'[t].addr + anon_call'[t].size - 1
           /\ anon_call'[t].pc = "head" =>
                 Anon!InHand(t)' =
                     anon_call'[t].addr ..
                     anon_call'[t].addr + (anon_call'[t].size + anon_call'[t].alignment) - 1
           /\ anon_call'[t].pc = "tail" =>
                 Anon!InHand(t)' = Anon!AlignedAddr(t)' ..
                     anon_call'[t].addr + (anon_call'[t].size + anon_call'[t].alignment) - 1
           /\ anon_call'[t] = anon_call[t] => Anon!InHand(t)' = Anon!InHand(t)
  BY DEF Anon!InHand, Anon!Span, Anon!Extended, Anon!AlignedAddr

\* A call maps or gives back pages, which it has in hand before and after.
LEMMA HandChanges ==
    ASSUME AnonOwned, NEW t \in Thread, UNCHANGED <<anon_extents, left>>,
           \A u \in Thread \ {t} : Anon!InHand(u)' = Anon!InHand(u),
           mapped' = (mapped \ Anon!InHand(t)) \cup Anon!InHand(t)',
           Anon!InHand(t)' \cap (mapped \ Anon!InHand(t)) = {}
    PROVE  AnonOwned'
<1>1. \A p : p \in mapped' <=> \/ p \in left'
                               \/ \E e \in anon_extents' : p \in Block(e)
                               \/ \E u \in Thread : p \in Anon!InHand(u)'
  BY SMT DEF AnonOwned
<1>2. \A u, v \in Thread : u # v => Anon!InHand(u)' \cap Anon!InHand(v)' = {}
  BY SMT DEF AnonOwned
<1>3. \A e \in anon_extents, u \in Thread : Block(e) \cap Anon!InHand(u)' = {}
  BY DEF AnonOwned
<1>4. \A d, e \in anon_extents : d # e => Block(d) \cap Block(e) = {}
  BY DEF AnonOwned
<1>5. /\ \A e \in anon_extents' : Block(e) \cap left' = {}
      /\ \A u \in Thread : Anon!InHand(u)' \cap left' = {}
  BY SMT DEF AnonOwned
<1> QED BY <1>1, <1>2, <1>3, <1>4, <1>5 DEF AnonOwned, Block

\* A call returns an extent, with all that it has in hand then.
LEMMA HandReturns ==
    ASSUME AnonOwned, NEW t \in Thread, NEW n, anon_extents' = anon_extents \cup {n},
           UNCHANGED left, \A u \in Thread \ {t} : Anon!InHand(u)' = Anon!InHand(u),
           Anon!InHand(t)' = {},
           mapped' = (mapped \ Anon!InHand(t)) \cup Block(n),
           Block(n) \cap (mapped \ Anon!InHand(t)) = {}
    PROVE  AnonOwned'
<1>1. \A p : p \in mapped' <=> \/ p \in left'
                               \/ \E e \in anon_extents' : p \in Block(e)
                               \/ \E u \in Thread : p \in Anon!InHand(u)'
  BY SMT DEF AnonOwned
<1>2. \A u, v \in Thread : u # v => Anon!InHand(u)' \cap Anon!InHand(v)' = {}
  BY DEF AnonOwned
<1>3. \A e \in anon_extents', u \in Thread : Block(e) \cap Anon!InHand(u)' = {}
  BY SMT DEF AnonOwned
<1>4. \A d, e \in anon_extents' : d # e => Block(d) \cap Block(e) = {}
  BY DEF AnonOwned
<1>5. /\ \A e \in anon_extents' : Block(e) \cap left' = {}
      /\ \A u \in Thread : Anon!InHand(u)' \cap left' = {}
  BY SMT DEF AnonOwned
<1> QED BY <1>1, <1>2, <1>3, <1>4, <1>5 DEF AnonOwned, Block

\* A thread takes a step in its hook.
LEMMA Stepped ==
    ASSUME AnonType, CallAsked, NEW t \in Thread, NEW c \in AnonCall, Asked(c),
           anon_call' = [anon_call EXCEPT ![t] = c]
    PROVE  /\ anon_call' \in [Thread -> AnonCall] /\ CallAsked'
           /\ anon_call'[t] = c
           /\ \A u \in Thread \ {t} : Anon!InHand(u)' = Anon!InHand(u)
<1>1. anon_call' \in [Thread -> AnonCall] /\ anon_call'[t] = c
      /\ \A u \in Thread \ {t} : anon_call'[u] = anon_call[u]
  BY DEF AnonType
<1>2. CallAsked'
  BY <1>1 DEF CallAsked
<1> QED BY <1>1, <1>2, HandsAfter

LEMMA NoCallFacts ==
    /\ Anon!NoCall \in AnonCall /\ Asked(Anon!NoCall) /\ Anon!NoCall.pc = "idle"
  BY AnonAssumption, SMT DEF Anon!NoCall, AnonCall, Asked

\* The call ends: NULL is returned, nothing is in hand.
LEMMA Ends ==
    ASSUME AnonType, CallAsked, NEW t \in Thread, anon_call' = [anon_call EXCEPT ![t] = Anon!NoCall]
    PROVE  /\ anon_call' \in [Thread -> AnonCall] /\ CallAsked'
           /\ Anon!InHand(t)' = {}
           /\ \A u \in Thread \ {t} : Anon!InHand(u)' = Anon!InHand(u)
<1>1. /\ anon_call' \in [Thread -> AnonCall] /\ CallAsked' /\ anon_call'[t] = Anon!NoCall
      /\ \A u \in Thread \ {t} : Anon!InHand(u)' = Anon!InHand(u)
  BY NoCallFacts, Stepped
<1> QED BY <1>1, NoCallFacts, HandsAfter

\* The call moves on, with an address.
LEMMA Moves ==
    ASSUME AnonType, CallAsked, NEW t \in Thread, NEW a \in Nat,
           NEW pc \in {"wrong_place", "misaligned", "slow", "head", "tail"},
           Asked([anon_call[t] EXCEPT !.pc = pc, !.addr = a]),
           anon_call' = [anon_call EXCEPT ![t] = [anon_call[t] EXCEPT !.pc = pc, !.addr = a]]
    PROVE  /\ anon_call' \in [Thread -> AnonCall] /\ CallAsked'
           /\ anon_call'[t].pc = pc /\ anon_call'[t].addr = a
           /\ anon_call'[t].size = anon_call[t].size
           /\ anon_call'[t].alignment = anon_call[t].alignment
           /\ \A u \in Thread \ {t} : Anon!InHand(u)' = Anon!InHand(u)
<1> DEFINE c == [anon_call[t] EXCEPT !.pc = pc, !.addr = a]
<1>1. c \in AnonCall /\ c.pc = pc /\ c.addr = a /\ c.size = anon_call[t].size
      /\ c.alignment = anon_call[t].alignment
  BY DEF AnonType, AnonCall
<1>2. Asked(c) /\ anon_call' = [anon_call EXCEPT ![t] = c]
  OBVIOUS
<1> HIDE DEF c
<1> QED BY <1>1, <1>2, Stepped

LEMMA ExtentAllocKeeps ==
    ASSUME AnonInv, NEW t \in Thread, NEW new \in Anon!Page \cup {Null}, NEW s \in AnonSize,
           NEW a \in AnonAlignment, NEW g \in {1, HugePage}, Anon!ExtentAlloc(t, new, s, a, g)
    PROVE  AnonInv'
<1> DEFINE c == [pc |-> "map", new_addr |-> new, asked |-> s, granule |-> g,
                 size |-> Anon!RoundUp(s, g), alignment |-> a, addr |-> 0]
<1>1. AnonType /\ CallAsked /\ AnonOwned
  BY DEF AnonInv
<1>2. s \in Nat \ {0} /\ a \in Nat \ {0} /\ g \in Nat \ {0}
  BY AnonAssumption, SMT
<1>3. /\ Anon!RoundUp(s, g) \in Nat \ {0} /\ Anon!RoundUp(s, g) >= s
      /\ Anon!RoundUp(s, g) % g = 0
  BY <1>2, RoundUpFacts
<1>4. /\ anon_call[t].pc = "idle" /\ (new # Null => a = 1)
      /\ anon_call' = [anon_call EXCEPT ![t] = c] /\ UNCHANGED <<mapped, anon_extents, left>>
  BY DEF Anon!ExtentAlloc
<1>5. c \in AnonCall /\ Asked(c) /\ c.pc = "map"
  BY <1>2, <1>3, <1>4 DEF AnonCall, Asked
<1> HIDE DEF c
<1>6. /\ anon_call' \in [Thread -> AnonCall] /\ CallAsked' /\ anon_call'[t] = c
      /\ \A u \in Thread \ {t} : Anon!InHand(u)' = Anon!InHand(u)
  BY <1>1, <1>4, <1>5, Stepped
<1>7. Anon!InHand(t)' = {} /\ Anon!InHand(t) = {}
  BY <1>4, <1>5, <1>6, Hands, HandsAfter
<1>8. AnonOwned'
  BY <1>1, <1>4, <1>6, <1>7, HandChanges
<1> QED BY <1>1, <1>4, <1>6, <1>8 DEF AnonInv, AnonType

LEMMA MmapFailsKeeps ==
    ASSUME AnonInv, NEW t \in Thread, Anon!MmapFails(t)
    PROVE  AnonInv'
<1>1. /\ AnonType /\ CallAsked /\ AnonOwned
      /\ anon_call[t].pc \in {"map", "slow"} /\ anon_call' = [anon_call EXCEPT ![t] = Anon!NoCall]
      /\ UNCHANGED <<mapped, anon_extents, left>>
  BY DEF AnonInv, Anon!MmapFails
<1>2. /\ anon_call' \in [Thread -> AnonCall] /\ CallAsked'
      /\ Anon!InHand(t)' = {} /\ Anon!InHand(t) = {}
      /\ \A u \in Thread \ {t} : Anon!InHand(u)' = Anon!InHand(u)
  BY <1>1, Ends, Hands
<1>3. AnonOwned'
  BY <1>1, <1>2, HandChanges
<1> QED BY <1>1, <1>2, <1>3 DEF AnonInv, AnonType

\* Only an alignment of whole pages of the kind can be missed.
LEMMA MissedAlignment ==
    ASSUME NEW x \in Nat, NEW a \in AnonAlignment, NEW g \in {1, HugePage},
           x % g = 0, x % a # 0
    PROVE  a % g = 0 /\ a # 1
<1>1. a \in Nat \ {0} /\ HugePage \in Nat \ {0}
      /\ (a % HugePage = 0 \/ HugePage % a = 0)
  BY AnonAssumption
<1>2. a # 1
  BY SMT
<1>3. CASE g = 1
  BY <1>1, <1>2, <1>3, SMT
<1>4. CASE g = HugePage
  BY <1>1, <1>2, <1>4, MultipleOfMultiple
<1> QED BY <1>3, <1>4

LEMMA MapKeeps ==
    ASSUME AnonInv, NEW t \in Thread, Anon!Map(t)
    PROVE  AnonInv'
<1>0. PICK a \in Anon!Page : Anon!Mmap(t, anon_call[t].size, a) /\ Anon!AfterMap(t, a)
  BY DEF Anon!Map
<1>1. /\ AnonType /\ CallAsked /\ AnonOwned /\ UNCHANGED left
      /\ anon_call[t].pc = "map" /\ Asked(anon_call[t])
  BY DEF AnonInv, Anon!Map, CallAsked
<1>2. a \in Nat
  BY SMT DEF Anon!Page
<1> DEFINE new == a .. a + anon_call[t].size - 1
<1>3. /\ a % anon_call[t].granule = 0 /\ new \subseteq Anon!Page \ mapped
      /\ mapped' = mapped \cup new
  BY <1>0 DEF Anon!Mmap, Anon!Span
<1>4. Anon!InHand(t) = {}
  BY <1>1, Hands
<1>5. /\ anon_call[t].size >= anon_call[t].asked /\ anon_call[t].size % anon_call[t].granule = 0
      /\ anon_call[t].alignment \in AnonAlignment
      /\ anon_call[t].new_addr # Null => anon_call[t].alignment = 1
  BY <1>1 DEF Asked
<1>6. /\ anon_call[t] \in AnonCall /\ anon_call[t].size \in Nat \ {0}
      /\ anon_call[t].granule \in {1, HugePage}
  BY <1>1, CallTypes DEF AnonType
<1>7. ASSUME NEW pc \in {"wrong_place", "misaligned"}, UNCHANGED anon_extents,
             anon_call' = [anon_call EXCEPT ![t].pc = pc, ![t].addr = a],
             pc = "misaligned" => /\ anon_call[t].new_addr \in {Null, a}
                                  /\ a % anon_call[t].alignment # 0
      PROVE  AnonInv'
  <2>1. anon_call' = [anon_call EXCEPT ![t] = [anon_call[t] EXCEPT !.pc = pc, !.addr = a]]
    BY <1>1, <1>7 DEF AnonType
  <2>2. pc = "misaligned" =>
           anon_call[t].new_addr = Null /\ anon_call[t].alignment % anon_call[t].granule = 0
    BY <1>2, <1>3, <1>5, <1>6, <1>7, MissedAlignment
  <2>3. Asked([anon_call[t] EXCEPT !.pc = pc, !.addr = a])
    BY <1>3, <1>5, <1>6, <1>7, <2>2 DEF Asked, AnonCall
  <2>4. /\ anon_call' \in [Thread -> AnonCall] /\ CallAsked'
        /\ anon_call'[t].pc = pc /\ anon_call'[t].addr = a /\ anon_call'[t].size = anon_call[t].size
        /\ \A u \in Thread \ {t} : Anon!InHand(u)' = Anon!InHand(u)
    BY <1>1, <1>2, <1>7, <2>1, <2>3, Moves
  <2>5. Anon!InHand(t)' = new
    BY <1>7, <2>4, HandsAfter
  <2>6. AnonOwned'
    BY <1>1, <1>3, <1>4, <1>7, <2>4, <2>5, HandChanges
  <2> QED BY <1>1, <1>3, <1>7, <2>4, <2>6 DEF AnonInv, AnonType
<1>8. ASSUME Anon!Return(t, a) PROVE AnonInv'
  <2> DEFINE n == [addr |-> a, size |-> anon_call[t].size, granule |-> anon_call[t].granule]
  <2>1. anon_extents' = anon_extents \cup {n} /\ anon_call' = [anon_call EXCEPT ![t] = Anon!NoCall]
    BY <1>8 DEF Anon!Return
  <2>2. /\ Block(n) = new /\ n.addr = a
        /\ n.size = anon_call[t].size /\ n.granule = anon_call[t].granule
    BY DEF Block, Anon!Span
  <2> HIDE DEF n
  <2>3. /\ anon_call' \in [Thread -> AnonCall] /\ CallAsked' /\ Anon!InHand(t)' = {}
        /\ \A u \in Thread \ {t} : Anon!InHand(u)' = Anon!InHand(u)
    BY <1>1, <2>1, Ends
  <2>4. AnonOwned'
    BY <1>1, <1>3, <1>4, <2>1, <2>2, <2>3, HandReturns
  <2> QED BY <1>1, <1>2, <1>3, <1>6, <2>1, <2>2, <2>3, <2>4 DEF AnonInv, AnonType
<1>9. CASE /\ anon_call[t].new_addr \notin {Null, a}
           /\ anon_call' = [anon_call EXCEPT ![t].pc = "wrong_place", ![t].addr = a]
           /\ UNCHANGED anon_extents
  BY <1>7, <1>9
<1>10. CASE /\ anon_call[t].new_addr \in {Null, a} /\ a % anon_call[t].alignment # 0
            /\ anon_call' = [anon_call EXCEPT ![t].pc = "misaligned", ![t].addr = a]
            /\ UNCHANGED anon_extents
  BY <1>7, <1>10
<1> QED BY <1>0, <1>8, <1>9, <1>10 DEF Anon!AfterMap

LEMMA WrongPlaceKeeps ==
    ASSUME AnonInv, NEW t \in Thread, Anon!WrongPlace(t)
    PROVE  AnonInv'
<1>1. /\ AnonType /\ CallAsked /\ AnonOwned
      /\ anon_call[t].pc = "wrong_place" /\ anon_call' = [anon_call EXCEPT ![t] = Anon!NoCall]
      /\ mapped' = mapped \ (anon_call[t].addr .. anon_call[t].addr + anon_call[t].size - 1)
      /\ UNCHANGED <<anon_extents, left>>
  BY DEF AnonInv, Anon!WrongPlace, Anon!Span
<1>2. /\ anon_call' \in [Thread -> AnonCall] /\ CallAsked' /\ Anon!InHand(t)' = {}
      /\ \A u \in Thread \ {t} : Anon!InHand(u)' = Anon!InHand(u)
  BY <1>1, Ends
<1>3. mapped' = mapped \ Anon!InHand(t)
  BY <1>1, Hands
<1>4. AnonOwned'
  BY <1>1, <1>2, <1>3, HandChanges
<1> QED BY <1>1, <1>2, <1>4 DEF AnonInv, AnonType

LEMMA MisalignedKeeps ==
    ASSUME AnonInv, NEW t \in Thread, Anon!Misaligned(t)
    PROVE  AnonInv'
<1>1. /\ AnonType /\ CallAsked /\ AnonOwned /\ Asked(anon_call[t])
      /\ anon_call[t].pc = "misaligned" /\ anon_call' = [anon_call EXCEPT ![t].pc = "slow"]
      /\ mapped' = mapped \ (anon_call[t].addr .. anon_call[t].addr + anon_call[t].size - 1)
      /\ UNCHANGED <<anon_extents, left>>
  BY DEF AnonInv, Anon!Misaligned, Anon!Span, CallAsked
<1>2. anon_call[t] \in AnonCall /\ anon_call[t].addr \in Nat
  BY <1>1, CallTypes DEF AnonType
<1>3. anon_call' =
          [anon_call EXCEPT ![t] = [anon_call[t] EXCEPT !.pc = "slow", !.addr = anon_call[t].addr]]
  BY <1>1, <1>2 DEF AnonType, AnonCall
<1>4. Asked([anon_call[t] EXCEPT !.pc = "slow", !.addr = anon_call[t].addr])
  BY <1>1, <1>2 DEF Asked, AnonCall
<1>5. /\ anon_call' \in [Thread -> AnonCall] /\ CallAsked' /\ anon_call'[t].pc = "slow"
      /\ \A u \in Thread \ {t} : Anon!InHand(u)' = Anon!InHand(u)
  BY <1>1, <1>2, <1>3, <1>4, Moves
<1>6. mapped' = mapped \ Anon!InHand(t) /\ Anon!InHand(t)' = {}
  BY <1>1, <1>5, Hands, HandsAfter
<1>7. AnonOwned'
  BY <1>1, <1>5, <1>6, HandChanges
<1> QED BY <1>1, <1>5, <1>7 DEF AnonInv, AnonType

LEMMA SlowMapKeeps ==
    ASSUME AnonInv, NEW t \in Thread, Anon!SlowMap(t)
    PROVE  AnonInv'
<1>0. PICK a \in Anon!Page :
          /\ Anon!Mmap(t, Anon!Extended(t), a)
          /\ anon_call' = [anon_call EXCEPT ![t].pc = "head", ![t].addr = a]
  BY DEF Anon!SlowMap
<1>1. /\ AnonType /\ CallAsked /\ AnonOwned /\ Asked(anon_call[t])
      /\ anon_call[t].pc = "slow" /\ UNCHANGED <<anon_extents, left>>
  BY DEF AnonInv, Anon!SlowMap, CallAsked
<1> DEFINE new == a .. a + (anon_call[t].size + anon_call[t].alignment) - 1
<1>2. /\ a % anon_call[t].granule = 0 /\ new \subseteq Anon!Page \ mapped
      /\ mapped' = mapped \cup new
  BY <1>0 DEF Anon!Mmap, Anon!Span, Anon!Extended
<1>3. anon_call[t] \in AnonCall /\ a \in Nat
  BY <1>1, SMT DEF AnonType, Anon!Page
<1>4. anon_call' = [anon_call EXCEPT ![t] = [anon_call[t] EXCEPT !.pc = "head", !.addr = a]]
  BY <1>0, <1>1 DEF AnonType
<1>5. Asked([anon_call[t] EXCEPT !.pc = "head", !.addr = a])
  BY <1>1, <1>2, <1>3 DEF Asked, AnonCall
<1>6. /\ anon_call' \in [Thread -> AnonCall] /\ CallAsked' /\ anon_call'[t].pc = "head"
      /\ anon_call'[t].addr = a /\ anon_call'[t].size = anon_call[t].size
      /\ anon_call'[t].alignment = anon_call[t].alignment
      /\ \A u \in Thread \ {t} : Anon!InHand(u)' = Anon!InHand(u)
  BY <1>1, <1>3, <1>4, <1>5, Moves
<1>7. Anon!InHand(t) = {} /\ Anon!InHand(t)' = new
  BY <1>1, <1>6, Hands, HandsAfter
<1>8. AnonOwned'
  BY <1>1, <1>2, <1>6, <1>7, HandChanges
<1> QED BY <1>1, <1>2, <1>6, <1>8 DEF AnonInv, AnonType

LEMMA CutHeadKeeps ==
    ASSUME AnonInv, NEW t \in Thread, Anon!CutHead(t)
    PROVE  AnonInv'
<1>1. /\ AnonType /\ CallAsked /\ AnonOwned /\ Asked(anon_call[t])
      /\ anon_call[t].pc = "head" /\ anon_call' = [anon_call EXCEPT ![t].pc = "tail"]
      /\ mapped' = mapped \ (anon_call[t].addr .. Anon!AlignedAddr(t) - 1)
      /\ UNCHANGED <<anon_extents, left>>
  BY DEF AnonInv, Anon!CutHead, CallAsked
<1>2. anon_call[t] \in AnonCall /\ anon_call[t].addr \in Nat /\ anon_call[t].size \in Nat
      /\ anon_call[t].alignment \in Nat
  BY <1>1, CallTypes DEF AnonType
<1>3. anon_call' =
          [anon_call EXCEPT ![t] = [anon_call[t] EXCEPT !.pc = "tail", !.addr = anon_call[t].addr]]
  BY <1>1, <1>2 DEF AnonType, AnonCall
<1>4. Asked([anon_call[t] EXCEPT !.pc = "tail", !.addr = anon_call[t].addr])
  BY <1>1, <1>2 DEF Asked, AnonCall
<1>5. /\ anon_call' \in [Thread -> AnonCall] /\ CallAsked' /\ anon_call'[t].pc = "tail"
      /\ anon_call'[t].addr = anon_call[t].addr /\ anon_call'[t].size = anon_call[t].size
      /\ anon_call'[t].alignment = anon_call[t].alignment
      /\ \A u \in Thread \ {t} : Anon!InHand(u)' = Anon!InHand(u)
  BY <1>1, <1>2, <1>3, <1>4, Moves
<1> DEFINE last == anon_call[t].addr + (anon_call[t].size + anon_call[t].alignment) - 1
<1>6. Anon!AlignedAddr(t)' = Anon!AlignedAddr(t)
  BY <1>5 DEF Anon!AlignedAddr
<1>7. /\ Anon!InHand(t) = anon_call[t].addr .. last
      /\ Anon!InHand(t)' = Anon!AlignedAddr(t) .. last
  BY <1>1, <1>5, <1>6, Hands, HandsAfter
<1>8. /\ Anon!AlignedAddr(t) \in Nat /\ anon_call[t].addr < Anon!AlignedAddr(t)
      /\ Anon!AlignedAddr(t) <= anon_call[t].addr + anon_call[t].alignment
  BY <1>1, AlignedAddrFacts
<1>9. Anon!InHand(t)' = Anon!InHand(t) \ (anon_call[t].addr .. Anon!AlignedAddr(t) - 1)
      /\ (anon_call[t].addr .. Anon!AlignedAddr(t) - 1) \subseteq Anon!InHand(t)
  BY <1>2, <1>7, <1>8, SMTT(30)
<1>10. Anon!InHand(t) \subseteq mapped
  BY <1>1 DEF AnonOwned
<1>11. mapped' = (mapped \ Anon!InHand(t)) \cup Anon!InHand(t)'
  BY <1>1, <1>9, <1>10
<1>12. AnonOwned'
  BY <1>1, <1>5, <1>9, <1>11, HandChanges
<1> QED BY <1>1, <1>5, <1>12 DEF AnonInv, AnonType

LEMMA CutTailKeeps ==
    ASSUME AnonInv, NEW t \in Thread, Anon!CutTail(t)
    PROVE  AnonInv'
<1> DEFINE a == Anon!AlignedAddr(t)
           n == [addr |-> a, size |-> anon_call[t].size, granule |-> anon_call[t].granule]
           last == anon_call[t].addr + (anon_call[t].size + anon_call[t].alignment) - 1
<1>1. /\ AnonType /\ CallAsked /\ AnonOwned /\ anon_call[t].pc = "tail" /\ UNCHANGED left
      /\ mapped' = mapped \ (a + anon_call[t].size .. last)
      /\ anon_extents' = anon_extents \cup {n} /\ anon_call' = [anon_call EXCEPT ![t] = Anon!NoCall]
  BY DEF AnonInv, Anon!CutTail, Anon!Return, Anon!Extended
<1>2. anon_call[t].addr \in Nat /\ anon_call[t].size \in Nat \ {0} /\ anon_call[t].alignment \in Nat
      /\ anon_call[t].granule \in {1, HugePage}
  BY <1>1, CallTypes
<1>3. a \in Nat /\ anon_call[t].addr < a /\ a <= anon_call[t].addr + anon_call[t].alignment
  BY <1>1, AlignedAddrFacts
<1>4. Anon!InHand(t) = a .. last
  BY <1>1, Hands
<1>5. /\ Block(n) = a .. a + anon_call[t].size - 1
      /\ n.addr = a /\ n.size = anon_call[t].size /\ n.granule = anon_call[t].granule
  BY DEF Block, Anon!Span
<1>6. /\ anon_call' \in [Thread -> AnonCall] /\ CallAsked' /\ Anon!InHand(t)' = {}
      /\ \A u \in Thread \ {t} : Anon!InHand(u)' = Anon!InHand(u)
  BY <1>1, Ends
<1> HIDE DEF n, a
<1>7. Block(n) = Anon!InHand(t) \ (a + anon_call[t].size .. last)
      /\ (a + anon_call[t].size .. last) \subseteq Anon!InHand(t)
  <2>1. last \in Int /\ a + anon_call[t].size - 1 <= last /\ a \in Int /\ anon_call[t].size \in Nat
    BY <1>2, <1>3, SMT
  <2>2. \A x, y, z \in Int : \A m \in Nat :
           x + m - 1 <= y => /\ x .. x + m - 1 = (x .. y) \ (x + m .. y)
                             /\ (x + m .. y) \subseteq (x .. y)
    BY SMT
  <2> HIDE DEF last
  <2> QED BY <1>4, <1>5, <2>1, <2>2, SMTT(30)
<1>8. Anon!InHand(t) \subseteq mapped
  BY <1>1 DEF AnonOwned
<1>9. mapped' = (mapped \ Anon!InHand(t)) \cup Block(n)
  BY <1>1, <1>7, <1>8
<1>10. AnonOwned'
  BY <1>1, <1>6, <1>7, <1>9, HandReturns
<1> QED BY <1>1, <1>2, <1>3, <1>5, <1>6, <1>10 DEF AnonInv, AnonType

LEMMA ExtentDestroyKeeps ==
    ASSUME AnonInv, NEW n \in anon_extents, Anon!ExtentDestroy(n)
    PROVE  AnonInv'
<1>1. /\ AnonType /\ CallAsked /\ AnonOwned /\ UNCHANGED anon_call
      /\ anon_extents' = anon_extents \ {n} /\ left' = left \cup Block(n) /\ UNCHANGED mapped
  BY DEF AnonInv, Anon!ExtentDestroy, Block
<1>2. \A u \in Thread : Anon!InHand(u)' = Anon!InHand(u)
  BY <1>1, HandsAfter
<1>3. AnonOwned'
  <2>1. \A p : p \in mapped' <=> \/ p \in left'
                                 \/ \E e \in anon_extents' : p \in Block(e)
                                 \/ \E u \in Thread : p \in Anon!InHand(u)'
    BY <1>1, <1>2, SMT DEF AnonOwned
  <2>2. \A u, v \in Thread : u # v => Anon!InHand(u)' \cap Anon!InHand(v)' = {}
    BY <1>1, <1>2 DEF AnonOwned
  <2>3. \A e \in anon_extents', u \in Thread : Block(e) \cap Anon!InHand(u)' = {}
    BY <1>1, <1>2 DEF AnonOwned
  <2>4. \A d, e \in anon_extents' : d # e => Block(d) \cap Block(e) = {}
    BY <1>1 DEF AnonOwned
  <2>5. /\ \A e \in anon_extents' : Block(e) \cap left' = {}
        /\ \A u \in Thread : Anon!InHand(u)' \cap left' = {}
    BY <1>1, <1>2, SMT DEF AnonOwned
  <2> QED BY <2>1, <2>2, <2>3, <2>4, <2>5 DEF AnonOwned, Block
<1>4. AnonType' /\ CallAsked'
  BY <1>1 DEF AnonType, CallAsked
<1> QED BY <1>3, <1>4 DEF AnonInv

-----------------------------------------------------------------------------
LEMMA AnonInit == ASSUME Anon!Init PROVE AnonInv
<1>1. mapped = {} /\ anon_extents = {} /\ left = {} /\ anon_call = [t \in Thread |-> Anon!NoCall]
  BY DEF Anon!Init
<1>2. AnonType /\ CallAsked
  BY <1>1, NoCallFacts DEF AnonType, CallAsked
<1>3. \A t \in Thread : Anon!InHand(t) = {}
  BY <1>1, NoCallFacts, Hands
<1> QED BY <1>1, <1>2, <1>3 DEF AnonInv, AnonOwned

LEMMA AnonStep == ASSUME AnonInv, [Anon!Next]_anon_vars PROVE AnonInv'
<1>1. CASE UNCHANGED anon_vars
  <2>1. \A u \in Thread : Anon!InHand(u)' = Anon!InHand(u)
    BY <1>1, HandsAfter DEF anon_vars
  <2>2. AnonType' /\ CallAsked'
    BY <1>1 DEF anon_vars, AnonInv, AnonType, CallAsked
  <2>3. AnonOwned'
    BY <1>1, <2>1, SMT DEF anon_vars, AnonInv, AnonOwned, Block
  <2> QED BY <2>2, <2>3 DEF AnonInv
<1>2. ASSUME NEW t \in Thread, Anon!Hook(t) PROVE AnonInv'
  BY <1>2, ExtentAllocKeeps, MmapFailsKeeps, MapKeeps, WrongPlaceKeeps, MisalignedKeeps,
     SlowMapKeeps, CutHeadKeeps, CutTailKeeps DEF Anon!Hook
<1>3. ASSUME NEW e \in anon_extents, Anon!ExtentDestroy(e) PROVE AnonInv'
  BY <1>3, ExtentDestroyKeeps
<1> QED BY <1>1, <1>2, <1>3 DEF Anon!Next

LEMMA HooksStep ==
    ASSUME [HooksNext]_hooks_vars PROVE [Anon!Next]_anon_vars
  BY DEF HooksNext, CreateMap, hooks_vars

LEMMA AnonHolds == HooksSpec => []AnonInv
<1>1. HooksInit => AnonInv
  BY AnonInit DEF HooksInit
<1>2. AnonInv /\ [HooksNext]_hooks_vars => AnonInv'
  BY HooksStep, AnonStep
<1> QED BY <1>1, <1>2, PTL DEF HooksSpec

(* Every mapped page is part of one extent, in the hands of one call of    *)
(* arena_extent_alloc or left by an arena that was destroyed: the cutting  *)
(* to size of alloc_aligned_slow leaks no page and takes none from another *)
(* extent or thread, for any number of threads, any alignment and any      *)
(* sizes.                                                                  *)
THEOREM PagesOwnedHolds == HooksSpec => []PagesOwned
<1>1. AnonInv => PagesOwned
  <2> SUFFICES ASSUME AnonInv PROVE PagesOwned
    OBVIOUS
  <2>1. AnonType /\ AnonOwned
    BY DEF AnonInv
  <2>2. \A e \in anon_extents : e.addr \in Block(e)
    BY <2>1, SMT DEF AnonType, Block, Anon!Span
  <2>3. \A e \in anon_extents : e.addr \in Anon!Page
    BY <2>1, <2>2 DEF AnonType, AnonOwned
  <2>4. Anon!TypeOK
    BY <2>1, <2>3, CallTypes DEF Anon!TypeOK, AnonType
  <2>5. mapped = left \cup
           UNION ({Block(e) : e \in anon_extents} \cup {Anon!InHand(t) : t \in Thread})
    BY <2>1, SMT DEF AnonOwned
  <2> QED BY <2>1, <2>4, <2>5 DEF PagesOwned, Anon!PagesOwned, AnonOwned, Block
<1> QED BY <1>1, AnonHolds, PTL

\* What is returned is as it was asked for.
LEMMA ReturnAsAsked ==
    ASSUME AnonInv, NEW t \in Thread, NEW a \in Nat, Anon!Return(t, a),
           anon_call[t].pc # "idle", a % anon_call[t].alignment = 0, a % anon_call[t].granule = 0,
           anon_call[t].new_addr \in {Null, a},
           NEW u \in Thread, NEW e \in anon_extents' \ anon_extents, anon_call[u] # anon_call'[u]
    PROVE  /\ e.addr % anon_call[u].alignment = 0
           /\ e.size >= anon_call[u].asked
           /\ e.addr % e.granule = 0 /\ e.size % e.granule = 0
           /\ anon_call[u].new_addr \in {Null, e.addr}
<1>1. AnonType /\ Asked(anon_call[t])
  BY DEF AnonInv, CallAsked
<1>2. u = t
  BY <1>1 DEF Anon!Return, AnonType
<1>3. e.addr = a /\ e.size = anon_call[t].size /\ e.granule = anon_call[t].granule
  BY SMT DEF Anon!Return
<1> QED BY <1>1, <1>2, <1>3 DEF Asked

(* What a call of arena_extent_alloc returns has the alignment and at      *)
(* least the size jemalloc asked for, is made of whole pages of the kind   *)
(* and is where jemalloc wanted it, on the fast path and on that of        *)
(* alloc_aligned_slow.                                                     *)
THEOREM AsAskedHolds == HooksSpec => AsAsked
<1> DEFINE Good == \A t \in Thread, e \in anon_extents' \ anon_extents :
                      anon_call[t] # anon_call'[t] =>
                      /\ e.addr % anon_call[t].alignment = 0
                      /\ e.size >= anon_call[t].asked
                      /\ e.addr % e.granule = 0 /\ e.size % e.granule = 0
                      /\ anon_call[t].new_addr \in {Null, e.addr}
<1>1. AnonInv /\ [HooksNext]_hooks_vars => [Good]_anon_vars
  <2> SUFFICES ASSUME AnonInv, Anon!Next PROVE Good
    BY HooksStep
  <2>0. AnonType /\ CallAsked
    BY DEF AnonInv
  <2>1. ASSUME NEW t \in Thread, Anon!Map(t) PROVE Good
    <3>1. PICK a \in Anon!Page : Anon!Mmap(t, anon_call[t].size, a) /\ Anon!AfterMap(t, a)
      BY <2>1 DEF Anon!Map
    <3>2. a \in Nat /\ anon_call[t].pc # "idle" /\ a % anon_call[t].granule = 0
      BY <2>1, <3>1, SMT DEF Anon!Page, Anon!Map, Anon!Mmap
    <3>3. CASE UNCHANGED anon_extents
      BY <3>3
    <3>4. CASE /\ anon_call[t].new_addr \in {Null, a} /\ a % anon_call[t].alignment = 0
               /\ Anon!Return(t, a)
      BY <3>2, <3>4, ReturnAsAsked
    <3> QED BY <3>1, <3>3, <3>4 DEF Anon!AfterMap
  <2>2. ASSUME NEW t \in Thread, Anon!CutTail(t) PROVE Good
    <3> DEFINE a == Anon!AlignedAddr(t)
    <3>1. anon_call[t].pc = "tail" /\ Anon!Return(t, a) /\ Asked(anon_call[t])
      BY <2>0, <2>2 DEF Anon!CutTail, CallAsked
    <3>2. a \in Nat /\ a % anon_call[t].alignment = 0
      BY <2>0, AlignedAddrFacts
    <3>3. anon_call[t].new_addr = Null /\ anon_call[t].alignment % anon_call[t].granule = 0
      BY <3>1 DEF Asked
    <3>4. anon_call[t].alignment \in Nat \ {0} /\ anon_call[t].granule \in Nat \ {0}
      BY <2>0, CallTypes
    <3> HIDE DEF a
    <3>5. a % anon_call[t].granule = 0
      BY <3>2, <3>3, <3>4, MultipleOfMultiple
    <3> QED BY <3>1, <3>2, <3>3, <3>5, ReturnAsAsked
  <2>3. CASE anon_extents' \subseteq anon_extents
    BY <2>3
  <2> QED
    BY <2>1, <2>2, <2>3 DEF Anon!Next, Anon!Hook, Anon!ExtentAlloc, Anon!MmapFails,
       Anon!WrongPlace, Anon!Misaligned, Anon!SlowMap, Anon!CutHead, Anon!ExtentDestroy
<1>2. []AnonInv /\ [][HooksNext]_hooks_vars => [][Good]_anon_vars
  BY <1>1, PTL
<1> QED BY <1>2, AnonHolds, PTL DEF HooksSpec, AsAsked, Anon!AsAsked, anon_vars, Anon!vars
=============================================================================
