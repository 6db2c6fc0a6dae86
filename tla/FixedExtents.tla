----------------------------- MODULE FixedExtents -----------------------------
(***************************************************************************)
(* The memory of a fixed kind (src/src/memkind_fixed.c): an area that the  *)
(* program names in memkind_create_fixed and that is handed out once, from *)
(* its start to its end, by jemalloc's extent hook                         *)
(* (memkind_fixed_mmap_aligned) or by ops.mmap (memkind_fixed_mmap).       *)
(*                                                                         *)
(* Both hold priv->lock from the first read to the last write, so each is  *)
(* one step.  Addresses and sizes are in pages and size_t sums wrap at     *)
(* 2^64, here at Wrap.  The pages keep what is written to them when the    *)
(* kind is destroyed: the area belongs to the program, which may have      *)
(* written to it before it creates a kind.                                 *)
(***************************************************************************)
EXTENDS Integers

CONSTANTS
    Start,       \* memkind_create_fixed(Start, AreaSize, ..)
    AreaSize,
    Size,        \* sizes of extents, at most LargestRequest of jemalloc
    Alignment,   \* alignments of extents
    Wrap,
    MaxKinds     \* how many kinds are created on the area, one after another

VARIABLES
    alive,     \* the kind exists
    kinds,     \* kinds created so far
    addr,      \* priv->addr
    current,   \* priv->current
    extents,   \* what was handed out
    dirty      \* pages of the area that are not zero

vars == <<alive, kinds, addr, current, extents, dirty>>

Span(e) == e.addr .. e.addr + e.size - 1

Area == Start .. Start + AreaSize - 1

Init ==
    /\ alive = FALSE
    /\ kinds = 0
    /\ addr = Start
    /\ current = 0
    /\ extents = {}
    /\ dirty = {}

\* The area is the program's: zeroed, or in use before.
CreateFixed ==
    /\ ~alive
    /\ kinds < MaxKinds
    /\ alive' = TRUE
    /\ kinds' = kinds + 1
    /\ addr' = Start
    /\ current' = 0
    /\ dirty' \in {{}, Area}
    /\ UNCHANGED extents

Destroy ==
    /\ alive
    /\ alive' = FALSE
    /\ extents' = {}
    /\ UNCHANGED <<kinds, addr, current, dirty>>

-----------------------------------------------------------------------------
\* fixed_extent_alloc reports every extent as zeroed.
HandOut(a, size, alignment) ==
    extents' = extents \cup {[addr |-> a, size |-> size, alignment |-> alignment,
                              zeroed |-> Span([addr |-> a, size |-> size]) \cap dirty = {}]}

AlignOffset(alignment) ==
    IF addr % alignment = 0 THEN 0 ELSE alignment - (addr % alignment)

\* A mutant: the gap is not counted against the size.
FitsAlignedWithoutGap(size, alignment) == (current + size) % Wrap <= AreaSize

FitsAligned(size, alignment) == (current + size + AlignOffset(alignment)) % Wrap <= AreaSize

\* A request that does not fit returns MAP_FAILED and changes nothing.
MmapAligned(size, alignment) ==
    /\ alive
    /\ FitsAligned(size, alignment)
    /\ HandOut(addr + AlignOffset(alignment), size, alignment)
    /\ addr' = addr + AlignOffset(alignment) + size
    /\ current' = current + size + AlignOffset(alignment)
    /\ UNCHANGED <<alive, kinds, dirty>>

\* An area of size 0 would turn this limit off.
Mmap(size) ==
    /\ alive
    /\ AreaSize = 0 \/ (current + size) % Wrap <= AreaSize
    /\ HandOut(addr, size, 1)
    /\ addr' = addr + size
    /\ current' = current + size
    /\ UNCHANGED <<alive, kinds, dirty>>

\* The program writes to memory it was given.
Use(e) ==
    /\ e \in extents
    /\ dirty' = dirty \cup Span(e)
    /\ UNCHANGED <<alive, kinds, addr, current, extents>>

Next ==
    \/ CreateFixed \/ Destroy
    \/ \E s \in Size, a \in Alignment : MmapAligned(s, a)
    \/ \E s \in Size : Mmap(s)
    \/ \E e \in extents : Use(e)

Spec == Init /\ [][Next]_vars

-----------------------------------------------------------------------------
TypeOK ==
    /\ alive \in BOOLEAN
    /\ kinds \in 0 .. MaxKinds
    /\ addr \in Nat /\ current \in Nat
    /\ \A e \in extents : /\ e.addr \in Nat /\ e.size \in Size /\ e.alignment \in Nat \ {0}
                          /\ e.zeroed \in BOOLEAN
    /\ dirty \subseteq Int

(* Memory is handed out once: after any number of aligned and unaligned    *)
(* requests no two extents share a page.                                   *)
Disjoint ==
    \A d, e \in extents : d = e \/ d.addr + d.size <= e.addr \/ e.addr + e.size <= d.addr

(* Every extent lies in the program's area, however large the request and  *)
(* the alignment jemalloc passes: the size_t sum in the limit test of      *)
(* memkind_fixed_mmap_aligned does not wrap into an acceptance.            *)
InArea == \A e \in extents : Start <= e.addr /\ e.addr + e.size <= Start + AreaSize

(* fixed_extent_alloc keeps jemalloc's contract on the alignment.          *)
Aligned == \A e \in extents : e.addr % e.alignment = 0

(* The bump pointer and the count agree, so the limit test, which only     *)
(* reads current, is a test on the address.                                *)
Accounted == alive => addr = Start + current /\ current <= AreaSize

(* Together: what the hooks of a fixed kind give to jemalloc is memory of  *)
(* its own, where and how it was asked for.                                *)
MemorySafe == Disjoint /\ InArea /\ Aligned /\ Accounted

(* memkind_calloc gives zeroed memory, and the area of a fixed kind "can   *)
(* be allocated in any possible way" (doc/memkind.3.md).  jemalloc clears  *)
(* no extent that the hook reports as zeroed, and fixed_extent_alloc       *)
(* reports every one: so every one has to be.                              *)
ZeroedAsClaimed == \A e \in extents : e.zeroed
=============================================================================
