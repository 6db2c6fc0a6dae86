----------------------------- MODULE ArenaExtents -----------------------------
(***************************************************************************)
(* The extent hooks of the kinds that map anonymous memory                 *)
(* (src/src/memkind_arena.c): jemalloc asks arena_extent_alloc for an      *)
(* extent of a size and an alignment, mmap only promises pages, so when    *)
(* the address is not a multiple of the alignment the memory is given back *)
(* and alloc_aligned_slow maps more than is needed and cuts it to size.    *)
(*                                                                         *)
(* Addresses, sizes and alignments are in pages.  Nothing is locked: the   *)
(* calls of several threads, each of several system calls, interleave.     *)
(***************************************************************************)
EXTENDS Integers

CONSTANTS
    Thread,
    LastPage,    \* the pages of the address space are 0 .. LastPage
    Size,        \* sizes jemalloc asks for
    Alignment,   \* powers of two
    HugePage,    \* HUGE_PAGE_SIZE
    Null         \* no new_addr

VARIABLES
    mapped,    \* the pages mapped for the kind
    extents,   \* what jemalloc was given
    left,      \* the pages of the arenas that were destroyed
    call       \* the hook each thread is in

vars == <<mapped, extents, left, call>>

Page == 0 .. LastPage

Span(addr, size) == addr .. addr + size - 1

NoCall ==
    [pc |-> "idle", new_addr |-> Null, asked |-> 1, granule |-> 1,
     size |-> 1, alignment |-> 1, addr |-> 0]

Init ==
    /\ mapped = {}
    /\ extents = {}
    /\ left = {}
    /\ call = [t \in Thread |-> NoCall]

\* arena_extent_alloc_hugetlb rounds the size up to huge pages first.
RoundUp(size, granule) == ((size + (granule - 1)) \div granule) * granule

\* jemalloc passes new_addr only to extend an extent, with the least alignment.
ExtentAlloc(t, new, s, a, g) ==
    /\ call[t].pc = "idle"
    /\ new # Null => a = 1
    /\ call' = [call EXCEPT ![t] = [pc |-> "map", new_addr |-> new, asked |-> s,
                                    granule |-> g, size |-> RoundUp(s, g),
                                    alignment |-> a, addr |-> 0]]
    /\ UNCHANGED <<mapped, extents, left>>

(***************************************************************************)
(* memkind_default_mmap: the kernel chooses any free pages, at multiples   *)
(* of the page of the kind, and need not follow the hint.  When the memory *)
(* cannot be bound to its nodes it is unmapped again.                      *)
(***************************************************************************)
Mmap(t, size, addr) ==
    /\ addr % call[t].granule = 0
    /\ Span(addr, size) \subseteq Page \ mapped
    /\ mapped' = mapped \cup Span(addr, size)

MmapFails(t) ==
    /\ call[t].pc \in {"map", "slow"}
    /\ call' = [call EXCEPT ![t] = NoCall]
    /\ UNCHANGED <<mapped, extents, left>>

Return(t, addr) ==
    /\ extents' = extents \cup {[addr |-> addr, size |-> call[t].size,
                                 granule |-> call[t].granule]}
    /\ call' = [call EXCEPT ![t] = NoCall]

\* A mutant: an address that is not the one asked for is accepted.
AfterMapAnyPlace(t, addr) ==
    IF addr % call[t].alignment # 0
    THEN call' = [call EXCEPT ![t].pc = "misaligned", ![t].addr = addr] /\ UNCHANGED extents
    ELSE Return(t, addr)

AfterMap(t, addr) ==
    \/ /\ call[t].new_addr \notin {Null, addr}
       /\ call' = [call EXCEPT ![t].pc = "wrong_place", ![t].addr = addr]
       /\ UNCHANGED extents
    \/ /\ call[t].new_addr \in {Null, addr}
       /\ addr % call[t].alignment # 0
       /\ call' = [call EXCEPT ![t].pc = "misaligned", ![t].addr = addr]
       /\ UNCHANGED extents
    \/ /\ call[t].new_addr \in {Null, addr}
       /\ addr % call[t].alignment = 0
       /\ Return(t, addr)

Map(t) ==
    /\ call[t].pc = "map"
    /\ \E addr \in Page : Mmap(t, call[t].size, addr) /\ AfterMap(t, addr)
    /\ UNCHANGED left

WrongPlace(t) ==
    /\ call[t].pc = "wrong_place"
    /\ mapped' = mapped \ Span(call[t].addr, call[t].size)
    /\ call' = [call EXCEPT ![t] = NoCall]
    /\ UNCHANGED <<extents, left>>

\* A mutant: the first mapping is not given back.
MisalignedForgets(t) ==
    /\ call[t].pc = "misaligned"
    /\ call' = [call EXCEPT ![t].pc = "slow"]
    /\ UNCHANGED <<mapped, extents, left>>

Misaligned(t) ==
    /\ call[t].pc = "misaligned"
    /\ mapped' = mapped \ Span(call[t].addr, call[t].size)
    /\ call' = [call EXCEPT ![t].pc = "slow"]
    /\ UNCHANGED <<extents, left>>

-----------------------------------------------------------------------------
(* alloc_aligned_slow *)

Extended(t) == call[t].size + call[t].alignment

SlowMap(t) ==
    /\ call[t].pc = "slow"
    /\ \E addr \in Page :
          /\ Mmap(t, Extended(t), addr)
          /\ call' = [call EXCEPT ![t].pc = "head", ![t].addr = addr]
    /\ UNCHANGED <<extents, left>>

\* (addr + alignment) & ~(alignment - 1)
AlignedAddr(t) ==
    LET end == call[t].addr + call[t].alignment
    IN end - (end % call[t].alignment)

CutHead(t) ==
    /\ call[t].pc = "head"
    /\ mapped' = mapped \ (call[t].addr .. AlignedAddr(t) - 1)
    /\ call' = [call EXCEPT ![t].pc = "tail"]
    /\ UNCHANGED <<extents, left>>

CutTail(t) ==
    /\ call[t].pc = "tail"
    /\ mapped' = mapped \ (AlignedAddr(t) + call[t].size .. call[t].addr + Extended(t) - 1)
    /\ Return(t, AlignedAddr(t))
    /\ UNCHANGED left

-----------------------------------------------------------------------------
(***************************************************************************)
(* arena_extent_dalloc declines every extent, so jemalloc keeps what it    *)
(* has.  When an arena is destroyed jemalloc forgets its extents, and as   *)
(* the tables have no destroy hook it calls none and unmaps nothing.  The  *)
(* kinds with huge pages are static, their arenas live as long as the      *)
(* process.                                                                *)
(***************************************************************************)
ExtentDestroy(e) ==
    /\ e.granule = 1
    /\ e \in extents
    /\ extents' = extents \ {e}
    /\ left' = left \cup Span(e.addr, e.size)
    /\ UNCHANGED <<mapped, call>>

Hook(t) ==
    \/ \E new \in Page \cup {Null}, s \in Size, a \in Alignment, g \in {1, HugePage} :
          ExtentAlloc(t, new, s, a, g)
    \/ MmapFails(t) \/ Map(t) \/ WrongPlace(t) \/ Misaligned(t)
    \/ SlowMap(t) \/ CutHead(t) \/ CutTail(t)

Next == (\E t \in Thread : Hook(t)) \/ (\E e \in extents : ExtentDestroy(e))

Spec == Init /\ [][Next]_vars

-----------------------------------------------------------------------------
TypeOK ==
    /\ mapped \subseteq Page
    /\ \A e \in extents : e.addr \in Page /\ e.size \in Nat \ {0} /\ e.granule \in {1, HugePage}
    /\ \A t \in Thread :
          call[t].pc \in {"idle", "map", "wrong_place", "misaligned", "slow", "head", "tail"}

\* What a call has mapped and neither returned nor given back.
InHand(t) ==
    CASE call[t].pc \in {"wrong_place", "misaligned"} -> Span(call[t].addr, call[t].size)
      [] call[t].pc = "head" -> Span(call[t].addr, Extended(t))
      [] call[t].pc = "tail" -> AlignedAddr(t) .. call[t].addr + Extended(t) - 1
      [] OTHER -> {}

(* Every mapped page is part of one extent or in the hands of one call, or *)
(* was left mapped when its arena was destroyed: no page is leaked by the  *)
(* cutting to size, and none is cut out of memory that belongs to another  *)
(* extent or to the call of another thread.                                *)
PagesOwned ==
    /\ TypeOK
    /\ mapped = left \cup UNION ({Span(e.addr, e.size) : e \in extents} \cup {InHand(t) : t \in Thread})
    /\ \A e \in extents : Span(e.addr, e.size) \cap left = {}
    /\ \A t \in Thread : InHand(t) \cap left = {}
    /\ \A d, e \in extents : d # e => Span(d.addr, d.size) \cap Span(e.addr, e.size) = {}
    /\ \A s, t \in Thread : s # t => InHand(s) \cap InHand(t) = {}
    /\ \A e \in extents, t \in Thread : Span(e.addr, e.size) \cap InHand(t) = {}

(* Action property: what a call of arena_extent_alloc returns, on either  *)
(* path, has the alignment and at least the size jemalloc asked for, is    *)
(* made of whole pages of the kind, and is where jemalloc wanted it.       *)
AsAsked ==
    [][\A t \in Thread, e \in extents' \ extents : call[t] # call'[t] =>
          /\ e.addr % call[t].alignment = 0
          /\ e.size >= call[t].asked
          /\ e.addr % e.granule = 0 /\ e.size % e.granule = 0
          /\ call[t].new_addr \in {Null, e.addr}]_vars
=============================================================================
