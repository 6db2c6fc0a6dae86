------------------------------ MODULE ExtentHooks ------------------------------
(***************************************************************************)
(* An arena and its table of extent hooks.  memkind_arena_create_map gives *)
(* every arena of a kind one table when it is created and no call changes  *)
(* it afterwards: a kind on a file gets the one that maps its file         *)
(* (PmemExtents, which this module extends), the kinds of memkind_arena.c  *)
(* get a table that maps anonymous memory (ArenaExtents), and a kind of    *)
(* memkind_create_fixed gets the one that hands out the program's area     *)
(* (FixedExtents).                                                         *)
(***************************************************************************)
EXTENDS PmemExtents

CONSTANTS
    AnonLastPage, HugePage, Null,
    AnonSize,         \* sizes of anonymous extents
    AnonAlignment,    \* and their alignments
    Start, AreaSize, MaxKinds,
    FixedSize,        \* sizes of the extents of an area, at most jemalloc's largest
    FixedAlignment,   \* and their alignments
    FixedWrap

VARIABLES
    hooks,            \* config.extent_hooks
    mapped, anon_extents, left, anon_call,
    alive, kinds, addr, current, fixed_extents, dirty

Anon == INSTANCE ArenaExtents
            WITH LastPage <- AnonLastPage, Size <- AnonSize, Alignment <- AnonAlignment,
                 extents <- anon_extents, call <- anon_call

Fixed == INSTANCE FixedExtents
            WITH Size <- FixedSize, Alignment <- FixedAlignment, Wrap <- FixedWrap,
                 extents <- fixed_extents

ASSUME AnonAssumption ==
    /\ AnonLastPage \in Nat
    /\ AnonSize \subseteq Nat \ {0}
    /\ AnonAlignment \subseteq Nat \ {0}
    /\ HugePage \in Nat \ {0}
    \* both are powers of two
    /\ \A a \in AnonAlignment : a % HugePage = 0 \/ HugePage % a = 0
    /\ Null \notin Int

\* jemalloc refuses sizes above SC_LARGE_MAXCLASS, 7/16 of the address space, and
\* alignments above its largest power of two; memory of a program is below 2^47.
ASSUME FixedAssumption ==
    /\ FixedWrap \in Nat /\ Start \in Nat /\ AreaSize \in Nat \ {0} /\ MaxKinds \in Nat
    /\ Start + AreaSize < FixedWrap
    /\ 4 * AreaSize <= FixedWrap
    /\ FixedSize \subseteq Nat \ {0} /\ \A s \in FixedSize : 16 * s <= 7 * FixedWrap
    /\ FixedAlignment \subseteq Nat \ {0} /\ \A a \in FixedAlignment : 4 * a <= FixedWrap

anon_vars == <<mapped, anon_extents, left, anon_call>>
fixed_vars == <<alive, kinds, addr, current, fixed_extents, dirty>>
hooks_vars == <<hooks, vars, anon_vars, fixed_vars>>

HooksInit == Init /\ Anon!Init /\ Fixed!Init /\ hooks = "none"

(***************************************************************************)
(* The caller chooses: get_extent_hooks_by_kind, &fixed_extent_hooks or    *)
(* &pmem_extent_hooks.  MEMKIND_HOG_MEMORY chooses another table of two    *)
(* families, but in that of anonymous memory only for the hook that        *)
(* purges, which gives no page back: there it is left out.                 *)
(***************************************************************************)
CreateMap(table) ==
    /\ hooks = "none"
    /\ hog => table = "pmem_extent_hooks"
    /\ hooks' = table
    /\ UNCHANGED <<vars, anon_vars, fixed_vars>>

Tables == {"pmem_extent_hooks", "arena_extent_hooks", "fixed_extent_hooks"}

HooksNext ==
    \/ \E table \in Tables : CreateMap(table)
    \/ hooks = "pmem_extent_hooks" /\ Next /\ UNCHANGED <<hooks, anon_vars, fixed_vars>>
    \/ hooks = "arena_extent_hooks" /\ Anon!Next /\ UNCHANGED <<hooks, vars, fixed_vars>>
    \/ hooks = "fixed_extent_hooks" /\ Fixed!Next /\ UNCHANGED <<hooks, vars, anon_vars>>

HooksSpec == HooksInit /\ [][HooksNext]_hooks_vars

-----------------------------------------------------------------------------
(* PagesOwned of ArenaExtents: the cutting to size of arena_extent_alloc   *)
(* leaks no page and takes none from another extent or thread.             *)
PagesOwned == Anon!PagesOwned

(* AsAsked of ArenaExtents: what arena_extent_alloc returns has the size,  *)
(* the alignment and the place jemalloc asked for.                         *)
AsAsked == Anon!AsAsked

(* MemorySafe of FixedExtents: memkind_fixed_mmap_aligned and              *)
(* memkind_fixed_mmap hand out pages of the area once, aligned, and count  *)
(* them.                                                                   *)
MemorySafe == Fixed!TypeOK /\ Fixed!MemorySafe

(* ZeroedAsClaimed of FixedExtents: the memory that fixed_extent_alloc     *)
(* reports as zeroed is.                                                   *)
ZeroedAsClaimed == Fixed!ZeroedAsClaimed
=============================================================================
