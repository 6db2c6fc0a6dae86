# A TLA+ model of memkind

memkind is a heap manager that partitions the heap between *kinds* of memory:
23 predefined kinds (high bandwidth memory, huge pages, KMEM DAX nodes, ...) and
kinds that a program creates on files and on areas of its own. This directory holds
TLA+ modules that model its stateful parts, configurations that check them with
TLC, and proofs checked by TLAPS. Paths of source files are relative to the
repository's root; `PROJECT.json` lists every run, the lines each definition
models, the hazards and the findings.

## The system and its parts

| part | source | what it does | modules |
|---|---|---|---|
| kind registry | `src/memkind.c`, `src/memkind_pmem.c`, `src/memkind_fixed.c` | slots, names, partitions and descriptors of kinds; creation, destruction, exit | `KindRegistry`, `KindRegistryProofs` |
| arena map | `src/memkind_arena.c` | each kind's block of jemalloc arenas, and the way back from an arena to its kind | `ArenaMap`, `ArenaOwnership`, `ArenaMapProofs` |
| extent hooks | `src/memkind_arena.c`, `src/memkind_default.c` | pages for jemalloc: aligned anonymous mappings | `ArenaExtents`, `ExtentHooks`, `ExtentHooksProofs` |
| fixed kinds | `src/memkind_fixed.c` | pages from an area of the program | `FixedExtents`, `ExtentHooks`, `ExtentHooksProofs` |
| kinds on files | `src/memkind_pmem.c` | pages from a temporary file, with a limit | `PmemExtents`, `ExtentHooks`, `PmemExtentsProofs` |
| arena allocation paths, thread caches | `src/memkind_arena.c` | jemalloc caches per thread and static kind | `ThreadCaches`, `ThreadCachesProofs` |
| memtier counters | `src/memkind_memtier.c` | bytes per kind, in buckets per thread; static ratio | `TierCounters`, `TierCountersProofs` |
| memtier thresholds | `src/memkind_memtier.c` | builder, choice of a tier, moving thresholds | `TierThresholds`, `TierThresholdsProofs` |
| libmemtier | `tiering/memtier.c`, `tiering/ctl.c` | configuration from the environment, interposed `malloc` family | `Libmemtier`, `TierThresholdsProofs` |
| NUMA node selection, capacity, huge pages | `src/memkind_hbw.c`, `_dax_kmem.c`, `_local.c`, `_mem_attributes.c`, `_bitmask.c`, `_capacity.c`, `_regular.c`, `_interleave.c`, `_hugetlb.c` | the nodes of every static kind | `NodeMasks`, `AutoHbwProofs` |
| hbw interface | `src/hbwmalloc.c` | a policy fixed once, a kind per page size | `HbwPolicy`, `HbwPlacement`, `AutoHbwProofs` |
| autohbw | `autohbw/autohbw.c` | interposed `malloc` family with a window of sizes | `AutoHbw`, `AutoHbwProofs` |
| heap manager, TBB | `src/heap_manager.c`, `src/tbb_wrapper.c` | table of functions; pools of a library | not modelled |
| logging, tools | `src/memkind_log.c`, `src/memkind-*-nodes.c` | output | not modelled |

How they interact: `memkind_create` (registry) calls the kind's `ops->create`, which
builds the arena map; jemalloc calls the extent hooks of an arena, which find their
kind through the arena map and take pages from anonymous memory, the area or the
file; the memtier functions allocate through kinds and count by the partition the
registry gave them; the kinds that are bound to NUMA nodes ask for their nodes once
and bind every mapping to them; the hbw interface and autohbw choose among those
kinds; libmemtier drives the memtier builder and its calls. Where two parts are
modelled apart, this is where: `ExtentHooks` puts three tables of hooks behind one
arena, `HbwPlacement` and `AutoHbw` are built on `NodeMasks`, `Libmemtier` on
`TierThresholds`. Locks are taken in the order registry, arena map, pages of a
file; the memtier counters are atomic, the memtier thresholds and the hbw policy
are neither locked nor atomic.

## Conventions

A step is what no other thread can come between: the code between two accesses to
shared state, or everything under a lock where all accesses to the state are under
that lock. Sizes and addresses are small numbers (pages or bytes); `size_t` and
`unsigned` keep their wrap, at a small power of two (`Word`, `Wrap`, `Unsigned`).
A definition whose comment begins "A mutant" (or "mutant:") is a broken form of the
definition after it. Substituting it makes the named property of a run fail; it is used
nowhere else.

Deadlock is checked unless a program may really come to rest: the process has exited
(`KindRegistry`), the last fixed kind is gone or the file is closed (`ExtentHooks`),
every thread is gone (`ThreadCaches`), `abort` was called or every kind is finalized
(`ArenaMap`), the library has stopped the program or was unloaded (`Libmemtier`,
`AutoHbw`), `memkind_finalize` has run (`NodeMasks`).

## The arena map

Every kind but MEMKIND_DEFAULT owns a block of jemalloc arenas. The kind remembers
only the first index (`arena_zero`) and the length (`arena_map_len`); everything
else is computed by counting up from `arena_zero`. That this works is not obvious:
jemalloc reuses the indices of destroyed arenas, last destroyed first, so a block
made of recycled arenas is obtained in descending order and could be made of pieces
of several old ones.

`ArenaMap` has an action for the beginning of `memkind_arena_create_map` (which
takes the lock), one per iteration of its loop, one for each way it fails and one
for its end, and the same for `memkind_arena_destroy`, whose iteration is two steps
because the extent hooks run in the middle of it. Readers take no lock: every state
in between is one in which they may look. `ArenaOwnership` is the abstract
specification: a kind acquires and releases an exclusive block of consecutive
arenas in one step. Under the refinement mapping a kind owns the block at its
`arena_zero` exactly while it is ready; that `ArenaMap` implements `ArenaOwnership`
is checked as `BlocksAreExclusive` and proved as `RefinesOwnership`.

A program is one in which every mallctl of a creation may fail, or one in which a
creation fails only because the indices are used up (`may_fail`, chosen at the start).

* `arena`: three kinds (one static) with blocks of two, and one index too few, so that
  the third block cannot be completed. In both programs no entry of the registry
  outlives its arena (`RegisteredExist`), and the lock is released
  (`LockIsReleased`) under weak fairness of the steps of the lock's holder: its loop
  makes no blocking call, so the scheduler alone decides. In the second program
  `OwnBlock` and the refinement hold; after another failure they need not, see the
  deviations. Two blocks of two, recycled in either order, are what could mix: one
  index of each would make a block that is not consecutive.

Proofs (`ArenaMapProofs`): `TypeCorrect`, `OwnBlockHolds`, `RegisteredExistHolds`,
`RefinesOwnership`, for any kinds and any limit. `TypeCorrect` and
`RegisteredExistHolds` are for all programs and all lengths of blocks, from the
invariant `Sound`. `OwnBlockHolds` and `RefinesOwnership` assume that all blocks have one
length (`Uniform(L)`); of the program in which mallctl may fail the properties
say nothing. Without either they are false, see the deviations below. Their
inductive invariant says that the list of destroyed arenas is a sequence of
ascending runs of length L (`Runs`), free and without repetition (`ListIsFree`), and
describes the creator and the destroyer in mid-loop (`CreateLoop`, `DestroyLoop`,
`UnregisterLoop`): a creator takes a whole run from the end of the list, downwards,
or new indices upwards, never a mixture.

## The kind registry

`KindRegistry` follows a kind on a file through `memkind_create_pmem` in the three
pieces that other threads can separate: the temporary file is opened, the kind is
entered in the registry under the lock, the private part is filled in after the
unlock. Kinds on fixed areas, `memkind_destroy_kind`, the replacement of a file and
`memkind_finalize` are one action each. A kind's name contains its descriptor's
number. The program may hold descriptors of its own, so a new file may get any number
that no kind uses.

A program (`program`) is chosen at the start: what may fail in it, and which areas and
descriptors it uses.

* `registry`: two threads, three slots, three kinds. In the first of three programs
  all kinds are on files and creations may fail inside `memkind_create` and after it;
  there are as many descriptors as kinds and calls can hold, and
  `MEMKIND_ERROR_TOOMANY` happens. `SlotsLive`, `NamesTellApart` and `FilesOwned` are
  about it (`Orderly`). The other two have fixed kinds, files that outgrow their file
  system, failures that leave a creation or a replacement half done, and a fixed kind
  whose lock cannot be destroyed at exit. Names may repeat in them and slots may point
  to freed kinds; `CountsSlots` and the assertion at the end of `memkind_finalize`
  (`FinalizedEmpty`) hold nevertheless. The loop of `memkind_finalize` ends early at the
  first kind that reports an error (`finalized = "stopped"`), and then the assertion is
  not reached. A `memkind_finalize` that meets a slot with a freed kind is not followed
  further.
* `registry_partition` (violation): two live kinds share a partition, and so a
  memtier counter, against what the manual says of `memtier_kind_allocated_size`.

Proofs (`KindRegistryProofs`), for any number of threads, slots and kinds: `TypeCorrect`,
`CountsSlotsHolds` and `FinalizedEmptyHolds` for all programs (the first two are proved
together: a partition is below the bound only because `num_kind` counts the slots).
`NamesTellApartHolds`, `SlotsLiveHolds` and `FilesOwnedHolds` are about the orderly
programs (no fixed areas, and files that never outgrow their file system), as the
properties are; the deviations below show why.
They share the invariant `PInv`: a kind's name is made of
the number of an open descriptor that is the kind's own (`Names`), a descriptor is that
of one kind or one unfinished call (`Opened`, `Calls`), and slots and live kinds agree
(`Slots`). Names are unique because open descriptors are, which no single conjunct
says.

## Pages

`ExtentHooks`: an arena gets one table of hooks when it is created and keeps it. The
run `extents` checks the three tables, one at a time.

With the first, `ArenaExtents`: `arena_extent_alloc` of several threads, a step per
`mmap` and `munmap`, since memory unmapped by one thread is at once available to
another. The hooks give no page back: `arena_extent_dalloc` declines, and the tables
have no destroy hook, so when an arena is destroyed its pages stay mapped (`left`).
The instance (two threads, six pages, huge pages of two, sizes of one page,
alignments up to four) is checked for `PagesOwned` (each mapped page belongs to
exactly one extent or one unfinished call, or was left by a destroyed arena) and
`AsAsked` (what a call returns has the size, alignment and place asked for).
Alignments above the page and sizes that are not a multiple of the huge page both
occur, and the address space is small enough to fill up.

Both are proved for any number of threads, any sizes and any alignments
(`PagesOwnedHolds`, `AsAskedHolds` in `ExtentHooksProofs`), assuming only that of an
alignment and the huge page one divides the other, as powers of two do. The invariant
`AnonInv` says which pages each unfinished call holds at each of its steps (`AnonOwned`)
and that what it holds is large enough for the cut it is about to make (`CallAsked`).

With the second, `FixedExtents`: the bump allocation of a fixed kind. Checked are
`MemorySafe` (extents are disjoint, in the area and aligned, and the count agrees with
the pointer) with an area that starts off the alignment, two kinds in turn, and
requests as large as jemalloc lets through; `FixedMemorySafe` proves it
for all areas, sizes up to jemalloc's largest (7/16 of the address space) and alignments
up to a quarter of it, on areas of at most a quarter. These bounds are what keeps the
unsigned sum of the limit test from wrapping. The inductive invariant adds that the
extents end where the unused part begins (`Behind`). `fixed_zeroed` (violation): the hook
reports its memory as zeroed, which the area of a program, or of an earlier kind,
need not be.

`PmemExtents`: the pages of a file, their space in the file system and
`current_size`. `memkind_pmem_mmap` is one step under its lock, `pmem_extent_dalloc`
is three. Since the split and merge hooks agree to everything, jemalloc may give
back any run of pages, across extents and files. Any of `mmap`, `madvise` and
`munmap` may fail; `failed` records it, and each property says after which failures
it is kept. The destruction of a kind is modelled to its end: jemalloc first offers
what it has to `pmem_extent_dalloc`, which declines everything if the program set
`MEMKIND_HOG_MEMORY` (`hog`), and hands the rest to `pmem_extent_destroy`; then the
file is closed. The run `extents` (two threads, two files of two pages, one failure)
checks that no page is mapped twice whatever fails (`OneMappingPerPage`), that live
memory has space in the file system (`LiveBacked`), that the count is exact and
covers what is subtracted (`CountsSpace`), that `max_size` holds (`WithinLimit`),
and that a destroyed kind leaves neither addresses nor space in the file system
behind (`GivenBack`). The second file is reached; a third would add no new situation
because only the newest file grows.

Proofs (`PmemExtentsProofs`): all five, for any threads, sizes, files and number of
failures. The invariant has a part about pages (`MappingInv`: a mapping is one to one
because a page of a file is taken only behind all that are mapped, `BehindOffset`, and
two calls never hold the same pages) and one about numbers (`CountingInv`:
`current_size` is the number of mapped pages but for those already counted out, plus at
most an address space for each failure). Assumed is that `size_t` counts all addresses
once more for each failure, so the instance has `Wrap = 16` for three pages and one
failure.

## Thread caches

jemalloc lets a program create caches, numbers them from 0 and gives a destroyed
number out again. memkind keeps, behind a thread key, the numbers of a thread's
caches, one per static kind; `get_tcache_flag` creates them when they are first
needed, and `tcache_finalize` destroys them when the thread exits. `ThreadCaches` has
one action per call (`ArenaMalloc`, `ArenaFree`, `ArenaRealloc`, `Defrag`, `Destroy`;
a cache is used by its thread alone, so a call is one step) and a step for each
moment of an exit at which other threads may come between: jemalloc makes the number
available before it gives the blocks back. The program's own key destructors may run
after memkind's and allocate; the system then starts another round of destructors, a
limited number of times (`MaxRounds`).

The run `caches` (two threads, one with such destructors; two static kinds with three
blocks and a dynamic kind with one; three numbers for four possible caches; two
rounds) checks that a number has one owner (`OneOwner`), that a block is in one place
and cannot be given out twice (`OnePlace`), that a cache holds blocks of one kind
(`CachesOfKind`), what may be left over when all threads are gone
(`NothingLeftBehind`), and that the blocks in the caches of an exiting thread come
back to the arenas whatever the other thread does with the numbers meanwhile
(`BlocksComeBack`; the thread with destructors of its own may use its caches again and
is excepted). Three numbers are enough for recycled and exhausted numbers. Fairness:
weak fairness of the steps of an exiting thread, since the system calls the
destructors one after another and none of the calls in them blocks; nothing is assumed
of running threads.

Proofs (`ThreadCachesProofs`), for any threads, kinds, blocks and limits: `OneOwner`,
`CachesOfKind`, `OnePlace`, `NothingLeftBehind` and the types. The inductive invariant
has three layers. `IInv` is about numbers: jemalloc lists a number as available once
and only without a cache, and a number other than 0 in a map or on a destructor's list
has a cache and stands nowhere else; this is what makes the number that `tcaches_create`
returns fresh, and it carries the kind of the blocks with it. `PInv` adds where blocks
are: two places never share a block, and blocks of dynamic kinds are in no cache, so
that destroying such a kind cannot leave its blocks behind. `EInv` adds the exits: only
a thread inside `tcache_finalize` has numbers to destroy, and every cache but number 0
is known to some thread. Number 0 needs the exception throughout: the map cannot tell
it from no cache. Assumed are a positive number of caches and rounds and a `Null` that
is no number, map or set of blocks.

## memtier

`TierCounters`: every atomic access to a bucket or a global counter is a step. The
run `counters` (two threads in one bucket, two tiers, an empty second bucket that
reports visit, one failing call) checks that no byte is lost or counted twice at any
moment (`Conserved`), that no bucket keeps more than the flush threshold
(`BucketsBounded`) and that a report that no other call overlaps is exact
(`ReportExact`). A `realloc` or `posix_memalign` that fails makes the count wrong;
`missed` records by how much, and the properties hold relative to it: nothing else is
lost. The destruction of a kind (`ResetSize`) ends that as well: the next kind with the
partition starts from zero. One block is just below the flush threshold and two are
beyond it. The threads are interchangeable (one bucket, and both may report), so the
run uses their symmetry. `counters_ratio` (violation): a thread that frees what another
allocated flushes a negative bucket, the unsigned global counter wraps, and
STATIC_RATIO chooses the tier that has too much.

Proofs (`TierCountersProofs`): the three properties, for any number of threads,
tiers, buckets and block sizes. Assumed are finitely many threads and sizes, and
that a block and the threshold together fit a `size_t` (`FLUSH_THRESHOLD + s <
Word`, a block is smaller than the address space). The first part is about sums:
`SumFunction` over a finite set is a fold in the order of a choice, and the lemmas
show that it changes by what one place changes (`SumChanges`) and is zero when all
places are (`SumZero`). `ConservedHolds` then shows of each step that it moves bytes
between four places, the blocks, what a thread has still to count, its bucket or
hand, and the global counter (`BlockStep`, `BucketStep`, `GlobalStep`), modulo
`Word`. `BucketsBoundedHolds` rests on `BucketInv`: a bucket beyond the threshold
has a thread about to empty it; the comparison of unsigned numbers is a step of
`BucketNext`, `FlushDecides`. `ReportExactHolds` rests on `QuietInv`: a report that
is not overlapped has all other threads outside of calls, has emptied the buckets it
has passed, and so, by `Conserved`, has in its hands all that the global counter
lacks.

`TierThresholds`: the builder with its validation, the choice of a tier and the
update of thresholds, each unsynchronised access a step. Floats are exact fractions:
rounding is not modelled.

`Libmemtier` composes it with the library that is loaded before a program. Its
constructor reads the environment one parameter a step (a query is a sequence of
parameters, their names and values are tokens), creates kinds on files, fills the
builder and constructs the memory, or destroys what it made and aborts; an
allocation of the library may fail at any of these points. Calls of `malloc` and
`free` are taken over before, while and after the constructor runs and after the
destructor. A behaviour without the library (`stage = "absent"`) is one of
`TierThresholds`.

The run `thresholds` (two threads, three tiers; configurations of a few values for the
program, some 60 environments for the library: the ones the manual allows and one for
each way to be wrong) checks `Clamped` and `TierAsDocumented`, that the library starts
exactly with the strings that `doc/libmemtier.7.md` allows, with the tiers and
thresholds they describe and the code's defaults for the rest (`StartsAsConfigured`),
that it destroys the kinds it made (`KindsDestroyed`), and that every block goes back to
its kind and no call uses a dead kind (`KindsMatch`; its exception is among the
deviations). The program's configurations have one size for thresholds and a
degree of a quarter; the negative degree and trigger are there to be refused. No
fairness is assumed. `Clamped` and `TierAsDocumented` are about configurations in which
a change is at most the least threshold (`Gentle`), so that nothing wraps, even if
the change was computed from an older value; the configurations of this run are, and the
defaults are.

* `thresholds_bounds` (violation): the manual promises the range for every
  configuration. With a MIN_VAL of 1, as in its own example, two threads that lower
  a threshold at once take it round to the top of `size_t`.
* `thresholds_defaults` (violation): the defaults are not those of the manual
  (`StartsAsDocumented`).

Proofs (`TierThresholdsProofs`): `TypeCorrect` (no call indexes past the
thresholds), `ClampedHolds` and `TierAsDocumentedHolds`, for any number of threads and
tiers; `DefaultsAreGentle` shows of the default thresholds and degree that no change
exceeds the least threshold.
The invariant bounds the value a thread is about to store on the side that
the code does not test (`Moves`) and the part of the thresholds a scan has passed
(`Scans`).

The same module proves of libmemtier, for any environments, kinds and threads and any
number of failing allocations: `LibraryClamped`, the two results above, since what the
library does with a builder and its memory a program may do as well (the lemma
`LibraryUses`);
`KindsMatchHolds`; and `KindsDestroyedHolds`. `LibmemtierAssumption` says that a
query is a sequence of parameters, that Null is no kind, and that the numbers an
environment gives are among those `TierThresholds` lets a program give. The inductive
invariant `LibInv` has four parts, besides the types of `TierThresholds`: what was parsed
is fit for the builder (`ParseInv`); the builder has the tiers that were handed to it,
so that the tier a call chooses is one that was parsed (`SizeInv`); before there is a
memory the program has blocks of MEMKIND_DEFAULT only, and then only of kinds that
live (`UseInv`); every kind that lives is registered but for one after a fault, and
where NULL is registered there is a tier without a kind, which the builder refuses, so
the destructor never meets NULL (`RegInv`).

## Nodes, the hbw interface and autohbw

`NodeMasks`: how every static kind finds its NUMA nodes. The machine is a record of
what libnuma, hwloc, libdaxctl, sysfs and the environment answer; it never changes.
The masks are computed once (`g`), when first needed; the loops of the source are
folds and set expressions, with the allocation failures they may meet. Actions are
`memkind_check_available`, `memkind_create_kind`, `memkind_get_capacity`, the mapping
of memory from any CPU, and `memkind_finalize`; `answer` is what the last call
returned. The documented nodes are stated apart, without loops (`Documented`).

`HbwPolicy`: threads set the policy and make their first allocations; it is the
abstract specification of the interface, for an availability of MEMKIND_HBW that
never changes. `HbwPlacement` puts these steps on `NodeMasks`: the availability is
asked, on whatever CPU the thread is, memory is mapped on the nodes of the kind, and
`hbw_verify_memory_region` looks at it. `ImplementsPolicy` is the refinement: the
mapping is the identity, with `hbw_available` the answer that the machine must give.

`AutoHbw`: the constructor of libautohbw chooses a kind by availability and the
window from the environment, and the interposed functions choose by size. `size_t` is
a word of 64 values and a kilobyte is 4, so limits in gigabytes overflow.

The run `placement` takes some 2000 machines of four nodes and two CPUs, each set of
them varying what one group of kinds looks at (environment variables, distances,
HMAT attributes, the order of hwloc's nodes, DAX nodes, capacities, unreadable nodes,
sizes of huge pages and files with their number that are missing or empty), and one
allocation failure. On those the kinds are used in any order; on
five more, two threads use the hbw interface, or libautohbw is loaded with six windows
and four memory types. Checked are `PlacedAsDocumented` (memory is where the manual says,
and a kind is refused only where no node fits it), `AvailabilityHolds`,
`CapacityAsDocumented` and `MasksLive`; the refinement and `VerifyAccepts` for the hbw
interface; `WindowRespected` for autohbw; and `FallsBack`, which is about both. Four
nodes are enough for a tie, a nearer node without memory and a node without CPUs at
once. No fairness is assumed.

Proofs (`AutoHbwProofs`), for any machines, threads, page sizes, number of allocation
failures, machine word and values of the environment variables. Assumed are that the
kinds a machine uses are kinds of the tables and that sizes of nodes are naturals
(`NodeMasksAssumption`), and that a number of AUTO_HBW_SIZE, before its multiplier, is
a value of `size_t`, the type it is parsed into (`AutoHbwAssumption`).

* Of `HbwPolicy`: `PolicyServed` (each page size is served by one kind, that of the
  policy in force), `PolicyAccepted` (a successful `hbw_set_policy` holds for good) and
  `InterleaveRefused`. The invariant says that nothing is recorded for a page size
  before the policy is fixed (`KindsInv`) and that a call past the first statement of
  `hbw_choose_kind` finds it fixed (`CallInv`).
* `InterfaceRefinesPolicy`: the interface on a machine, libautohbw beside it, implements
  `HbwPolicy`. A step of the interface asks for the availability of MEMKIND_HBW, on
  whatever CPU and whether or not a call before it, of the interface, of
  `hbw_verify_memory_region` or of libautohbw, has initialised the mask; that the answer
  is always the one availability of the abstract specification is
  `AvailInv`: on a machine of the interface the mask of MEMKIND_HBW, once stored, has
  the result that `Choice` has for the machine. (Allocation failures are those of the
  machines on which the kinds are used directly.) The nodes themselves stay a value of
  `Choice`, a function of the machine, which never changes. `PolicyOnMachines` draws
  the conclusion: the three facts above hold of the interface on every machine.
* `MasksStayLive` (`MasksLive`): by `MaskInv`, a mask in use has been freed only by
  `memkind_get_capacity` of an unreadable node, or by a finalizer after which no call
  comes (`FreedInv`). Each call changes the masks by initialising at most one slot
  (`Grown`), and the proof is one lemma for that and one for each call that frees.
* `WindowHolds` (`WindowRespected`): by `WindowInv`, the limits that `getLimit` stored are
  the ones the environment means, or the largest word where that product does not fit
  (`LimitsRight`); a limit that saturates excludes or admits the same sizes
  as the true product would (`SaturatedIsBeyond`).

## Deviations met while modelling

Five are kept as runs (`registry_partition`, `counters_ratio`, `thresholds_bounds`,
`thresholds_defaults`, `fixed_zeroed`), with the lines they contradict in
`PROJECT.json`. The others are recorded here: each follows from a step of the
models, and is the reason for a hypothesis of a theorem, a condition of a property
or a bound of a run.

* `src/memkind_arena.c:411`: a creation that fails midway leaves its arenas
  registered to a kind that `memkind_create` then frees, and the recycled indices
  have gaps afterwards, so later blocks need not be consecutive. Hence `~may_fail` in
  `OwnBlock` and in the refinement mapping.
* `src/memkind_arena.c:402`: with blocks of different lengths recycled blocks need
  not be consecutive either. Hence `Uniform(L)`.
* `src/memkind_arena.c:143,407`: `arena_registry_g` has 0xffe entries while jemalloc
  gives out indices up to 0xffe. The model's registry covers all indices.
* `src/memkind.c:570`: the search for a duplicate name stops at the first empty slot;
  names of fixed kinds may repeat after a destruction. Hence no fixed kinds in
  `Orderly`.
* `src/memkind_pmem.c:299`: a kind whose file was replaced keeps a name made of a
  descriptor that is closed; the next kind on a file may be refused for its name.
  Hence no full files in `Orderly`.
* `src/memkind.c:978`: when the directory's name cannot be allocated the file is
  closed and `memkind_create_pmem` returns 0. `src/memkind.c:998`: when the usage
  policy cannot be set the error is returned and the kind stays registered.
* `src/memkind.c:654`: `memkind_finalize` stops at a fixed kind whose lock is in use; the
  kinds after it are not destroyed. Hence `finalized` in `FinalizedEmpty`.
* `src/memkind_arena.c` has no destroy hook for anonymous memory: the pages of a kind
  that is destroyed stay mapped, also if the program had freed all of its memory, while
  `doc/memkind.3.md:308-316` speaks of a leak only where it had not. Hence `left` in
  `PagesOwned`.
* `src/memkind_memtier.c:797,823`: failed `realloc` and `posix_memalign` calls (see
  `missed`). `src/memkind_memtier.c:865`: of two reports at the same time one misses
  what the other has taken from the buckets. Hence `ReportExact` counts a report among
  the calls that must not overlap.
* `src/memkind_memtier.c:303`: two decrements of the check counter may overlap and
  wrap it, so that the next check comes after about 2^32 allocations.
* `src/memkind_memtier.c:341`: with a degree so large that a change exceeds the
  threshold, the difference wraps and passes the only test on its side. Degrees above
  1 do so with one thread, and with two threads degrees below 1, too, because the
  change is computed from a value that has moved since. Hence `Gentle`, and the run
  `thresholds_bounds`.
* `src/memkind_memtier.c:565`: bounds of neighbours may be equal, the comment above
  says lower.
  `:746`: `memtier_calloc` chooses the tier by the size of one element.
* `src/memkind_pmem.c:73`: the alignment jemalloc asks for is ignored.
  `src/memkind_pmem.c:100,112`: after a failed `munmap` jemalloc keeps an extent that
  has been subtracted from `current_size`, and it is subtracted again. Hence the
  condition of `CountsSpace`.
* `src/memkind_memtier.c:152`: when two live kinds share a partition (the run
  `registry_partition`), the destruction of one sets the counter of the other to zero.
  `TierCounters` gives each kind its own.
* `src/hbwmalloc.c:128`: a second `hbw_set_policy` with the same mode returns 0, the
  manual says EPERM. `:241`: a 2MB request that was tested before another thread set
  INTERLEAVE is served, the manual says EINVAL; hence `InterleaveRefuses` speaks of
  requests that begin after the policy is fixed. `:73`: the test is for MEMKIND_HBW and
  the kind is MEMKIND_HBW_PREFERRED, which fails where several nodes are nearest; hence
  the condition of `FallsBack`. `:173`: the error of
  `memkind_hbw_all_get_mbind_nodemask` is ignored and pages are compared with an
  uninitialised mask.
* `src/memkind_capacity.c:52,59`: the mask is freed, the pointer stays and
  the finalizer frees it again. `src/memkind.c:737`: at an unreadable node libnuma's own
  mask of all nodes is freed for MEMKIND_DEFAULT. Hence the exceptions of `MasksLive`.
* `src/memkind_regular.c:46`: the capacity of MEMKIND_REGULAR is -1 until the kind is
  used, though `doc/memkind.3.md:322-328` lists it. Hence the exception of
  `CapacityAsDocumented`.
* `src/memkind_hugetlb.c:149`: `fscanf` returns EOF, which is not 0, for an empty file, and
  the number of huge pages is what the variable held. Hence the exception of
  `AvailabilityHolds`. `:278`: after an allocation failure the loop frees element `i`, which
  was never set, as often as there are elements before it (`huge.wild`); no property
  speaks of it.
* `doc/memkind.3.md:455-457` decides between local nodes of equal capacity by latency,
  `src/memkind_mem_attributes.c:104-133` by distance. `Documented` follows the code there.
* `src/memkind_mem_attributes.c:311`: a node that hwloc lists before the CPU's own node
  of the same domain is taken for the initiator. Hence `CpuNodesFirst`.
* `src/memkind_arena.c:507`: cache number 0 is taken for none, so the first cache is
  used for one call and never destroyed.
  `:467`: the map itself is never freed. `:504`: the result of `pthread_setspecific` is
  not looked at (its failure is not modelled). A cache that the program's destructors
  create after memkind's in the last round stays. Hence the exceptions of
  `NothingLeftBehind`.
* `tiering/memtier.c:132`: `free(NULL)` becomes a `memtier_realloc` that allocates a
  block of size 0 which nobody gets. `:125`: after the destructor `posix_memalign`
  returns 0 and leaves `*memptr` alone.
* `tiering/ctl.c:276`: the test for a missing KIND is of the wrong variable; the tier
  is refused later, by `memtier_builder_add_tier`. `:305-309`: with a limit below the
  minimum no kind is created and NULL is registered, on which the cleanup crashes
  (`stage = "crashed"`); a kind that cannot be registered is lost. Hence the exceptions
  of `KindsDestroyed`. `:555`: the destructor destroys the kinds on files before it deletes
  the memory, and the report of `memtier_delete_memtier_memory`
  (`src/memkind_memtier.c:241-244`) reads them after they are freed: an error in the order
  of destruction, at the exit of every program with such a tier. Hence the exception of
  `KindsMatch`, which holds of all calls.
* `autohbw/autohbw.c:343-351`: `calloc` is placed by the size of one element.
  `:359-367`: `realloc` passes the kind of the new size for a block of another kind,
  which `doc/memkind.3.md:160-163` does not allow. `:248`: a window X:X is said to admit
  nothing and admits the size X. Hence `WindowRespected` is about `malloc` and leaves
  the limits themselves open.

## What is proved and what is only checked

The theorems hold for all values of the constants that satisfy the named
assumptions and hypotheses. Of the properties of the runs, these are only checked, on
the instances above:

* `LockIsReleased` and `BlocksComeBack`: liveness under fairness and ENABLED are outside the
  prover.
* `StartsAsConfigured` of `Libmemtier`: it compares what the parser and the builder make
  of a sequence of parameters with a definition of the documented strings. The part of
  it that the proofs above need is in `ParseInv` and `SizeInv`.
* `PlacedAsDocumented`, `AvailabilityHolds`, `CapacityAsDocumented`, `VerifyAccepts` and
  `FallsBack`: what the loops of `NodeMasks` compute for a machine is a fold over its
  nodes and is compared with a definition without loops, which needs induction over the
  nodes. `VerifyAccepts` and `FallsBack` depend on that comparison, the others state it.

Induction over data is possible only in a roundabout way: the library's induction
theorems need an operator parameter that the back ends cannot instantiate. Where the
proofs need induction (the thresholds ascend, sums over finite sets), they use the least
element of a set of naturals, or a smallest set, instead.

## What is not modelled

* The TBB heap manager: dispatch through a table of functions, and pools in a library
  that is not in the repository. Logging and the command line tools: output only.
* jemalloc, beyond what memkind relies on (numbers of arenas and caches, calls of the
  extent hooks): a library of its own, with its own tests, of which the repository
  holds a copy. It is most of the lines under the repository's root.
* Queries that change nothing: statistics, `memkind_check_dax_path`, usable sizes.
* The contents of memory beyond zero and not zero, and rounding of floats.
* Strings: the environment variables of libmemtier are tokens. What `strtok_r` and the
  number parsers do with a parameter whose value is missing altogether (`RATIO`,
  `PMEM_SIZE_LIMIT`, thresholds) is left out.
* Calls of other threads while `exit` runs libmemtier's destructor, and the library's
  own output at that point.
* A composition of registry, arena map and pages in one module: the parts meet only
  through the locks' order and through partitions and arena indices, and the product
  of their states is beyond the model checker.
