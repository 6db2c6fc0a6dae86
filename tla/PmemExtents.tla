------------------------------ MODULE PmemExtents ------------------------------
(***************************************************************************)
(* The memory of a kind on a file (src/src/memkind_pmem.c): extents are    *)
(* mapped one behind the other from a temporary file, which is replaced    *)
(* when it cannot grow, and given back with a hole punched into the file.  *)
(* priv->current_size is what the kind's max_size is compared with.        *)
(*                                                                         *)
(* memkind_pmem_mmap holds pmem_lock throughout and is one step.           *)
(* pmem_extent_dalloc is several: it punches, counts under the lock, and   *)
(* unmaps.  jemalloc splits and merges extents as it likes, both hooks     *)
(* agree to everything, so what it gives back is any run of pages it has.  *)
(* When the kind is destroyed jemalloc first gives back what it has in the *)
(* same way, and then calls the destroy hook for what dalloc declined.     *)
(* Sizes and offsets are in pages.                                         *)
(***************************************************************************)
EXTENDS Integers, FiniteSets, Sequences, Functions

CONSTANTS
    Thread,
    Size,          \* sizes jemalloc asks for
    LastPage,      \* the kernel has addresses 0 .. LastPage for the kind
    MaxSize,       \* max_size of memkind_create_pmem, 0 for no limit
    FileLimit,     \* the largest file: growing beyond it fails with EFBIG
    Capacity,      \* of the file system, ENOSPC
    Wrap,          \* where size_t wraps
    LastFile,      \* files 0 .. LastFile are created in all
    MaxFailures    \* bound on the system calls that fail without a reason

ASSUME PmemExtentsAssumption ==
    /\ Size \subseteq Nat \ {0}
    /\ LastPage \in Nat /\ MaxSize \in Nat /\ FileLimit \in Nat /\ Capacity \in Nat
    /\ LastFile \in Nat /\ Wrap \in Nat \ {0} /\ MaxFailures \in Nat
    \* size_t counts all the addresses there are, over again for each failure
    /\ (LastPage + 1) * (MaxFailures + 1) < Wrap

VARIABLES
    hog,            \* memkind_get_hog_memory() when the kind was created
    life,           \* of the kind: "alive", "destroyed" while its arenas are, or "closed"
    fd,             \* priv->fd, the file it refers to
    offset,         \* priv->offset
    current_size,   \* priv->current_size
    mapping,        \* from addresses to <<file, page of the file>>
    backed,         \* pages of files that have space in the file system
    call,           \* pmem_extent_dalloc: what each thread gives back
    lost,           \* addresses that the destroy hook could not unmap
    failed          \* the system calls that have failed so far

vars == <<hog, life, fd, offset, current_size, mapping, backed, call, lost, failed>>

Idle == [pc |-> "idle", pages |-> {}]

Init ==
    /\ hog \in BOOLEAN
    /\ life = "alive"
    /\ fd = 0
    /\ offset = 0
    /\ current_size = 0
    /\ mapping = << >>
    /\ backed = {}
    /\ call = [t \in Thread |-> Idle]
    /\ lost = {}
    /\ failed = << >>

-----------------------------------------------------------------------------
\* A system call fails for a reason outside the model.
Fails(what) ==
    /\ Len(failed) < MaxFailures
    /\ failed' = Append(failed, what)

FilePages(f, off, size) == {f} \X (off .. off + size - 1)

\* The space of a file that is neither open nor mapped is free again: it has no name.
Kept(pages, f, maps) == {p \in pages : p[1] = f \/ \E a \in DOMAIN maps : maps[a][1] = p[1]}

\* posix_fallocate
Fits(f, off, size) ==
    /\ off + size <= FileLimit
    /\ Cardinality(backed \cup FilePages(f, off, size)) <= Capacity

\* A mutant: the limit is tested without what is asked for.
WithinMaxSizeBefore(size) == MaxSize # 0 => current_size <= MaxSize

WithinMaxSize(size) == MaxSize # 0 => (current_size + size) % Wrap <= MaxSize

\* A mutant: the old file is kept, from its start.
RecreateSameFile(f, off, size) ==
    /\ offset + size > FileLimit
    /\ f = fd /\ off = 0
    /\ Fits(f, off, size)

\* memkind_pmem_recreate_file: <<f, off>> is where the extent goes.
RecreateFile(f, off, size) ==
    /\ offset + size > FileLimit
    /\ fd < LastFile
    /\ f = fd + 1 /\ off = 0
    /\ Fits(f, off, size)

\* Where the extent goes: behind the previous one, or in a new file.
Place(f, off, size) ==
    \/ f = fd /\ off = offset /\ Fits(f, off, size)
    \/ RecreateFile(f, off, size)

\* mmap chooses any free addresses.  The hook does not look at the alignment.
MapAt(a, f, off, size) ==
    /\ (a .. a + size - 1) \cap DOMAIN mapping = {}
    /\ mapping' = [b \in (DOMAIN mapping) \cup (a .. a + size - 1) |->
                     IF b \in DOMAIN mapping THEN mapping[b] ELSE <<f, off + b - a>>]

ExtentAlloc(size) ==
    /\ life = "alive"
    /\ WithinMaxSize(size)
    /\ \E f \in 0 .. LastFile, off \in 0 .. FileLimit, a \in 0 .. LastPage - size + 1 :
          /\ Place(f, off, size)
          /\ MapAt(a, f, off, size)
          /\ fd' = f
          /\ offset' = off + size
          /\ current_size' = (current_size + size) % Wrap
          /\ backed' = Kept(backed \cup FilePages(f, off, size), f, mapping)
    /\ UNCHANGED <<hog, life, lost, call, failed>>

\* mmap fails: the file has grown, or is a new one, and nothing else has changed.
ExtentAllocFails(size) ==
    /\ life = "alive"
    /\ WithinMaxSize(size)
    /\ \E f \in 0 .. LastFile, off \in 0 .. FileLimit :
          /\ Place(f, off, size)
          /\ fd' = f
          /\ offset' = off
          /\ backed' = Kept(backed \cup FilePages(f, off, size), f, mapping)
    /\ Fails("mmap")
    /\ UNCHANGED <<hog, life, lost, current_size, mapping, call>>

-----------------------------------------------------------------------------
Busy == UNION {call[t].pages : t \in Thread}

\* A mutant: one page more than was given back.
PunchBehind(t, pages) ==
    /\ call[t].pc = "idle" /\ ~hog /\ life # "closed"
    /\ pages \subseteq DOMAIN mapping \ (Busy \cup lost)
    /\ backed' = backed \ {mapping[a] : a \in DOMAIN mapping \cap (pages \cup {b + 1 : b \in pages})}
    /\ call' = [call EXCEPT ![t] = [pc |-> "count", pages |-> pages]]
    /\ UNCHANGED <<hog, life, lost, fd, offset, current_size, mapping, failed>>

(***************************************************************************)
(* madvise(MADV_REMOVE).  With MEMKIND_HOG_MEMORY the hook declines        *)
(* instead, and nothing is given back.                                     *)
(***************************************************************************)
Punch(t, pages) ==
    /\ call[t].pc = "idle" /\ ~hog /\ life # "closed"
    /\ pages \subseteq DOMAIN mapping \ (Busy \cup lost)
    /\ \/ /\ backed' = backed \ {mapping[a] : a \in pages}
          /\ call' = [call EXCEPT ![t] = [pc |-> "count", pages |-> pages]]
          /\ UNCHANGED failed
       \/ /\ Fails("madvise")
          /\ call' = [call EXCEPT ![t] = [pc |-> "unmap", pages |-> pages]]
          /\ UNCHANGED backed
    /\ UNCHANGED <<hog, life, lost, fd, offset, current_size, mapping>>

\* A mutant: the decrement is lost.
CountNothing(t) ==
    /\ call[t].pc = "count"
    /\ call' = [call EXCEPT ![t].pc = "unmap"]
    /\ UNCHANGED <<hog, life, lost, fd, offset, current_size, mapping, backed, failed>>

Count(t) ==
    /\ call[t].pc = "count"
    /\ current_size' = (current_size - Cardinality(call[t].pages)) % Wrap
    /\ call' = [call EXCEPT ![t].pc = "unmap"]
    /\ UNCHANGED <<hog, life, lost, fd, offset, mapping, backed, failed>>

\* When munmap fails jemalloc is told that it still has the extent.
Unmap(t) ==
    /\ call[t].pc = "unmap"
    /\ \/ /\ mapping' = [a \in DOMAIN mapping \ call[t].pages |-> mapping[a]]
          /\ UNCHANGED failed
       \/ /\ Fails("munmap")
          /\ UNCHANGED mapping
    /\ backed' = Kept(backed, fd, mapping')
    /\ call' = [call EXCEPT ![t] = Idle]
    /\ UNCHANGED <<hog, life, lost, fd, offset, current_size>>

\* The program writes to memory it has: a hole in the file gets space.
Touch(a) ==
    /\ life = "alive"
    /\ a \in DOMAIN mapping \ Busy
    /\ Cardinality(backed \cup {mapping[a]}) <= Capacity
    /\ backed' = backed \cup {mapping[a]}
    /\ UNCHANGED <<hog, life, lost, fd, offset, current_size, mapping, call, failed>>

-----------------------------------------------------------------------------
\* memkind_pmem_destroy, when the program no longer uses the kind: memkind_arena_destroy, ...
DestroyBegin ==
    /\ life = "alive"
    /\ \A t \in Thread : call[t] = Idle
    /\ life' = "destroyed"
    /\ UNCHANGED <<hog, fd, offset, current_size, mapping, backed, call, lost, failed>>

\* A mutant: the hook does nothing.
ExtentDestroyNothing(pages) ==
    /\ life = "destroyed"
    /\ hog \/ "munmap" \in Range(failed)
    /\ pages \subseteq DOMAIN mapping \ (Busy \cup lost)
    /\ lost' = lost \cup pages
    /\ UNCHANGED <<hog, life, fd, offset, current_size, mapping, backed, call, failed>>

\* ... with pmem_extent_destroy for what pmem_extent_dalloc did not take; that its munmap
\* fails is only logged ...
ExtentDestroy(pages) ==
    /\ life = "destroyed"
    /\ hog \/ "munmap" \in Range(failed)
    /\ pages \subseteq DOMAIN mapping \ (Busy \cup lost)
    /\ \/ /\ mapping' = [a \in DOMAIN mapping \ pages |-> mapping[a]]
          /\ UNCHANGED <<lost, failed>>
       \/ /\ Fails("munmap")
          /\ lost' = lost \cup pages
          /\ UNCHANGED mapping
    /\ backed' = Kept(backed, fd, mapping')
    /\ UNCHANGED <<hog, life, fd, offset, current_size, call>>

\* ... and, when jemalloc has nothing left, the file is closed.
DestroyEnd ==
    /\ life = "destroyed"
    /\ \A t \in Thread : call[t] = Idle
    /\ DOMAIN mapping \subseteq lost
    /\ life' = "closed"
    /\ backed' = Kept(backed, LastFile + 1, mapping)
    /\ UNCHANGED <<hog, fd, offset, current_size, mapping, call, lost, failed>>

Dalloc(t) ==
    \/ \E a \in DOMAIN mapping, size \in Size : Punch(t, a .. a + size - 1)
    \/ Count(t) \/ Unmap(t)

Next ==
    \/ \E s \in Size : ExtentAlloc(s) \/ ExtentAllocFails(s)
    \/ \E t \in Thread : Dalloc(t)
    \/ \E a \in DOMAIN mapping : Touch(a)
    \/ DestroyBegin \/ DestroyEnd
    \/ \E a \in DOMAIN mapping, size \in Size : ExtentDestroy(a .. a + size - 1)

Spec == Init /\ [][Next]_vars

-----------------------------------------------------------------------------
Failed == Range(failed)

TypeOK ==
    /\ fd \in 0 .. LastFile
    /\ offset \in 0 .. FileLimit
    /\ current_size \in 0 .. Wrap - 1
    /\ DOMAIN mapping \subseteq 0 .. LastPage
    /\ \A a \in DOMAIN mapping : mapping[a] \in (0 .. LastFile) \X (0 .. FileLimit - 1)
    /\ backed \subseteq (0 .. LastFile) \X (0 .. FileLimit - 1)
    /\ \A t \in Thread : call[t].pc \in {"idle", "count", "unmap"}
    /\ Failed \subseteq {"mmap", "madvise", "munmap"}
    /\ hog \in BOOLEAN /\ life \in {"alive", "destroyed", "closed"}
    /\ lost \subseteq DOMAIN mapping

(* No page of a file is mapped at two addresses, across files that are     *)
(* full, replaced, punched and grown by memkind_pmem_mmap, whatever fails. *)
OneMappingPerPage ==
    TypeOK /\ \A a, b \in DOMAIN mapping : a # b => mapping[a] # mapping[b]

(* Memory that jemalloc has is backed by space in the file system, so that *)
(* writing to it cannot fail: neither the replacement of the file nor the  *)
(* hole punched by another thread takes the space of a live extent, and    *)
(* no failure of mmap or madvise does.  An extent that munmap did not take *)
(* has a hole, so it is excepted.                                          *)
LiveBacked ==
    "munmap" \notin Failed => \A a \in DOMAIN mapping \ Busy : mapping[a] \in backed

Pending(pc) == UNION {call[t].pages : t \in {u \in Thread : call[u].pc = pc}}

(* current_size is the space of the mapped extents and of those that       *)
(* pmem_extent_dalloc has punched and not counted yet.  A failure of mmap  *)
(* does not disturb the count; one of madvise leaves it too high and one   *)
(* of munmap too low.  The destroy hook does not count.  The assertion of  *)
(* pmem_extent_dalloc, which reads current_size without the lock, holds as *)
(* long as munmap does not fail: the count covers what is about to be      *)
(* subtracted.                                                             *)
CountsSpace ==
    /\ life = "alive" /\ Failed \subseteq {"mmap"}
         => current_size = Cardinality(DOMAIN mapping \ Pending("unmap"))
    /\ "munmap" \notin Failed =>
         \A t \in Thread : call[t].pc = "count" => current_size >= Cardinality(call[t].pages)

(* max_size limits the space that a kind takes in the file system: the     *)
(* parameter "allows to limit the file-backed kind memory partition"       *)
(* (doc/memkind.3.md, memkind_config_set_size).  What a failed mmap leaves *)
(* behind in the file, and what a failed munmap leaves mapped, is beyond   *)
(* the count.                                                              *)
WithinLimit == MaxSize # 0 /\ Failed \subseteq {"madvise"} => Cardinality(backed) <= MaxSize

(* A kind that is destroyed has given back all its addresses and all its   *)
(* space in the file system, that of the files it replaced included,       *)
(* whether pmem_extent_dalloc took its extents or, with MEMKIND_HOG_MEMORY,*)
(* pmem_extent_destroy did.  What munmap refused stays.                    *)
GivenBack ==
    life = "closed" /\ "munmap" \notin Failed => mapping = << >> /\ backed = {}
=============================================================================
