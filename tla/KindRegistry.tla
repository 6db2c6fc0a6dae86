----------------------------- MODULE KindRegistry -----------------------------
(***************************************************************************)
(* The registry of memory kinds (src/src/memkind.c): memkind_registry_g,   *)
(* its lock, and the calls that enter a kind in it and take it out again:  *)
(* memkind_create_pmem, memkind_create_pmem_with_config,                   *)
(* memkind_create_fixed, memkind_destroy_kind and the destructor           *)
(* memkind_finalize.  What those calls do to a kind's file descriptor and  *)
(* to its memtier counter belongs to them and is modelled with them.       *)
(*                                                                         *)
(* What runs with the registry's lock held is one step.  A creation is     *)
(* three: the file is opened before the lock is taken, and the fields of   *)
(* the private part are set after it has been released.                    *)
(*                                                                         *)
(* The static kinds are never removed and their names are not those of a   *)
(* dynamic kind, so only their number matters.                             *)
(***************************************************************************)
EXTENDS Integers, FiniteSets

CONSTANTS
    Thread,
    Object,        \* the addresses jemk_calloc may return for a struct memkind
    Fd,            \* numbers of file descriptors
    Addr,          \* areas given to memkind_create_fixed
    Null,          \* no object, no descriptor, an empty slot
    NumStatic,     \* MEMKIND_NUM_STATIC_KINDS
    MaxKind,       \* MEMKIND_MAX_KIND
    Programs,      \* what programs do: see ProgramRecord
    MaxAlloc       \* bound on the allocations of a kind

AllFaults == {"create", "dir", "policy", "efbig", "fallocate", "busy"}

\* A program: what may fail in it, the areas it makes fixed kinds of, the numbers
\* its descriptors may have, and how much it allocates of each kind.
ProgramRecord == [faults : SUBSET AllFaults, areas : SUBSET Addr,
                  fds : SUBSET Fd, units : 0 .. MaxAlloc]

ASSUME KindRegistryAssumption ==
    /\ NumStatic \in Nat
    /\ MaxKind \in Nat
    /\ NumStatic < MaxKind
    /\ Null \notin Object
    /\ Null \notin Fd
    /\ MaxAlloc \in Nat
    /\ Programs \subseteq ProgramRecord

VARIABLES
    partition_map,  \* memkind_registry_g.partition_map, from NumStatic on
    num_kind,       \* memkind_registry_g.num_kind
    heap,           \* the struct memkind objects and their private parts
    open,           \* the open file descriptors of kinds
    call,           \* the creation each thread is in
    held,           \* the kinds the program was given and did not destroy
    g_alloc_size,   \* memtier's counters, one for each partition
    allocated,      \* what the program has allocated from each kind
    finalized,      \* whether memkind_finalize has run, to its end or to an error
    program         \* the member of Programs that runs

vars == <<partition_map, num_kind, heap, open, call, held, g_alloc_size,
          allocated, finalized, program>>

Slot == NumStatic .. MaxKind - 1

Name == ({"pmem"} \X Fd) \cup ({"fixed"} \X Addr)

NoObject == [live |-> FALSE, name |-> Null, partition |-> NumStatic, fd |-> Null]

NoCall == [pc |-> "idle", fd |-> Null, kind |-> Null, err |-> "none"]

Occupied == {i \in Slot : partition_map[i] # Null}

Init ==
    /\ partition_map = [i \in Slot |-> Null]
    /\ num_kind = NumStatic
    /\ heap = [o \in Object |-> NoObject]
    /\ open = {}
    /\ call = [t \in Thread |-> NoCall]
    /\ held = {}
    /\ g_alloc_size = [p \in Slot |-> 0]
    /\ allocated = [o \in Object |-> 0]
    /\ finalized = "no"
    /\ program \in Programs

(***************************************************************************)
(* strcmp of a name with that of the kind in slot i.  A slot that points   *)
(* to freed memory may compare either way.                                 *)
(***************************************************************************)
MustMatch(i, n) == LET o == partition_map[i]
                   IN  o # Null /\ heap[o].live /\ heap[o].name = n

MayMatch(i, n) == LET o == partition_map[i]
                  IN  o # Null /\ (heap[o].live => heap[o].name = n)

FirstHole(i) == /\ partition_map[i] = Null
                /\ \A j \in Slot : j < i => partition_map[j] # Null

-----------------------------------------------------------------------------
(***************************************************************************)
(* memkind_create, with the lock held: the errors it may return, and what  *)
(* it does when it returns none.  The search for the name ends at the      *)
(* first empty slot.                                                       *)
(***************************************************************************)
CreateError(n, e) ==
    \/ e = "TOOMANY" /\ num_kind = MaxKind
    \/ /\ e = "INVALID"
       /\ num_kind # MaxKind
       /\ \E i \in Slot : MayMatch(i, n)
                          /\ \A j \in Slot : j < i => partition_map[j] # Null
    \/ e = "FAILED" /\ num_kind # MaxKind /\ "create" \in program.faults

Publish(i, n, o, p) ==
    /\ partition_map' = [partition_map EXCEPT ![i] = o]
    /\ heap' = [heap EXCEPT ![o] = [live |-> TRUE, name |-> n, partition |-> p,
                                    fd |-> Null]]

NewName(i, n) == \A j \in Slot : j < i => ~MustMatch(j, n)

\* Mutants: num_kind is not incremented; the partition is taken after it is.
RegisterUncounted(n, o) ==
    /\ num_kind # MaxKind /\ ~heap[o].live
    /\ \E i \in Slot : FirstHole(i) /\ NewName(i, n) /\ Publish(i, n, o, num_kind)
    /\ UNCHANGED num_kind

Register(n, o) ==
    /\ num_kind # MaxKind
    /\ ~heap[o].live
    /\ \E i \in Slot : FirstHole(i) /\ NewName(i, n) /\ Publish(i, n, o, num_kind)
    /\ num_kind' = num_kind + 1

(***************************************************************************)
(* memkind_create_pmem: memkind_pmem_create_tmpfile.  The program may hold *)
(* descriptors of its own, so any unused number may be returned.           *)
(***************************************************************************)
OpenTmpfile(t) ==
    /\ call[t].pc = "idle"
    /\ \E f \in program.fds \ open :
          /\ open' = open \cup {f}
          /\ call' = [call EXCEPT ![t] = [NoCall EXCEPT !.pc = "opened", !.fd = f]]
    /\ UNCHANGED <<partition_map, num_kind, heap, held, g_alloc_size, allocated>>

\* A mutant: every file's kind has the same name.
CreatePmemOneName(t) ==
    /\ call[t].pc = "opened"
    /\ \/ \E e \in {"TOOMANY", "INVALID", "FAILED"} :
             /\ CreateError(<<"pmem", CHOOSE f \in Fd : TRUE>>, e)
             /\ call' = [call EXCEPT ![t].pc = "failed", ![t].err = e]
             /\ UNCHANGED <<partition_map, num_kind, heap>>
       \/ \E o \in Object :
             /\ Register(<<"pmem", CHOOSE f \in Fd : TRUE>>, o)
             /\ call' = [call EXCEPT ![t].pc = "published", ![t].kind = o]
    /\ UNCHANGED <<open, held, g_alloc_size, allocated>>

\* The name is made of the number of the descriptor.
CreatePmem(t) ==
    /\ call[t].pc = "opened"
    /\ \/ \E e \in {"TOOMANY", "INVALID", "FAILED"} :
             /\ CreateError(<<"pmem", call[t].fd>>, e)
             /\ call' = [call EXCEPT ![t].pc = "failed", ![t].err = e]
             /\ UNCHANGED <<partition_map, num_kind, heap>>
       \/ \E o \in Object :
             /\ Register(<<"pmem", call[t].fd>>, o)
             /\ call' = [call EXCEPT ![t].pc = "published", ![t].kind = o]
    /\ UNCHANGED <<open, held, g_alloc_size, allocated>>

CloseTmpfile(t) ==
    /\ call[t].pc = "failed"
    /\ open' = open \ {call[t].fd}
    /\ call' = [call EXCEPT ![t] = NoCall]
    /\ UNCHANGED <<partition_map, num_kind, heap, held, g_alloc_size, allocated>>

(***************************************************************************)
(* The fields of the private part are set and the kind is given to the     *)
(* program.  When the copy of the directory's name cannot be allocated the *)
(* descriptor is closed, yet err is still 0.  When                         *)
(* memkind_create_pmem_with_config cannot set the usage policy it returns  *)
(* the error and leaves the kind.                                          *)
(***************************************************************************)
InitPriv(t) ==
    /\ call[t].pc = "published"
    /\ heap' = [heap EXCEPT ![call[t].kind].fd = call[t].fd]
    /\ call' = [call EXCEPT ![t] = NoCall]
    /\ \/ held' = held \cup {call[t].kind} /\ UNCHANGED open
       \/ /\ "dir" \in program.faults /\ call[t].fd # Null
          /\ open' = open \ {call[t].fd}
          /\ held' = held \cup {call[t].kind}
       \/ "policy" \in program.faults /\ call[t].fd # Null /\ UNCHANGED <<held, open>>
    /\ UNCHANGED <<partition_map, num_kind, g_alloc_size, allocated>>

CreateFixed(t, a) ==
    /\ call[t].pc = "idle"
    /\ \/ \E e \in {"TOOMANY", "INVALID", "FAILED"} :
             /\ CreateError(<<"fixed", a>>, e)
             /\ UNCHANGED <<partition_map, num_kind, heap, call>>
       \/ \E o \in Object :
             /\ Register(<<"fixed", a>>, o)
             /\ call' = [call EXCEPT ![t].pc = "published", ![t].kind = o]
    /\ UNCHANGED <<open, held, g_alloc_size, allocated>>

(***************************************************************************)
(* memkind_pmem_recreate_file: the file of a kind has reached the largest  *)
(* size of its file system, and another takes its place.  When the space   *)
(* cannot be reserved the new descriptor is forgotten.                     *)
(***************************************************************************)
RecreateFile(o) ==
    /\ "efbig" \in program.faults
    /\ o \in held
    /\ heap[o].fd # Null
    /\ \E f \in program.fds \ open :
          \/ /\ open' = (open \cup {f}) \ {heap[o].fd}
             /\ heap' = [heap EXCEPT ![o].fd = f]
          \/ /\ "fallocate" \in program.faults
             /\ open' = open \cup {f}
             /\ UNCHANGED heap
    /\ UNCHANGED <<partition_map, num_kind, call, held, g_alloc_size, allocated>>

-----------------------------------------------------------------------------
(***************************************************************************)
(* memkind_destroy_kind.  The operation of the kind comes first: it resets *)
(* the counter of the kind's partition and closes the kind's descriptor.   *)
(* The slot is then looked for by name, and the kind that was passed is    *)
(* freed, whichever kind that slot holds.                                  *)
(***************************************************************************)
Unlink(i, o) ==
    /\ partition_map' = [partition_map EXCEPT ![i] = Null]
    /\ heap' = [heap EXCEPT ![o] = NoObject]

\* A mutant: the slot in use last is removed.
RemoveLast(o) ==
    /\ \E i \in Slot : /\ partition_map[i] # Null
                       /\ \A j \in Slot : j > i => partition_map[j] = Null
                       /\ Unlink(i, o)
    /\ num_kind' = num_kind - 1

RemoveByName(o) ==
    \/ /\ \E i \in Slot : /\ MayMatch(i, heap[o].name)
                          /\ NewName(i, heap[o].name)
                          /\ Unlink(i, o)
       /\ num_kind' = num_kind - 1
    \/ /\ \A i \in Slot : ~MustMatch(i, heap[o].name)
       /\ UNCHANGED <<partition_map, num_kind, heap>>

\* A mutant: the descriptor stays open.
OpsDestroyForgetsFile(o) ==
    /\ g_alloc_size' = [g_alloc_size EXCEPT ![heap[o].partition] = 0]
    /\ allocated' = [allocated EXCEPT ![o] = 0]
    /\ UNCHANGED open

\* memkind_pmem_destroy and memkind_fixed_destroy, which has no descriptor.
OpsDestroy(o) ==
    /\ open' = open \ {heap[o].fd}
    /\ g_alloc_size' = [g_alloc_size EXCEPT ![heap[o].partition] = 0]
    /\ allocated' = [allocated EXCEPT ![o] = 0]

Destroy(o) ==
    /\ o \in held
    /\ held' = held \ {o}
    /\ OpsDestroy(o)
    /\ RemoveByName(o)
    /\ UNCHANGED call

FinalizeUncounted ==   \* a mutant: num_kind stays as it was
    /\ \A i \in Occupied : heap[partition_map[i]].live
    /\ open' = {}
    /\ heap' = [o \in Object |-> NoObject]
    /\ g_alloc_size' = [p \in Slot |-> 0]
    /\ partition_map' = [i \in Slot |-> Null]
    /\ finalized' = "done"
    /\ held' = {}
    /\ allocated' = [o \in Object |-> 0]
    /\ UNCHANGED <<num_kind, call>>

(***************************************************************************)
(* memkind_finalize, when the process exits: the kinds in the registry are *)
(* destroyed and removed one after another, up to the first that reports   *)
(* an error.  Only a fixed kind can: its lock is in use and cannot be      *)
(* destroyed; the kind itself is, and keeps its slot.                      *)
(*                                                                         *)
(* A kind another thread has just published has no descriptor yet; its     *)
(* field is not initialized and any number is closed.  A slot that points  *)
(* to freed memory is outside of what is modelled here.                    *)
(***************************************************************************)
Stops(i) == i \in Occupied /\ "busy" \in program.faults /\ heap[partition_map[i]].name[1] = "fixed"

FinalizeUpTo(end) ==
    LET removed == {i \in Occupied : i < end}
        gone == {partition_map[i] : i \in removed}
        reset == {heap[partition_map[i]].partition : i \in {j \in Occupied : j <= end}}
        unset == \E t \in Thread : call[t].pc = "published"
    IN /\ \E junk \in Fd \cup {Null} :
             /\ unset \/ junk = Null
             /\ open' = (open \ {heap[o].fd : o \in gone}) \ {junk}
       /\ heap' = [o \in Object |-> IF o \in gone THEN NoObject ELSE heap[o]]
       /\ g_alloc_size' = [p \in Slot |-> IF p \in reset THEN 0 ELSE g_alloc_size[p]]
       /\ partition_map' = [i \in Slot |-> IF i \in removed THEN Null ELSE partition_map[i]]
       /\ num_kind' = num_kind - Cardinality(removed)

Finalize ==
    /\ \A i \in Occupied : heap[partition_map[i]].live
    /\ \/ FinalizeUpTo(MaxKind) /\ finalized' = "done"
       \/ \E i \in Slot : Stops(i) /\ FinalizeUpTo(i) /\ finalized' = "stopped"
    /\ held' = {}
    /\ allocated' = [o \in Object |-> 0]
    /\ UNCHANGED call

-----------------------------------------------------------------------------
(***************************************************************************)
(* Allocations of one unit through memtier: the counter is that of the     *)
(* kind's partition (memkind_memtier.c).                                   *)
(***************************************************************************)
MemtierMalloc(o) ==
    /\ o \in held
    /\ allocated[o] < program.units
    /\ allocated' = [allocated EXCEPT ![o] = @ + 1]
    /\ g_alloc_size' = [g_alloc_size EXCEPT ![heap[o].partition] = @ + 1]
    /\ UNCHANGED <<partition_map, num_kind, heap, open, call, held>>

MemtierFree(o) ==
    /\ o \in held
    /\ allocated[o] > 0
    /\ allocated' = [allocated EXCEPT ![o] = @ - 1]
    /\ g_alloc_size' = [g_alloc_size EXCEPT ![heap[o].partition] = @ - 1]
    /\ UNCHANGED <<partition_map, num_kind, heap, open, call, held>>

Step ==
    \/ \E t \in Thread : \/ OpenTmpfile(t) \/ CreatePmem(t) \/ CloseTmpfile(t)
                         \/ InitPriv(t) \/ \E a \in program.areas : CreateFixed(t, a)
    \/ \E o \in Object : \/ RecreateFile(o) \/ Destroy(o)
                         \/ MemtierMalloc(o) \/ MemtierFree(o)

Next ==
    /\ finalized = "no"
    /\ (Step /\ UNCHANGED finalized) \/ Finalize
    /\ UNCHANGED program

Spec == Init /\ [][Next]_vars

-----------------------------------------------------------------------------
ObjectRecord == [live : BOOLEAN, name : Name \cup {Null}, partition : Slot,
                 fd : Fd \cup {Null}]

CallRecord == [pc : {"idle", "opened", "failed", "published"}, fd : Fd \cup {Null},
               kind : Object \cup {Null},
               err : {"none", "TOOMANY", "INVALID", "FAILED"}]

(* Types; in particular every partition is a valid index of memtier's      *)
(* counters, which memkind_create takes from num_kind.                     *)
TypeOK ==
    /\ partition_map \in [Slot -> Object \cup {Null}]
    /\ num_kind \in NumStatic .. MaxKind
    /\ heap \in [Object -> ObjectRecord]
    /\ open \subseteq Fd
    /\ call \in [Thread -> CallRecord]
    /\ \A t \in Thread : /\ call[t].pc = "published" => call[t].kind \in Object
                         /\ call[t].pc = "opened" => call[t].fd \in Fd
    /\ held \subseteq Object
    /\ g_alloc_size \in [Slot -> Int]
    /\ allocated \in [Object -> 0 .. MaxAlloc]
    /\ finalized \in {"no", "done", "stopped"}
    /\ program \in ProgramRecord

(* num_kind counts the occupied slots.  memkind_create relies on it: when  *)
(* num_kind is below MEMKIND_MAX_KIND its search must find an empty slot,  *)
(* or id_kind stays 0 and a static kind is overwritten.  It holds whatever *)
(* goes wrong with names and descriptors.                                  *)
CountsSlots == num_kind = NumStatic + Cardinality(Occupied)

(* The assertion at the end of memkind_finalize: only the static kinds are *)
(* left, and no slot points to a kind that was freed.                      *)
FinalizedEmpty == finalized = "done" => num_kind = NumStatic /\ Occupied = {}

\* The programs in which names, slots and descriptors agree throughout.
Orderly == program.areas = {} /\ program.faults \subseteq {"create", "policy"}

Created(o) == \E t \in Thread : call[t].pc = "published" /\ call[t].kind = o

(* Every slot points to a live kind and no two slots to the same one; a    *)
(* kind the program holds, or is just being given, is in the registry.     *)
(* Fixed kinds, files that outgrow their file system and names of          *)
(* directories that cannot be copied lead to two kinds of the same name,   *)
(* and are excepted.                                                       *)
SlotsLive == Orderly =>
    /\ \A i \in Occupied : heap[partition_map[i]].live
    /\ \A i, j \in Occupied : partition_map[i] = partition_map[j] => i = j
    /\ finalized = "no" => \A o \in Object :
          o \in held \/ Created(o) => \E i \in Slot : partition_map[i] = o

(* No two kinds of the registry have the same name: memkind_create refuses *)
(* a name that "already exists", and memkind_destroy_kind finds the slot   *)
(* of a kind by its name.                                                  *)
UniqueNames ==
    \A i, j \in Occupied :
       heap[partition_map[i]].name = heap[partition_map[j]].name => i = j

(* memkind_create_pmem never refuses a fresh file because of its name: the *)
(* descriptor's number is not that of any other kind.                      *)
FreshNames == \A t \in Thread : call[t].err # "INVALID"

(* The names tell the kinds apart, across destroyed kinds and reused       *)
(* descriptors: memkind_create takes no name twice, and refuses none that  *)
(* memkind_create_pmem makes.                                              *)
NamesTellApart == Orderly => UniqueNames /\ FreshNames

Owners == {<<"kind", o>> : o \in {k \in Object : heap[k].live /\ heap[k].fd # Null}}
          \cup {<<"call", t>> : t \in {s \in Thread : call[s].fd # Null}}

FdOf(w) == IF w[1] = "kind" THEN heap[w[2]].fd ELSE call[w[2]].fd

(* Every open descriptor belongs to one kind or to one call that is about  *)
(* to create one, and what belongs to them is open: none is forgotten,     *)
(* closed while in use, or closed by the destruction of another kind.      *)
FilesOwned ==
    Orderly /\ finalized = "no" =>
       /\ {FdOf(w) : w \in Owners} = open
       /\ \A v, w \in Owners : FdOf(v) = FdOf(w) => v = w

(* memtier_kind_allocated_size of a kind is what is allocated from it.     *)
SizePerKind == \A o \in held : g_alloc_size[heap[o].partition] = allocated[o]
===============================================================================
