------------------------------ MODULE ArenaMap ------------------------------
(***************************************************************************)
(* The arena map of the kinds: how memkind_arena_create_map obtains the    *)
(* jemalloc arenas of a kind, how memkind_arena_destroy returns them, and  *)
(* how arena_registry_g leads from an arena back to its kind.  Writers     *)
(* hold arena_registry_write_lock; readers (the extent hooks and           *)
(* memkind_arena_detect_kind) take no lock, so the states inside a         *)
(* writer's loop are visible to them and are states here.                  *)
(* jemalloc's index allocator (ctl.c) is part of the state: an index comes *)
(* from the end of the list of destroyed arenas, or is the next new one.   *)
(***************************************************************************)
EXTENDS Integers, Sequences

CONSTANTS Kind,        \* the addresses a struct memkind may have
          Static,      \* those of the predefined kinds
          MapLen,      \* MapLen[k]: the length memkind_set_arena_map_len sets
          FirstManual, \* arenas below this index are jemalloc's automatic ones
          ArenaLimit,  \* MALLOCX_ARENA_LIMIT: indices are 0 .. ArenaLimit - 1
          NULL

ASSUME ArenaMapAssumption ==
  /\ Static \subseteq Kind
  /\ MapLen \in [Kind -> Nat \ {0}]
  /\ FirstManual \in Nat
  /\ ArenaLimit \in Nat
  /\ FirstManual <= ArenaLimit
  /\ NULL \notin Kind
  /\ NULL \notin Int

Index == 0 .. ArenaLimit - 1

UINT_MAX == ArenaLimit     \* stands for any value above all indices

VARIABLES
  narenas,          \* ctl_arenas->narenas
  destroyed,        \* ctl_arenas->destroyed: indices to reuse, the last first
  initialized,      \* the manual arenas that exist in jemalloc
  arena_registry,   \* arena_registry_g
  write_lock,       \* the kind whose caller holds arena_registry_write_lock
  i,                \* the loop counter of that caller
  arena_zero,       \* kind->arena_zero
  phase,            \* where each kind is in its life
  aborted,          \* abort() was called by memkind_arena_init
  may_fail          \* whether a mallctl may fail for another reason than the limit

vars == << narenas, destroyed, initialized, arena_registry, write_lock, i,
           arena_zero, phase, aborted, may_fail >>

Phase == {"absent", "creating", "ready", "destroying", "unregistering", "finalized"}

TypeOK ==
  /\ narenas \in FirstManual .. ArenaLimit
  /\ destroyed \in Seq(Index)
  /\ initialized \in SUBSET Index
  /\ arena_registry \in [Index -> Kind \cup {NULL}]
  /\ write_lock \in Kind \cup {NULL}
  /\ i \in Nat
  /\ arena_zero \in [Kind -> 0 .. UINT_MAX]
  /\ phase \in [Kind -> Phase]
  /\ aborted \in BOOLEAN

Init ==
  /\ narenas = FirstManual
  /\ destroyed = << >>
  /\ initialized = {}
  /\ arena_registry = [a \in Index |-> NULL]
  /\ write_lock = NULL
  /\ i = 0
  /\ arena_zero = [k \in Kind |-> 0]
  /\ phase = [k \in Kind |-> "absent"]
  /\ aborted = FALSE
  /\ may_fail \in BOOLEAN

-----------------------------------------------------------------------------
(* jemalloc's "arenas.create" and "arena.<i>.destroy".                     *)

(* The index ctl_arena_init tries to use.                                  *)
NextIndex ==
  IF destroyed # << >> THEN destroyed[Len(destroyed)] ELSE narenas

(* It leaves the list, or the next new index advances when the arena was   *)
(* made; an index taken from the list is gone even if making it fails.     *)
TakeIndex(made) ==
  IF destroyed # << >>
    THEN /\ destroyed' = SubSeq(destroyed, 1, Len(destroyed) - 1)
         /\ UNCHANGED narenas
    ELSE /\ narenas' = IF made THEN narenas + 1 ELSE narenas
         /\ UNCHANGED destroyed

(* Destroying an arena that does not exist is an error memkind ignores.    *)
DestroyIndex(a) ==
  IF a \in initialized
    THEN /\ initialized' = initialized \ {a}
         /\ destroyed' = Append(destroyed, a)
    ELSE UNCHANGED << initialized, destroyed >>

-----------------------------------------------------------------------------
(* memkind_arena_create_map.                                               *)

CreateBegin(k) ==
  /\ ~aborted
  /\ phase[k] = "absent"
  /\ write_lock = NULL
  /\ write_lock' = k
  /\ i' = 0
  /\ arena_zero' = [arena_zero EXCEPT ![k] = UINT_MAX]
  /\ phase' = [phase EXCEPT ![k] = "creating"]
  /\ UNCHANGED << narenas, destroyed, initialized, arena_registry, aborted >>

(* One iteration of the loop: a new arena, registered to k.  No thread     *)
(* knows the index before it is registered, and no hook runs on it.        *)
CreateArena(k) ==
  /\ ~aborted
  /\ write_lock = k
  /\ phase[k] = "creating"
  /\ i < MapLen[k]
  /\ NextIndex < ArenaLimit
  /\ TakeIndex(TRUE)
  /\ initialized' = initialized \cup {NextIndex}
  /\ arena_zero' = [arena_zero EXCEPT ![k] = IF @ > NextIndex THEN NextIndex ELSE @]
  /\ arena_registry' = [arena_registry EXCEPT ![NextIndex] = k]
  /\ i' = i + 1
  /\ UNCHANGED << write_lock, phase, aborted >>

(* Mutant: the lock is not released.                                       *)
CreateErrorKeepsLock(k) ==
  /\ phase' = [phase EXCEPT ![k] = "absent"]
  /\ aborted' = (k \in Static)
  /\ UNCHANGED << write_lock, arena_registry, i, arena_zero >>

(* goto exit: the lock is released and the error returned.  The arenas     *)
(* made so far stay registered.  memkind_create then frees the kind;       *)
(* memkind_arena_init, for a predefined kind, aborts the process.          *)
CreateError(k) ==
  /\ write_lock' = NULL
  /\ phase' = [phase EXCEPT ![k] = "absent"]
  /\ aborted' = (k \in Static)
  /\ UNCHANGED << arena_registry, i, arena_zero >>

(* There is no index left, or the arena cannot be made.                    *)
CreateFails(k) ==
  /\ ~aborted
  /\ write_lock = k
  /\ phase[k] = "creating"
  /\ i < MapLen[k]
  /\ may_fail \/ NextIndex = ArenaLimit
  /\ TakeIndex(FALSE)
  /\ UNCHANGED initialized
  /\ CreateError(k)

(* The arena is made but "arena.<i>.extent_hooks" fails: not registered.   *)
HooksFail(k) ==
  /\ ~aborted
  /\ write_lock = k
  /\ phase[k] = "creating"
  /\ i < MapLen[k]
  /\ may_fail
  /\ NextIndex < ArenaLimit
  /\ TakeIndex(TRUE)
  /\ initialized' = initialized \cup {NextIndex}
  /\ CreateError(k)

CreateEnd(k) ==
  /\ ~aborted
  /\ write_lock = k
  /\ phase[k] = "creating"
  /\ i = MapLen[k]
  /\ write_lock' = NULL
  /\ phase' = [phase EXCEPT ![k] = "ready"]
  /\ UNCHANGED << narenas, destroyed, initialized, arena_registry, i, arena_zero,
                  aborted >>

-----------------------------------------------------------------------------
(* memkind_arena_destroy.                                                  *)

(* Mutant: the destruction of a kind ends the others, too.                 *)
DestroyBeginAll(k) ==
  /\ ~aborted
  /\ phase[k] = "ready"
  /\ write_lock = NULL
  /\ write_lock' = k
  /\ i' = 0
  /\ phase' = [l \in Kind |-> IF phase[l] = "ready" THEN "destroying" ELSE phase[l]]
  /\ UNCHANGED << narenas, destroyed, initialized, arena_registry, arena_zero,
                  aborted >>

DestroyBegin(k) ==
  /\ ~aborted
  /\ phase[k] = "ready"
  /\ write_lock = NULL
  /\ write_lock' = k
  /\ i' = 0
  /\ phase' = [phase EXCEPT ![k] = "destroying"]
  /\ UNCHANGED << narenas, destroyed, initialized, arena_registry, arena_zero,
                  aborted >>

(* Mutant: the entry is cleared before the hooks run.                      *)
DestroyArenaClearsFirst(k) ==
  /\ ~aborted
  /\ write_lock = k
  /\ phase[k] = "destroying"
  /\ i < MapLen[k]
  /\ arena_registry' = [arena_registry EXCEPT ![arena_zero[k] + i] = NULL]
  /\ phase' = [phase EXCEPT ![k] = "unregistering"]
  /\ UNCHANGED << narenas, destroyed, initialized, write_lock, i, arena_zero, aborted >>

(* jemalloc runs the extent hooks of the arena while it destroys it, and   *)
(* the hooks look the kind up: the entry is cleared only afterwards.       *)
DestroyArena(k) ==
  /\ ~aborted
  /\ write_lock = k
  /\ phase[k] = "destroying"
  /\ i < MapLen[k]
  /\ DestroyIndex(arena_zero[k] + i)
  /\ phase' = [phase EXCEPT ![k] = "unregistering"]
  /\ UNCHANGED << narenas, arena_registry, write_lock, i, arena_zero, aborted >>

(* Mutant: the entry is not cleared.                                       *)
UnregisterForgets(k) ==
  /\ ~aborted
  /\ write_lock = k
  /\ phase[k] = "unregistering"
  /\ i' = i + 1
  /\ phase' = [phase EXCEPT ![k] = "destroying"]
  /\ UNCHANGED << narenas, destroyed, initialized, arena_registry, write_lock,
                  arena_zero, aborted >>

Unregister(k) ==
  /\ ~aborted
  /\ write_lock = k
  /\ phase[k] = "unregistering"
  /\ arena_registry' = [arena_registry EXCEPT ![arena_zero[k] + i] = NULL]
  /\ i' = i + 1
  /\ phase' = [phase EXCEPT ![k] = "destroying"]
  /\ UNCHANGED << narenas, destroyed, initialized, write_lock, arena_zero, aborted >>

(* A dynamic kind is freed by its caller, and its address may come back as *)
(* that of a new kind.  A predefined kind is only destroyed by             *)
(* memkind_finalize and is not initialised again.                          *)
DestroyEnd(k) ==
  /\ ~aborted
  /\ write_lock = k
  /\ phase[k] = "destroying"
  /\ i = MapLen[k]
  /\ write_lock' = NULL
  /\ phase' = [phase EXCEPT ![k] = IF k \in Static THEN "finalized" ELSE "absent"]
  /\ UNCHANGED << narenas, destroyed, initialized, arena_registry, i, arena_zero,
                  aborted >>

-----------------------------------------------------------------------------
Create(k) == CreateBegin(k) \/ CreateArena(k) \/ CreateFails(k)
               \/ HooksFail(k) \/ CreateEnd(k)

Destroy(k) == DestroyBegin(k) \/ DestroyArena(k) \/ Unregister(k) \/ DestroyEnd(k)

Next == (\E k \in Kind : Create(k) \/ Destroy(k)) /\ UNCHANGED may_fail

Spec == Init /\ [][Next]_vars

(* A caller inside the lock keeps running: its loop makes no blocking call *)
(* but those of jemalloc.                                                  *)
Fairness ==
  \A k \in Kind :
    /\ WF_vars(/\ CreateArena(k) \/ CreateFails(k) \/ HooksFail(k) \/ CreateEnd(k)
               /\ UNCHANGED may_fail)
    /\ WF_vars(/\ DestroyArena(k) \/ Unregister(k) \/ DestroyEnd(k)
               /\ UNCHANGED may_fail)

FairSpec == Spec /\ Fairness
-----------------------------------------------------------------------------
(* What the readers see.                                                   *)

(* memkind_thread_get_arena: the arena of a thread, by a hash of the       *)
(* thread's identity under kind->arena_map_mask.                           *)
ThreadArena(k, hash) == arena_zero[k] + (hash % MapLen[k])

(* get_kind_by_arena, and memkind_arena_detect_kind on a block of arena a. *)
KindByArena(a) == arena_registry[a]

DetectKind(a) == IF KindByArena(a) # NULL THEN KindByArena(a) ELSE "MEMKIND_DEFAULT"

(* Whatever other kinds are being created or destroyed at the moment, each *)
(* arena a thread can pick for a ready kind exists and leads back to that  *)
(* kind, and an arena under destruction leads back to its kind for as long *)
(* as it exists.  The extent hooks map and unmap the memory of the kind    *)
(* they find that way, and a free without a kind goes to that kind.  So it *)
(* is when a creation fails only because the indices are used up: after    *)
(* another failure the block of a kind need not be consecutive.            *)
OwnBlock ==
  ~may_fail => \A k \in Kind, hash \in 0 .. ArenaLimit :
    LET a == ThreadArena(k, hash)
    IN  /\ phase[k] = "ready" => a \in initialized /\ DetectKind(a) = k
        /\ phase[k] \in {"destroying", "unregistering"} /\ a \in initialized
             => DetectKind(a) = k

(* Even when creations fail midway, an entry of the registry outlives its  *)
(* arena only until the thread that destroyed the arena, still inside the  *)
(* lock, clears the entry: no lookup is led to a kind through an index     *)
(* that jemalloc has given to somebody else.                               *)
RegisteredExist ==
  \A a \in Index :
    arena_registry[a] # NULL =>
      \/ a \in initialized
      \/ \E k \in Kind : phase[k] = "unregistering" /\ a = arena_zero[k] + i

(* The arena layer gives out exclusive blocks of consecutive arenas: a     *)
(* block is acquired when memkind_arena_create_map releases the lock and   *)
(* given back when memkind_arena_destroy takes it, again when a creation   *)
(* fails for no other reason than the limit.                               *)
Ownership ==
  INSTANCE ArenaOwnership
    WITH base <- [k \in Kind |-> IF phase[k] = "ready" /\ ~may_fail
                                 THEN arena_zero[k] ELSE NULL]

BlocksAreExclusive == Ownership!Spec

(* A caller that took arena_registry_write_lock releases it, on the error  *)
(* paths too, so the creation of another kind is never blocked for good.   *)
LockIsReleased == []<>(write_lock = NULL)
=============================================================================
