----------------------------- MODULE ThreadCaches -----------------------------
(***************************************************************************)
(* The thread caches of src/src/memkind_arena.c.  jemalloc numbers the     *)
(* caches a program creates from 0, and a number that is destroyed is      *)
(* given out again.  memkind keeps the numbers of a thread's caches, one   *)
(* per static kind, in a map that hangs on a thread key, takes 0 for "none *)
(* yet", and destroys the caches when the thread exits.  Blocks of the     *)
(* static kinds pass through the caches, blocks of other kinds do not.     *)
(*                                                                         *)
(* A cache is used by its thread alone, so an allocation is one step.  The *)
(* program's own key destructors may allocate and free, before memkind's   *)
(* or after it; the system calls the destructors again, a limited number   *)
(* of times, while some key has a value.                                   *)
(***************************************************************************)
EXTENDS Naturals, Sequences, FiniteSets

CONSTANTS
    Thread,
    StaticKind,
    DynamicKind,
    Block,
    KindOf,       \* the kind whose arenas a block belongs to
    Keyed,        \* the threads with key destructors of the program that allocate or free
    MaxCaches,    \* jemalloc's limit, MALLOCX_TCACHE_MAX + 1
    MaxRounds,    \* PTHREAD_DESTRUCTOR_ITERATIONS
    Null

ASSUME ThreadCachesAssumption ==
    /\ StaticKind \cap DynamicKind = {}
    /\ KindOf \in [Block -> StaticKind \cup DynamicKind]
    /\ Keyed \subseteq Thread
    /\ MaxCaches \in Nat \ {0} /\ MaxRounds \in Nat \ {0}
    /\ Null \notin Nat \cup Thread \cup StaticKind \cup DynamicKind
    /\ \A s \in SUBSET Block : s # Null
    /\ \A map \in [StaticKind \cup DynamicKind -> 0 .. MaxCaches - 1] : map # Null

VARIABLES
    tcache_map,   \* of each thread: the key's value, Null or the numbers of its caches
    tcaches,      \* what jemalloc has under each number: Null, or the blocks in the cache
    past,         \* tcaches_past, the first number never used
    avail,        \* tcaches_avail, the numbers to be given out again
    arena,        \* the blocks that are free in their arenas
    held,         \* the blocks the program has
    live,         \* the dynamic kinds that are not destroyed
    phase,        \* of each thread: "running", "exiting", "finalizing" or "gone"
    round,        \* of each thread: the round of destructors, and whether memkind's turn is over
    doomed,       \* of each thread: the numbers tcache_finalize has yet to destroy
    flushed       \* of each thread: the blocks of the cache it is destroying

table == <<tcache_map, tcaches, past, avail>>
blocks == <<arena, held, live>>
exits == <<phase, round, doomed, flushed>>
vars == <<table, blocks, exits>>

Kind == StaticKind \cup DynamicKind

Init ==
    /\ tcache_map = [t \in Thread |-> Null]
    /\ tcaches = [i \in 0 .. MaxCaches - 1 |-> Null]
    /\ past = 0
    /\ avail = << >>
    /\ arena = Block
    /\ held = {}
    /\ live = DynamicKind
    /\ phase = [t \in Thread |-> "running"]
    /\ round = [t \in Thread |-> [n |-> 1, ran |-> FALSE]]
    /\ doomed = [t \in Thread |-> {}]
    /\ flushed = [t \in Thread |-> {}]

-----------------------------------------------------------------------------
(* get_tcache_flag.                                                        *)

\* tcaches_create: a number given back, the last one first, or the next new one.
CanCreate == avail # << >> \/ past < MaxCaches

NewNumber == IF avail # << >> THEN Head(avail) ELSE past

Create(t, map, k) ==
    /\ tcache_map' = [tcache_map EXCEPT ![t] = [map EXCEPT ![k] = NewNumber]]
    /\ past' = IF avail # << >> THEN past ELSE past + 1
    /\ avail' = IF avail # << >> THEN Tail(avail) ELSE avail

\* A mutant: kinds that can be destroyed are cached too.
CachedAlways(k, small) == small

Cached(k, small) == small /\ k \in StaticKind

\* The map has an entry for every partition below MEMKIND_NUM_STATIC_KINDS.
MapOf(t) == IF tcache_map[t] = Null THEN [k \in Kind |-> 0] ELSE tcache_map[t]

(***************************************************************************)
(* The flag is Null for MALLOCX_TCACHE_NONE: for what is not cached, and   *)
(* when memory for the map or for the cache is not to be had.              *)
(***************************************************************************)
Flags(t, k, small) ==
    IF ~Cached(k, small) THEN {Null}
    ELSE IF MapOf(t)[k] # 0 THEN {MapOf(t)[k]}
    ELSE {Null} \cup (IF CanCreate THEN {NewNumber} ELSE {})

GetTcacheFlag(t, k, small, flag) ==
    IF Cached(k, small) /\ MapOf(t)[k] = 0
    THEN \/ flag = Null /\ tcache_map[t] = Null /\ UNCHANGED <<tcache_map, past, avail>>
         \/ flag = Null /\ UNCHANGED <<past, avail>>
            /\ tcache_map' = [tcache_map EXCEPT ![t] = MapOf(t)]
         \/ flag # Null /\ Create(t, MapOf(t), k)
    ELSE UNCHANGED <<tcache_map, past, avail>>

\* The cache as jemalloc finds it under the flag's number; one just created is empty.
Contents(flag) == IF flag = Null \/ tcaches[flag] = Null THEN {} ELSE tcaches[flag]

Store(flag, content) ==
    tcaches' = IF flag = Null THEN tcaches ELSE [tcaches EXCEPT ![flag] = content]

-----------------------------------------------------------------------------
(* The calls, of a running thread and of the program's key destructors.    *)

MayCall(t) == phase[t] = "running" \/ (phase[t] = "exiting" /\ t \in Keyed)

Available(k) == {b \in arena : KindOf[b] = k}

(***************************************************************************)
(* jemalloc's allocation, as the block it returns and what it leaves in    *)
(* the cache: from the cache; when that is empty, it is filled from the    *)
(* arena first; without a cache, from the arena.                           *)
(***************************************************************************)
Allocations(k, flag) ==
    LET cache == Contents(flag)
        fills == IF flag = Null THEN {{}} ELSE SUBSET Available(k)
    IN  IF cache # {} THEN {[block |-> b, left |-> cache \ {b}] : b \in cache}
        ELSE UNION {{[block |-> b, left |-> fill] : b \in Available(k) \ fill} : fill \in fills}

\* memkind_arena_malloc, memkind_arena_calloc, memkind_arena_posix_memalign.
ArenaMalloc(t, k, small) ==
    /\ MayCall(t)
    /\ k \in StaticKind \cup live
    /\ \E flag \in Flags(t, k, small) :
         /\ GetTcacheFlag(t, k, small, flag)
         /\ \/ \E new \in Allocations(k, flag) :
                 /\ Store(flag, new.left)
                 /\ arena' = arena \ (new.left \cup {new.block})
                 /\ held' = held \cup {new.block}
            \/ /\ Allocations(k, flag) = {}
               /\ Store(flag, {})
               /\ UNCHANGED <<arena, held>>
    /\ UNCHANGED <<live, exits>>

\* A mutant: the lookup answers with the same kind for every arena.
DetectAny(b) == CHOOSE k \in StaticKind : TRUE

\* memkind_arena_detect_kind, through arena_registry_g.
DetectKind(b) == KindOf[b]

(***************************************************************************)
(* memkind_arena_free, memkind_arena_realloc to size 0, and the forms that *)
(* look the kind up by the block's arena.  A cache that is full gives      *)
(* blocks back to the arenas.                                              *)
(***************************************************************************)
ArenaFree(t, b) ==
    /\ MayCall(t)
    /\ b \in held
    /\ held' = held \ {b}
    /\ \E flag \in Flags(t, DetectKind(b), TRUE) :
         /\ GetTcacheFlag(t, DetectKind(b), TRUE, flag)
         /\ \/ flag = Null /\ arena' = arena \cup {b} /\ UNCHANGED tcaches
            \/ /\ flag # Null
               /\ \E back \in SUBSET Contents(flag) :
                    /\ Store(flag, (Contents(flag) \cup {b}) \ back)
                    /\ arena' = arena \cup back
    /\ UNCHANGED <<live, exits>>

\* memkind_arena_realloc that has to move the block, and frees the old one under the same flag.
ArenaRealloc(t, b, small) ==
    /\ MayCall(t)
    /\ b \in held
    /\ \E flag \in Flags(t, KindOf[b], small) :
         /\ GetTcacheFlag(t, KindOf[b], small, flag)
         /\ \/ \E new \in Allocations(KindOf[b], flag) :
                 /\ Store(flag, new.left \cup {b})
                 /\ held' = (held \ {b}) \cup {new.block}
                 /\ arena' = (arena \ (new.left \cup {new.block}))
                             \cup (IF flag = Null THEN {b} ELSE {})
            \/ /\ Allocations(KindOf[b], flag) = {}
               /\ Store(flag, {})
               /\ UNCHANGED <<arena, held>>
    /\ UNCHANGED <<live, exits>>

\* memkind_arena_defrag_reallocate: memkind_arena_malloc_no_tcache, a copy and a free.
Defrag(t, b) ==
    /\ MayCall(t)
    /\ b \in held
    /\ \E n \in Available(KindOf[b]) :
         /\ held' = (held \ {b}) \cup {n}
         /\ arena' = (arena \ {n}) \cup {b}
    /\ UNCHANGED <<table, live, exits>>

\* memkind_arena_destroy of a dynamic kind that the program no longer uses.
Destroy(k) ==
    /\ k \in live
    /\ \A b \in held : KindOf[b] # k
    /\ live' = live \ {k}
    /\ arena' = {b \in arena : KindOf[b] # k}
    /\ UNCHANGED <<table, held, exits>>

-----------------------------------------------------------------------------
(* The exit of a thread.                                                   *)

Exit(t) ==
    /\ phase[t] = "running"
    /\ phase' = [phase EXCEPT ![t] = "exiting"]
    /\ UNCHANGED <<table, blocks, round, doomed, flushed>>

\* A mutant: the key keeps its value while the destructor runs.
KeyKept(t) == tcache_map

\* The system takes the value from the key before it calls the destructor.
KeyCleared(t) == [tcache_map EXCEPT ![t] = Null]

\* A mutant: the loop stops before the last kind.
DoomedButOne(t) ==
    {tcache_map[t][k] : k \in Kind \ {CHOOSE k \in StaticKind : TRUE}} \ {0}

Doomed(t) == {tcache_map[t][k] : k \in Kind} \ {0}

\* A mutant: the key was created without a destructor.
FinalizeBeginNothing(t) ==
    /\ phase[t] = "exiting" /\ ~round[t].ran /\ tcache_map[t] # Null
    /\ round' = [round EXCEPT ![t].ran = TRUE]
    /\ UNCHANGED <<table, blocks, phase, doomed, flushed>>

\* tcache_finalize is called.
FinalizeBegin(t) ==
    /\ phase[t] = "exiting" /\ ~round[t].ran /\ tcache_map[t] # Null
    /\ phase' = [phase EXCEPT ![t] = "finalizing"]
    /\ doomed' = [doomed EXCEPT ![t] = Doomed(t)]
    /\ tcache_map' = KeyCleared(t)
    /\ UNCHANGED <<tcaches, past, avail, blocks, round, flushed>>

\* "tcache.destroy" makes the number available at once ...
TcacheDestroy(t) ==
    /\ phase[t] = "finalizing" /\ flushed[t] = {}
    /\ \E i \in doomed[t] :
         /\ flushed' = [flushed EXCEPT ![t] = Contents(i)]
         /\ tcaches' = [tcaches EXCEPT ![i] = Null]
         /\ avail' = <<i>> \o avail
         /\ doomed' = [doomed EXCEPT ![t] = @ \ {i}]
    /\ UNCHANGED <<tcache_map, past, blocks, phase, round>>

\* ... and then gives the blocks back to their arenas.
TcacheFlush(t) ==
    /\ flushed[t] # {}
    /\ arena' = arena \cup flushed[t]
    /\ flushed' = [flushed EXCEPT ![t] = {}]
    /\ UNCHANGED <<table, held, live, phase, round, doomed>>

FinalizeEnd(t) ==
    /\ phase[t] = "finalizing" /\ doomed[t] = {} /\ flushed[t] = {}
    /\ phase' = [phase EXCEPT ![t] = "exiting"]
    /\ round' = [round EXCEPT ![t].ran = TRUE]
    /\ UNCHANGED <<table, blocks, doomed, flushed>>

\* memkind's turn in the round comes while its key has no value.
FinalizeSkip(t) ==
    /\ phase[t] = "exiting" /\ ~round[t].ran /\ tcache_map[t] = Null
    /\ round' = [round EXCEPT ![t].ran = TRUE]
    /\ UNCHANGED <<table, blocks, phase, doomed, flushed>>

\* Another round if the key has a value again, or if a key of the program has one.
EndRound(t) ==
    /\ phase[t] = "exiting" /\ round[t].ran
    /\ \/ /\ round[t].n < MaxRounds /\ (tcache_map[t] # Null \/ t \in Keyed)
          /\ round' = [round EXCEPT ![t] = [n |-> @.n + 1, ran |-> FALSE]]
          /\ UNCHANGED phase
       \/ /\ round[t].n = MaxRounds \/ tcache_map[t] = Null
          /\ phase' = [phase EXCEPT ![t] = "gone"]
          /\ UNCHANGED round
    /\ UNCHANGED <<table, blocks, doomed, flushed>>

Finishing(t) ==
    \/ FinalizeBegin(t)
    \/ FinalizeSkip(t)
    \/ TcacheDestroy(t)
    \/ TcacheFlush(t)
    \/ FinalizeEnd(t)
    \/ EndRound(t)

Calls(t) ==
    \/ \E k \in Kind, small \in BOOLEAN : ArenaMalloc(t, k, small)
    \/ \E b \in Block : ArenaFree(t, b) \/ Defrag(t, b)
    \/ \E b \in Block, small \in BOOLEAN : ArenaRealloc(t, b, small)

Next ==
    \/ \E t \in Thread : Calls(t) \/ Exit(t) \/ Finishing(t)
    \/ \E k \in DynamicKind : Destroy(k)

\* A thread that exits goes on with its destructors, and these return.
Spec == Init /\ [][Next]_vars /\ \A t \in Thread : WF_vars(Finishing(t))

-----------------------------------------------------------------------------
(* Properties.                                                             *)

Live == {i \in DOMAIN tcaches : tcaches[i] # Null}

TypeOK ==
    /\ \A t \in Thread : tcache_map[t] = Null \/ tcache_map[t] \in [Kind -> DOMAIN tcaches]
    /\ \A i \in DOMAIN tcaches : tcaches[i] = Null \/ tcaches[i] \subseteq Block
    /\ past \in 0 .. MaxCaches
    /\ avail \in Seq(DOMAIN tcaches)
    /\ arena \subseteq Block /\ held \subseteq Block /\ live \subseteq DynamicKind
    /\ phase \in [Thread -> {"running", "exiting", "finalizing", "gone"}]
    /\ round \in [Thread -> [n : 1 .. MaxRounds, ran : BOOLEAN]]
    /\ doomed \in [Thread -> SUBSET DOMAIN tcaches]
    /\ flushed \in [Thread -> SUBSET Block]

\* The places in the maps, and in the destructors, where a number stands.
Users(i) == {p \in Thread \X Kind : tcache_map[p[1]] # Null /\ tcache_map[p[1]][p[2]] = i}
            \cup {<<t, Null>> : t \in {u \in Thread : i \in doomed[u]}}

(***************************************************************************)
(* jemalloc does not synchronise a cache, and a destroyed number belongs   *)
(* to its next owner.  So, except for number 0, at most one thread and one *)
(* kind know the number of a cache, however numbers are recycled between   *)
(* threads that come and go, and no number stands in a map without its     *)
(* cache (get_tcache_flag, tcache_finalize).                               *)
(***************************************************************************)
OneOwner ==
    \A i \in DOMAIN tcaches \ {0} : Cardinality(Users(i)) <= (IF i \in Live THEN 1 ELSE 0)

(***************************************************************************)
(* A block is at any time in one place only: with the program, in one      *)
(* cache, on its way out of a destroyed cache, or free in its arena, and   *)
(* only the destruction of its kind makes it disappear; so what malloc     *)
(* returns is in no cache, and no other thread gets it.                    *)
(***************************************************************************)
Places(b) ==
    {"held" : x \in {b} \cap held} \cup {"arena" : x \in {b} \cap arena}
    \cup {<<"cache", i>> : i \in {j \in Live : b \in tcaches[j]}}
    \cup {<<"flush", t>> : t \in {u \in Thread : b \in flushed[u]}}

OnePlace ==
    \A b \in Block : Cardinality(Places(b)) =
        (IF KindOf[b] \in StaticKind \cup live THEN 1 ELSE 0)

(***************************************************************************)
(* A thread's cache for a kind holds blocks of that kind only: the flag of *)
(* malloc and the flag of the free that finds the kind by arena agree.     *)
(***************************************************************************)
CachesOfKind ==
    \A t \in Thread, k \in Kind :
        tcache_map[t] # Null =>
            LET i == tcache_map[t][k]
            IN  i = 0 \/ \A b \in Contents(i) : KindOf[b] = k

(***************************************************************************)
(* When a thread is gone, so are its caches, with their blocks back in the *)
(* arenas: what is left over is number 0, whose first use the map cannot   *)
(* tell from no cache, and the caches that the program's destructors       *)
(* created after memkind's in the last round (tcache_finalize).            *)
(***************************************************************************)
NothingLeftBehind ==
    (\A t \in Thread : phase[t] = "gone") =>
        /\ Live \subseteq {0} \cup UNION {Doomed(t) : t \in {u \in Thread : tcache_map[u] # Null}}
        /\ \A t \in Thread : tcache_map[t] # Null => round[t] = [n |-> MaxRounds, ran |-> TRUE]
        /\ \A t \in Thread : flushed[t] = {}

(***************************************************************************)
(* What an exiting thread has in its caches, number 0 excepted, comes back *)
(* to the arenas, whatever other threads do with the numbers meanwhile:    *)
(* tcache_finalize reaches every cache of the thread's map.  A thread      *)
(* whose program has key destructors may use its caches again and is       *)
(* excepted.                                                               *)
(***************************************************************************)
InCacheOf(t, b) ==
    tcache_map[t] # Null /\ \E k \in Kind : tcache_map[t][k] # 0 /\ b \in Contents(tcache_map[t][k])

BlocksComeBack ==
    \A t \in Thread \ Keyed, b \in Block :
        phase[t] = "exiting" /\ InCacheOf(t, b) ~> b \in arena
===============================================================================
