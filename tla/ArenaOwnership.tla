--------------------------- MODULE ArenaOwnership ---------------------------
(***************************************************************************)
(* What the arena layer promises to the rest of memkind: a kind that is    *)
(* ready for allocations owns a block of MapLen[k] arenas with consecutive *)
(* indices, and no two kinds ever own the same arena.  Getting a block and *)
(* giving it back are single steps here; ArenaMap refines them into the    *)
(* loops of memkind_arena_create_map and memkind_arena_destroy.            *)
(***************************************************************************)
EXTENDS Integers

CONSTANTS Kind,        \* the addresses a struct memkind may have
          MapLen,      \* MapLen[k]: kind->arena_map_len
          ArenaLimit,  \* jemalloc arena indices are 0 .. ArenaLimit - 1
          NULL

VARIABLE base          \* base[k]: first arena of the block of k, or NULL

Owns(k, a) == /\ base[k] # NULL
              /\ a \in base[k] .. base[k] + MapLen[k] - 1

Init == base = [k \in Kind |-> NULL]

(* A kind without arenas is given a block that meets nobody else's.        *)
Acquire(k, b) ==
  /\ base[k] = NULL
  /\ b + MapLen[k] <= ArenaLimit
  /\ \A l \in Kind, a \in b .. b + MapLen[k] - 1 : ~Owns(l, a)
  /\ base' = [base EXCEPT ![k] = b]

Release(k) ==
  /\ base[k] # NULL
  /\ base' = [base EXCEPT ![k] = NULL]

Next == \E k \in Kind : \/ \E b \in 0 .. ArenaLimit - 1 : Acquire(k, b)
                        \/ Release(k)

Spec == Init /\ [][Next]_base
=============================================================================
