---------------------------- MODULE MCKindRegistry ----------------------------
(* Small instances of KindRegistry.                                        *)
EXTENDS KindRegistry, TLC

CONSTANTS t1, t2, k1, k2, k3, a1

Threads == {t1, t2}
Objects == {k1, k2, k3}

Symmetric == Permutations(Threads) \cup Permutations(Objects)

\* Creations that fail and are undone; what leaves something behind.
Failing == {[faults |-> {"create", "policy"}, areas |-> {}, fds |-> Fd, units |-> 1],
            [faults |-> {"dir", "busy"}, areas |-> {a1}, fds |-> {3, 4}, units |-> 0],
            [faults |-> {"efbig", "fallocate"}, areas |-> {a1}, fds |-> {3, 4},
             units |-> 0]}

NoFaults == {[faults |-> {}, areas |-> {}, fds |-> Fd, units |-> 1]}
============================================================================
