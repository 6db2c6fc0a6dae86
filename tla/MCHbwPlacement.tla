----------------------------- MODULE MCHbwPlacement -----------------------------
(***************************************************************************)
(* Small machines for NodeMasks, HbwPlacement and AutoHbw: two CPUs, each  *)
(* with a node of its own (0 and 1), and memory-only nodes 2 and 3 in the  *)
(* domains of CPU 0 and 1.                                                 *)
(* Every set of machines varies one aspect of Base; the kinds are the ones *)
(* that look at it.                                                        *)
(***************************************************************************)
EXTENDS AutoHbw, TLC

CONSTANTS t1, t2

Threads == {t1, t2}

Symmetric == Permutations(Threads)

Pairs(N) == {0, 1} \X N

\* Distances: the node itself, its domain, the rest.
Near(i, n) == IF n = i THEN 1 ELSE IF n = IF i = 0 THEN 2 ELSE 3 THEN 2 ELSE 3

Unset == [set |-> FALSE, valid |-> FALSE, nodes |-> {}]

SetTo(nodes) == [set |-> TRUE, valid |-> nodes # {}, nodes |-> nodes]

Base == LET N == {0, 1, 2, 3} IN
    [memory |-> [n \in N |-> IF n < 2 THEN 2 ELSE 4], unreadable |-> {},
     cpus |-> [n \in N |-> IF n < 2 THEN {n} ELSE {}],
     cpuset |-> [n \in N |-> IF n \in {0, 2} THEN {0} ELSE {1}],
     order |-> <<0, 2, 1, 3>>,
     dist |-> [p \in N \X N |-> Near(p[1], p[2])],
     bandwidth |-> [p \in N \X N |-> -1], latency |-> [p \in N \X N |-> -1],
     threshold |-> 2, hbw_env |-> Unset, legacy |-> FALSE,
     dax |-> {}, dax_env |-> Unset,
     hugefs |-> TRUE, sizes |-> {"2MB"}, pages |-> [n \in N |-> 0],
     overcommit |-> 0, kinds |-> {}]

Subsets == (SUBSET {0, 1, 2, 3}) \ {{0}, {1}, {0, 1, 2}}

\* Distances from node 0 to the others in any order; node 1 sees those of Base.
AnyDist == {[p \in {0, 1, 2, 3} \X {0, 1, 2, 3} |->
               IF p[1] = 0 /\ p[2] # 0 THEN d[p[2]] ELSE Near(p[1], p[2])] :
               d \in [{1, 2, 3} -> 2 .. 3]}

HbwKinds == {{"HBW", "HBW_PREFERRED"}, {"HBW_ALL", "HBW_INTERLEAVE"}}

EnvMachines ==
    {[Base EXCEPT !.hbw_env = SetTo(S), !.dist = d, !.kinds = K] :
        S \in Subsets, d \in AnyDist, K \in HbwKinds}

LegacyMachines ==
    {[Base EXCEPT !.legacy = TRUE, !.cpus[2] = IF own THEN {2} ELSE {},
                  !.cpuset[2] = IF own THEN {2} ELSE {0}, !.dist = d, !.kinds = K] :
        own \in BOOLEAN, d \in AnyDist, K \in HbwKinds}

\* Bandwidths as seen from the two CPUs; order with the own nodes first or not.
HmatMachines ==
    {[Base EXCEPT !.bandwidth = [p \in DOMAIN Base.bandwidth |->
                                   IF p[1] = 0 /\ p[2] \in {0, 2, 3} THEN b[p[2]]
                                   ELSE IF p = <<1, 3>> THEN b[3] ELSE IF p[2] = 2 THEN 2 ELSE 1],
                  !.threshold = t, !.order = o, !.kinds = K] :
        b \in [{0, 2, 3} -> {-1, 1, 2}], t \in {-1, 0, 2}, o \in {<<0, 2, 1, 3>>, <<0, 1, 2, 3>>, <<2, 0, 3, 1>>},
        K \in HbwKinds}

DaxMachines ==
    {[Base EXCEPT !.dax = S, !.dax_env = e, !.kinds = K] :
        S \in SUBSET {1, 2, 3}, e \in {Unset, SetTo({}), SetTo({1, 3})},
        K \in {{"DAX_KMEM", "DAX_KMEM_PREFERRED"}, {"DAX_KMEM_ALL", "DAX_KMEM_INTERLEAVE"}}}

CapacityMachines ==
    {[Base EXCEPT !.memory = m, !.unreadable = u,
                  !.kinds = {"HIGHEST_CAPACITY", "HIGHEST_CAPACITY_PREFERRED"}] :
        m \in [{0, 1, 2, 3} -> {0, 1, 2}], u \in {{}, {2}}}

DefaultMachines ==
    {[Base EXCEPT !.unreadable = u, !.kinds = K] :
        u \in SUBSET {0, 2}, K \in {{"DEFAULT", "INTERLEAVE"}, {"REGULAR", "DEFAULT"}}}

\* Nodes 0 and 2, and with one also 3, in the domain of CPU 0; a is the attribute.
LocalMachine(m, a, one, kind) ==
    [Base EXCEPT !.memory = m @@ (1 :> 1),
                 !.bandwidth = [p \in DOMAIN @ |-> IF p[2] = 1 THEN 1 ELSE a[p[2]]],
                 !.latency = [p \in DOMAIN @ |-> IF p[2] = 1 THEN 1 ELSE a[p[2]]],
                 !.cpuset[3] = IF one THEN {0} ELSE {1},
                 !.dist[<<0, 3>>] = IF one THEN 2 ELSE 3,
                 !.kinds = {kind}]

LocalMachines ==
    {LocalMachine(m, [n \in {0, 2, 3} |-> 1], one, kind) :
        m \in [{0, 2, 3} -> 0 .. 2], one \in BOOLEAN,
        kind \in {"HIGHEST_CAPACITY_LOCAL", "HIGHEST_CAPACITY_LOCAL_PREFERRED"}}
      \cup
    {LocalMachine(m @@ (3 :> 1), a, one, kind) :
        m \in [{0, 2} -> 1 .. 2], a \in [{0, 2, 3} -> {-1, 1, 2}], one \in BOOLEAN,
        kind \in {"LOWEST_LATENCY_LOCAL", "HIGHEST_BANDWIDTH_LOCAL_PREFERRED"}}

\* The directories of sysfs; none stands for a sysfs without huge pages.
HugeSizes == {{}, {"2MB"}, {"1GB"}, {"2MB", "1GB"}}

HugeMachines ==
    {[Base EXCEPT !.hbw_env = SetTo({2, 3}), !.pages = [@ EXCEPT ![0] = p[1], ![2] = file, ![3] = p[2]],
                  !.overcommit = o, !.hugefs = h # {}, !.sizes = h,
                  !.dist[<<0, 3>>] = IF o = 1 THEN 2 ELSE 3, !.kinds = K] :
        p \in [{1, 2} -> 0 .. 1], file \in {MissingFile, EmptyFile, 0, 1},
        o \in {EmptyFile, 0, 1}, h \in HugeSizes,
        K \in {{"HUGETLB"}, {"HBW_HUGETLB"}, {"HBW_ALL_HUGETLB", "HBW_PREFERRED_HUGETLB"}}}

AllMachines == EnvMachines \cup LegacyMachines \cup HmatMachines \cup DaxMachines
                 \cup CapacityMachines \cup DefaultMachines \cup LocalMachines \cup HugeMachines

\* Machines on which two threads use the hbw interface.
InterfaceMachines ==
    {[Base EXCEPT !.hbw_env = e] : e \in {SetTo({2, 3}), SetTo({0, 1})}}
      \cup {[Base EXCEPT !.bandwidth = [p \in DOMAIN @ |-> IF p[2] \in S THEN 2 ELSE 1]] :
               S \in {{}, {2, 3}}}
      \cup {[Base EXCEPT !.hbw_env = SetTo({1, 2}), !.dist[<<0, 1>>] = 2]}

\* Values of AUTO_HBW_SIZE: 1K, 1K:2K, 5:1M, 1G, 2K:1K.
Limits(low, lowC, high, highC) == [low |-> low, lowC |-> lowC, high |-> high, highC |-> highC]

SizeEnvs == {Null, Limits(1, "K", Null, "B"), Limits(1, "K", 2, "K"), Limits(5, "B", 1, "M"),
             Limits(1, "G", Null, "B"), Limits(2, "K", 1, "K")}

MemTypes == {Null, "HBW", "HBW_INTERLEAVE", "unknown"}

EveryMachine == AllMachines \cup InterfaceMachines
=============================================================================
