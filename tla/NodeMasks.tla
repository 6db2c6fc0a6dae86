------------------------------ MODULE NodeMasks ------------------------------
(***************************************************************************)
(* Where the static kinds place their memory: how memkind_hbw.c,           *)
(* memkind_dax_kmem.c, memkind_capacity.c, memkind_local.c and             *)
(* memkind_regular.c choose the NUMA nodes of a kind, once, when the kind  *)
(* is first asked for them, and what memkind_check_available,              *)
(* memkind_get_capacity, memkind_create_kind and the mapping of memory     *)
(* make of the choice, up to the finalizers that free it.                  *)
(*                                                                         *)
(* The machine is part of the state and never changes: a record of what    *)
(* libnuma, hwloc, libdaxctl, sysfs and the environment say.  memory has   *)
(* the nodes that exist as its domain; ids may have gaps.  cpus are the    *)
(* CPUs libnuma gives a node, cpuset those hwloc gives it (a node without  *)
(* CPUs of its own has the CPUs of its domain), and order is hwloc's order *)
(* of the nodes.  Allocation failures are the steps with fault = TRUE.     *)
(***************************************************************************)
EXTENDS Integers, FiniteSets, Sequences, FiniteSetsExt

CONSTANTS
    Machines,    \* the machines memkind may find itself on
    MaxFaults,   \* bound on the allocation failures
    MaxCount     \* the largest size_t

VARIABLES
    machine,
    g,           \* the memkind_.._numanode_g that have been initialised
    huge,        \* memkind_hugepages_config
    answer,      \* the last call and what it returned
    checked,     \* kinds for which memkind_check_available returned 0
    misused,     \* masks that were freed twice, or used after they were freed
    faults,
    ended        \* memkind_finalize has run

vars == <<machine, g, huge, answer, checked, misused, faults, ended>>

-----------------------------------------------------------------------------
(* The operations of the static kinds: where the mask comes from, the mode *)
(* of mbind, huge pages, and whether madvise follows.                      *)

Ops(slot, mode) == [slot |-> slot, mode |-> mode, huge |-> FALSE, madvise |-> FALSE]

Huge(ops) == [ops EXCEPT !.huge = TRUE]

HbwOps ==
    [HBW |-> Ops(<<"hbw", "MULTIPLE">>, "BIND"),
     HBW_ALL |-> Ops(<<"hbw", "ALL">>, "BIND"),
     HBW_HUGETLB |-> Huge(Ops(<<"hbw", "MULTIPLE">>, "BIND")),
     HBW_ALL_HUGETLB |-> Huge(Ops(<<"hbw", "ALL">>, "BIND")),
     HBW_PREFERRED |-> Ops(<<"hbw", "SINGLE">>, "PREFERRED"),
     HBW_PREFERRED_HUGETLB |-> Huge(Ops(<<"hbw", "SINGLE">>, "PREFERRED")),
     HBW_INTERLEAVE |-> [Ops(<<"hbw", "ALL">>, "INTERLEAVE") EXCEPT !.madvise = TRUE]]

DaxKmemOps ==
    [DAX_KMEM |-> Ops(<<"dax_kmem", "MULTIPLE">>, "BIND"),
     DAX_KMEM_ALL |-> Ops(<<"dax_kmem", "ALL">>, "BIND"),
     DAX_KMEM_PREFERRED |-> Ops(<<"dax_kmem", "SINGLE">>, "PREFERRED"),
     DAX_KMEM_INTERLEAVE |-> Ops(<<"dax_kmem", "ALL">>, "INTERLEAVE")]

CapacityOps ==
    [HIGHEST_CAPACITY |-> Ops(<<"hi_cap", "MULTIPLE">>, "BIND"),
     HIGHEST_CAPACITY_PREFERRED |-> Ops(<<"hi_cap", "SINGLE">>, "PREFERRED")]

LocalOps ==
    [HIGHEST_CAPACITY_LOCAL |-> Ops(<<"hi_cap_loc", "MULTIPLE">>, "BIND"),
     HIGHEST_CAPACITY_LOCAL_PREFERRED |-> Ops(<<"hi_cap_loc", "SINGLE">>, "PREFERRED"),
     LOWEST_LATENCY_LOCAL |-> Ops(<<"low_lat_loc", "MULTIPLE">>, "BIND"),
     LOWEST_LATENCY_LOCAL_PREFERRED |-> Ops(<<"low_lat_loc", "SINGLE">>, "PREFERRED"),
     HIGHEST_BANDWIDTH_LOCAL |-> Ops(<<"hi_bw_loc", "MULTIPLE">>, "BIND"),
     HIGHEST_BANDWIDTH_LOCAL_PREFERRED |-> Ops(<<"hi_bw_loc", "SINGLE">>, "PREFERRED")]

RegularOps == Ops(<<"regular", "ALL">>, "BIND")

\* numa_all_nodes_ptr belongs to libnuma.
InterleaveOps == [Ops(<<"numa_all_nodes", "ALL">>, "INTERLEAVE") EXCEPT !.madvise = TRUE]

\* MEMKIND_DEFAULT and MEMKIND_HUGETLB have neither mbind nor a node mask.
DefaultOps == Ops(<<"none", "ALL">>, "NONE")

HugetlbOps == Huge(Ops(<<"none", "ALL">>, "NONE"))

Kind == UNION {DOMAIN HbwOps, DOMAIN DaxKmemOps, DOMAIN CapacityOps, DOMAIN LocalOps,
               {"REGULAR", "INTERLEAVE", "DEFAULT", "HUGETLB"}}

KindOps ==
    [k \in Kind |-> CASE k \in DOMAIN HbwOps -> HbwOps[k]
                      [] k \in DOMAIN DaxKmemOps -> DaxKmemOps[k]
                      [] k \in DOMAIN CapacityOps -> CapacityOps[k]
                      [] k \in DOMAIN LocalOps -> LocalOps[k]
                      [] k = "REGULAR" -> RegularOps
                      [] k = "INTERLEAVE" -> InterleaveOps
                      [] k = "DEFAULT" -> DefaultOps
                      [] k = "HUGETLB" -> HugetlbOps]

ASSUME NodeMasksAssumption ==
    \A m \in Machines : m.kinds \subseteq Kind /\ \A n \in DOMAIN m.memory : m.memory[n] \in Nat

-----------------------------------------------------------------------------
(* A machine m, as the libraries report it.                                *)

Nodes(m) == DOMAIN m.memory

MaxNode(m) == CHOOSE n \in Nodes(m) : \A k \in Nodes(m) : k <= n

\* The loops over all node ids.
Ids(m) == [i \in 1 .. MaxNode(m) + 1 |-> i - 1]

Cpus(m) == UNION {m.cpus[n] : n \in Nodes(m)}

Home(m, cpu) == CHOOSE n \in Nodes(m) : cpu \in m.cpus[n]

HasCpus(m, n) == n \in Nodes(m) /\ m.cpus[n] # {}

\* -1 for a node that does not exist or cannot be read.
NodeSize64(m, n) == IF n \in Nodes(m) \ m.unreadable THEN m.memory[n] ELSE -1

-----------------------------------------------------------------------------
(* The choice of nodes on m: [err, mask], where mask[cpu] is the set of    *)
(* nodes for a thread that runs on cpu.                                    *)

\* Body is applied to the elements of seq in their order.
Loop(Body(_, _), start, seq) ==
    MapThenFoldSet(LAMBDA x, acc : Body(acc, x), start, LAMBDA i : seq[i], Max, DOMAIN seq)

Failed(err) == [err |-> err, mask |-> << >>]

Chosen(mask) == [err |-> "SUCCESS", mask |-> mask]

\* VEC current_dest_nodes and min_distance; 9999 is INT_MAX.
NoneYet == [min |-> 9999, nodes |-> {}]

\* A mutant: a node at the same distance replaces the one before.
CloserLast(m, i, variant, acc, d) ==
    IF variant = "ALL" THEN [acc EXCEPT !.nodes = @ \cup {d}]
    ELSE IF m.dist[<<i, d>>] <= acc.min
         THEN [min |-> m.dist[<<i, d>>], nodes |-> {d}]
         ELSE acc

Closer(m, i, variant, acc, d) ==
    IF variant = "ALL" THEN [acc EXCEPT !.nodes = @ \cup {d}]
    ELSE IF m.dist[<<i, d>>] < acc.min
         THEN [min |-> m.dist[<<i, d>>], nodes |-> {d}]
         ELSE IF m.dist[<<i, d>>] = acc.min
              THEN [acc EXCEPT !.nodes = @ \cup {d}]
              ELSE acc

NearestDest(m, i, dest, variant) ==
    Loop(LAMBDA acc, d : IF d \in dest THEN Closer(m, i, variant, acc, d) ELSE acc,
         NoneYet, Ids(m)).nodes

\* A kind of the SINGLE variant has no use for several nearest nodes.
OfNearest(m, near, variant) ==
    IF variant = "SINGLE" /\ \E i \in DOMAIN near : Cardinality(near[i]) > 1
    THEN Failed("RUNTIME")
    ELSE Chosen([cpu \in Cpus(m) |-> near[Home(m, cpu)]])

SetClosestNumanode(m, dest, variant) ==
    IF dest.err # "SUCCESS" THEN Failed(dest.err)
    ELSE OfNearest(m, [i \in {n \in Nodes(m) : HasCpus(m, n)} |->
                          NearestDest(m, i, dest.nodes, variant)], variant)

\* numa_parse_nodestring refuses nodes that do not exist.
EnvNodemask(env) ==
    IF env.valid THEN [err |-> "SUCCESS", nodes |-> env.nodes]
                 ELSE [err |-> "ENVIRON", nodes |-> {}]

LegacyHbwNodes(m) ==
    LET nodes == {n \in Nodes(m) : ~HasCpus(m, n)}
    IN  IF Cardinality(Nodes(m)) \in {2, 4, 8} /\ 2 * Cardinality(nodes) = Cardinality(Nodes(m))
        THEN [err |-> "SUCCESS", nodes |-> nodes]
        ELSE [err |-> "UNAVAILABLE", nodes |-> {}]

HbwNodemask(m) == IF m.hbw_env.set THEN EnvNodemask(m.hbw_env) ELSE LegacyHbwNodes(m)

DaxKmemNodes(m) ==
    IF m.dax = {} THEN [err |-> "UNAVAILABLE", nodes |-> {}]
                  ELSE [err |-> "SUCCESS", nodes |-> m.dax]

DaxKmemNodemask(m) == IF m.dax_env.set THEN EnvNodemask(m.dax_env) ELSE DaxKmemNodes(m)

(***************************************************************************)
(* The nodes hwloc lists one after the other, each an initiator unless its *)
(* CPUs were all seen before; targets[i] are the nodes found for i.  The   *)
(* loop ends with the first error.                                         *)
(***************************************************************************)
CheckTargets(nodes, single) ==
    IF nodes = {} THEN "MEMTYPE_NOT_AVAILABLE"
    ELSE IF single /\ Cardinality(nodes) > 1 THEN "RUNTIME" ELSE "SUCCESS"

OverInitiators(m, targets, single, adds) ==
    Loop(LAMBDA acc, i :
           IF acc.err # "SUCCESS" \/ m.cpuset[i] \subseteq acc.seen THEN acc
           ELSE LET Reached(nodes) ==
                      [err |-> CheckTargets(nodes, single),
                       seen |-> acc.seen \cup m.cpuset[i],
                       mask |-> [cpu \in Cpus(m) |->
                                   IF cpu \in m.cpuset[i]
                                   THEN nodes \cup (IF adds THEN acc.mask[cpu] ELSE {})
                                   ELSE acc.mask[cpu]]]
                IN  Reached(targets[i]),
         [err |-> "SUCCESS", seen |-> {}, mask |-> [cpu \in Cpus(m) |-> {}]],
         m.order)

OfAll(all) == IF all.err = "SUCCESS" THEN Chosen(all.mask) ELSE Failed(all.err)

\* A bandwidth of -1 cannot be read; a threshold of -1 is not a number.
NearestTarget(m, i, variant) ==
    Loop(LAMBDA acc, t : IF m.bandwidth[<<i, t>>] >= m.threshold
                         THEN Closer(m, i, variant, acc, t) ELSE acc,
         NoneYet, m.order).nodes

SetClosestNumanodeMemAttr(m, variant) ==
    IF m.threshold < 0 THEN Failed("ENVIRON")
    ELSE OfAll(OverInitiators(m, [i \in Nodes(m) |-> NearestTarget(m, i, variant)],
                              variant = "SINGLE", TRUE))

\* hwloc_get_local_numanode_objs: the nodes with exactly these CPUs, in order.
LocalNumanodes(m, i) == SelectSeq(m.order, LAMBDA n : m.cpuset[n] = m.cpuset[i])

(***************************************************************************)
(* The running best of one attribute over the local nodes: a better value  *)
(* wins, and of equal values the lower second; val < 0 is a node skipped.  *)
(***************************************************************************)
Best(m, i, val, second) ==
    Loop(LAMBDA acc, n :
           IF val[n] < 0 THEN acc
           ELSE IF acc.nodes = {} \/ val[n] > acc.val
                   \/ (val[n] = acc.val /\ second[n] < acc.second)
                THEN [nodes |-> {n}, val |-> val[n], second |-> second[n]]
                ELSE acc,
         [nodes |-> {}, val |-> 0, second |-> 0], LocalNumanodes(m, i)).nodes

\* The farther of two nodes of one size.
BestCapacity(m, i) ==
    Best(m, i, [n \in Nodes(m) |-> IF m.memory[n] = 0 THEN -1 ELSE m.memory[n]],
               [n \in Nodes(m) |-> -m.dist[<<i, n>>]])

BestBandwidth(m, i) ==
    Best(m, i, [n \in Nodes(m) |-> m.bandwidth[<<i, n>>]], m.memory)

\* 100 stands for INT_MAX, a latency no node reports.
BestLatency(m, i) ==
    Best(m, i, [n \in Nodes(m) |-> IF m.latency[<<i, n>>] < 0 THEN -1
                                   ELSE 100 - m.latency[<<i, n>>]],
               m.memory)

PerCpuLocalNodesMask(m, best) == OfAll(OverInitiators(m, best, FALSE, FALSE))

\* best starts at 0, and a node of that size counts.
HiCapFind(m, variant) ==
    LET Larger(acc, n) == IF NodeSize64(m, n) > acc.best
                          THEN [best |-> NodeSize64(m, n), nodes |-> {n}]
                          ELSE IF NodeSize64(m, n) = acc.best
                               THEN [acc EXCEPT !.nodes = @ \cup {n}] ELSE acc
        OfLargest(nodes) == IF nodes = {} \/ (variant = "SINGLE" /\ Cardinality(nodes) > 1)
                            THEN Failed("MEMTYPE_NOT_AVAILABLE")
                            ELSE Chosen([cpu \in Cpus(m) |-> nodes])
    IN  OfLargest(Loop(Larger, [best |-> 0, nodes |-> {}], Ids(m)).nodes)

RegularNodes(m) == Chosen([cpu \in Cpus(m) |-> {n \in Nodes(m) : HasCpus(m, n)}])

IsHmatSupported(m) == ~m.hbw_env.set /\ ~m.legacy

HbwNumanodeInit(m, variant) ==
    IF IsHmatSupported(m) THEN SetClosestNumanodeMemAttr(m, variant)
                          ELSE SetClosestNumanode(m, HbwNodemask(m), variant)

DaxKmemNumanodeInit(m, variant) == SetClosestNumanode(m, DaxKmemNodemask(m), variant)

LocNumanodesInit(m, family) ==
    CASE family = "hi_cap_loc" -> PerCpuLocalNodesMask(m, [i \in Nodes(m) |-> BestCapacity(m, i)])
      [] family = "low_lat_loc" -> PerCpuLocalNodesMask(m, [i \in Nodes(m) |-> BestLatency(m, i)])
      [] family = "hi_bw_loc" -> PerCpuLocalNodesMask(m, [i \in Nodes(m) |-> BestBandwidth(m, i)])

Choice(m, slot) ==
    CASE slot[1] = "hbw" -> HbwNumanodeInit(m, slot[2])
      [] slot[1] = "dax_kmem" -> DaxKmemNumanodeInit(m, slot[2])
      [] slot[1] = "hi_cap" -> HiCapFind(m, slot[2])
      [] slot[1] = "regular" -> RegularNodes(m)
      [] OTHER -> LocNumanodesInit(m, slot[1])

Node == Nodes(machine)

Cpu == Cpus(machine)

-----------------------------------------------------------------------------
(* The masks in memory.  A slot is initialised once, by pthread_once.  ptr *)
(* is where its pointer points: an initialisation that fails frees the     *)
(* masks it made and leaves the pointer.                                   *)

Stored(slot, fault, c) ==
    [err |-> c.err, mask |-> c.mask,
     ptr |-> IF c.err = "SUCCESS" THEN "live"
             ELSE IF slot[1] \in {"hbw", "dax_kmem"} \/ (slot[1] = "hi_cap" /\ fault) THEN "null"
             ELSE "freed"]

Initialise(slot, fault) ==
    IF slot \in DOMAIN g \/ slot[1] = "none" THEN g
    ELSE [s \in DOMAIN g \cup {slot} |->
            IF s \in DOMAIN g THEN g[s]
            ELSE Stored(slot, fault, IF fault THEN Failed("MALLOC") ELSE Choice(machine, slot))]

\* get_mbind_nodemask of a slot, for a thread on cpu.
GetMbindNodemask(masks, slot, cpu) ==
    IF slot \notin DOMAIN masks THEN [err |-> "UNAVAILABLE", nodes |-> {}]
    ELSE IF masks[slot].err # "SUCCESS" THEN [err |-> masks[slot].err, nodes |-> {}]
    ELSE [err |-> "SUCCESS", nodes |-> masks[slot].mask[cpu]]

\* A copy is made of a mask that has been freed.
Misuse(masks, slot) ==
    IF slot \in DOMAIN masks /\ masks[slot].err = "SUCCESS" /\ masks[slot].ptr = "freed"
    THEN {slot} ELSE {}

\* memkind_regular_get_mbind_nodemask does not initialise its mask.
InitialiseToGet(slot, fault) == IF slot[1] = "regular" THEN g ELSE Initialise(slot, fault)

(***************************************************************************)
(* Huge pages.  sysfs is read once, one directory for each size of page.   *)
(* A file that is missing counts as 0.  Of an empty one fscanf returns     *)
(* EOF, which is not 0 either, and the count is a variable that was never  *)
(* set: any number.  When memory runs out after the first directory, the   *)
(* loop that frees what was read frees an element that was never set: wild *)
(* unless it happens to be NULL.                                           *)
(***************************************************************************)
MissingFile == -1
EmptyFile == -2

SysfsEntryValue(file) == CASE file = MissingFile -> {0}
                           [] file = EmptyFile -> 0 .. MaxCount
                           [] OTHER -> {file}

NoConfig(err) == [err |-> err, nr |-> [n \in Node |-> 0], overcommit |-> 0, wild |-> FALSE]

HugepagesConfigInit(fault) ==
    IF huge.err # "unread" THEN {huge}
    ELSE IF ~machine.hugefs THEN {NoConfig("HUGETLB")}
    ELSE IF fault THEN {[NoConfig("MALLOC") EXCEPT !.wild = w] :
                           w \in {FALSE, Cardinality(machine.sizes) > 1}}
    ELSE {[NoConfig("SUCCESS") EXCEPT !.nr = nr, !.overcommit = o] :
             nr \in {f \in [Node -> 0 .. MaxCount] :
                       \A n \in Node : f[n] \in SysfsEntryValue(machine.pages[n])},
             o \in SysfsEntryValue(machine.overcommit)}

\* A sum of size_t.
NrHugepages(config, nodes) ==
    MapThenSumSet(LAMBDA n : config.nr[n], nodes \cap Node) % (MaxCount + 1)

HugetlbCheckAvailable(config, nodes) ==
    IF config.err # "SUCCESS" THEN config.err
    ELSE IF "2MB" \notin machine.sizes THEN "HUGETLB"
    ELSE IF config.overcommit = 0 /\ NrHugepages(config, nodes) = 0 THEN "HUGETLB"
    ELSE "SUCCESS"

-----------------------------------------------------------------------------
(* The calls.                                                              *)

NoAnswer == [op |-> "none", kind |-> "DEFAULT", cpu |-> 0, err |-> "SUCCESS",
             nodes |-> {}, value |-> 0, kernel |-> "ok"]

Answer(op, kind, cpu, err) ==
    [NoAnswer EXCEPT !.op = op, !.kind = kind, !.cpu = cpu, !.err = err]

MayFault(fault, k) ==
    /\ fault => /\ faults < MaxFaults
                /\ \/ /\ KindOps[k].slot[1] \notin {"none", "regular"}
                      /\ KindOps[k].slot \notin DOMAIN g
                   \/ KindOps[k].huge /\ huge.err = "unread"
    /\ faults' = IF fault THEN faults + 1 ELSE faults

\* A mutant: the error of the mask is lost to that of the huge pages.
AvailabilityOverwritten(k, cpu, masks, config) ==
    LET ops == KindOps[k]
        m == IF ops.slot[1] = "none" THEN [err |-> "SUCCESS", nodes |-> Node]
             ELSE GetMbindNodemask(masks, ops.slot, cpu)
    IN  IF ops.huge THEN HugetlbCheckAvailable(config, m.nodes) ELSE m.err

\* What check_available of a kind answers; masks and config are the state after it.
Availability(k, cpu, masks, config) ==
    LET ops == KindOps[k]
        m == IF ops.slot[1] = "none" THEN [err |-> "SUCCESS", nodes |-> Node]
             ELSE GetMbindNodemask(masks, ops.slot, cpu)
    IN  IF m.err # "SUCCESS" \/ ~ops.huge THEN m.err
        ELSE HugetlbCheckAvailable(config, m.nodes)

\* The huge pages are looked at once the mask is known to be there.
ConfigAfter(k, masks, fault) ==
    LET ops == KindOps[k]
    IN  IF ops.huge /\ (ops.slot[1] = "none" \/ masks[ops.slot].err = "SUCCESS")
        THEN HugepagesConfigInit(fault) ELSE {huge}

CheckAvailable(k, cpu, fault) ==
    /\ MayFault(fault, k)
    /\ g' = Initialise(KindOps[k].slot, fault)
    /\ huge' \in ConfigAfter(k, g', fault)
    /\ answer' = Answer("check", k, cpu, Availability(k, cpu, g', huge'))
    /\ checked' = IF answer'.err = "SUCCESS" THEN checked \cup {k} ELSE checked
    /\ UNCHANGED <<machine, misused, ended>>

(***************************************************************************)
(* An arena of the kind maps memory for a thread on cpu.  memkind_malloc   *)
(* ran the kind's init_once first.  kernel is the system call that fails.  *)
(***************************************************************************)
Mapped(ops, kernel, m) ==
    IF kernel = "mmap" THEN "MMAP"
    ELSE IF ops.mode = "NONE" THEN "SUCCESS"
    ELSE IF m.err # "SUCCESS" THEN m.err
    ELSE IF kernel = "mbind" \/ (m.nodes = {} /\ ops.mode # "PREFERRED") THEN "MBIND"
    ELSE IF kernel = "madvise" /\ ops.madvise THEN "MADVISE"
    ELSE "SUCCESS"

DefaultMmap(k, cpu, fault, kernel) ==
    LET ops == KindOps[k]
        m == GetMbindNodemask(g', ops.slot, cpu)
    IN  /\ MayFault(fault, k)
        /\ g' = IF kernel = "mmap" /\ ops.slot[1] # "regular" THEN g ELSE Initialise(ops.slot, fault)
        /\ fault => g' # g
        /\ answer' = [Answer("mmap", k, cpu, Mapped(ops, kernel, m)) EXCEPT !.kernel = kernel,
                         !.nodes = IF ops.mode = "NONE" THEN Node ELSE m.nodes]
        /\ misused' = misused \cup Misuse(g', ops.slot)
        /\ UNCHANGED <<machine, huge, checked, ended>>

\* A mutant: the error of numa_node_size64 is added to the sum.
CapacityUnchecked(nodes) == MapThenSumSet(LAMBDA n : NodeSize64(machine, n), nodes)

Unread(nodes) == \E n \in nodes : NodeSize64(machine, n) = -1

CapacityOf(nodes) ==
    IF Unread(nodes) THEN -1
    ELSE MapThenSumSet(LAMBDA n : NodeSize64(machine, n), nodes)

\* MEMKIND_DEFAULT uses numa_all_nodes_ptr itself, and frees it on an error.
FreedByCapacity(k, nodes) ==
    IF k = "DEFAULT" /\ Unread(nodes) THEN {<<"numa_all_nodes", "ALL">>} ELSE {}

GetCapacity(k, cpu, fault) ==
    LET ops == KindOps[k]
        all == <<"numa_all_nodes", "ALL">>
        slot == IF k = "DEFAULT" THEN all ELSE ops.slot
        refused == ops.mode = "PREFERRED" \/ k \in {"HBW_HUGETLB", "HBW_ALL_HUGETLB"}
        value(m) == IF refused THEN -1
                    ELSE IF k = "HUGETLB"
                         THEN IF huge'.err # "SUCCESS" \/ "2MB" \notin machine.sizes THEN -1
                              ELSE NrHugepages(huge', Node) + huge'.overcommit
                    ELSE IF m.err # "SUCCESS" THEN -1
                    ELSE CapacityOf(m.nodes)
    IN  /\ MayFault(fault, k)
        /\ fault => ~refused
        /\ huge' \in IF k = "HUGETLB" THEN HugepagesConfigInit(fault) ELSE {huge}
        /\ \E masks \in {IF refused THEN g ELSE InitialiseToGet(slot, fault)} :
             /\ answer' = [Answer("capacity", k, cpu, "SUCCESS")
                              EXCEPT !.value = value(GetMbindNodemask(masks, slot, cpu))]
             /\ g' = [s \in DOMAIN masks |->
                         IF s \in FreedByCapacity(k, GetMbindNodemask(masks, slot, cpu).nodes)
                         THEN [masks[s] EXCEPT !.ptr = "freed"] ELSE masks[s]]
             /\ misused' = misused \cup (IF refused THEN {} ELSE Misuse(masks, slot))
        /\ UNCHANGED <<machine, checked, ended>>

Arg(kind, policy, flags, memtype) ==
    [kind |-> kind, policy |-> policy, flags |-> flags, memtype |-> memtype]

SupportedArgs ==
    {Arg("HBW", "BIND_LOCAL", "none", {"HIGH_BANDWIDTH"}),
     Arg("HBW_HUGETLB", "BIND_LOCAL", "2MB", {"HIGH_BANDWIDTH"}),
     Arg("HBW_ALL", "BIND_ALL", "none", {"HIGH_BANDWIDTH"}),
     Arg("HBW_ALL_HUGETLB", "BIND_ALL", "2MB", {"HIGH_BANDWIDTH"}),
     Arg("HBW_PREFERRED", "PREFERRED_LOCAL", "none", {"HIGH_BANDWIDTH"}),
     Arg("HBW_PREFERRED_HUGETLB", "PREFERRED_LOCAL", "2MB", {"HIGH_BANDWIDTH"}),
     Arg("HBW_INTERLEAVE", "INTERLEAVE_ALL", "none", {"HIGH_BANDWIDTH"}),
     Arg("DEFAULT", "PREFERRED_LOCAL", "none", {"DEFAULT"}),
     Arg("HUGETLB", "PREFERRED_LOCAL", "2MB", {"DEFAULT"}),
     Arg("INTERLEAVE", "INTERLEAVE_ALL", "none", {"HIGH_BANDWIDTH", "DEFAULT"})}

\* memkind_create_kind with arguments of the table; others return MEMKIND_ERROR_INVALID.
CreateKind(a, cpu, fault) ==
    LET answered(available) ==
          Answer("create", IF available THEN a.kind ELSE "DEFAULT", cpu,
                 IF available \/ a.policy = "PREFERRED_LOCAL" THEN "SUCCESS"
                 ELSE "MEMTYPE_NOT_AVAILABLE")
    IN  /\ MayFault(fault, a.kind)
        /\ g' = Initialise(KindOps[a.kind].slot, fault)
        /\ huge' \in ConfigAfter(a.kind, g', fault)
        /\ \E available \in {Availability(a.kind, cpu, g', huge') = "SUCCESS"} :
             /\ answer' = answered(available)
             /\ checked' = IF available THEN checked \cup {a.kind} ELSE checked
        /\ UNCHANGED <<machine, misused, ended>>

\* A mutant: the masks of a local kind are freed whatever its initialisation returned.
FinalizedAnyway ==
    {s \in DOMAIN g : s[1] \in {"hi_cap", "regular", "hi_cap_loc", "low_lat_loc", "hi_bw_loc"}
                      /\ g[s].ptr # "null"}

\* The masks the finalizers of memkind_capacity.c, _local.c and _regular.c free.
Finalized ==
    {s \in DOMAIN g : \/ s[1] \in {"hi_cap", "regular"} /\ g[s].ptr # "null"
                      \/ s[1] \in {"hi_cap_loc", "low_lat_loc", "hi_bw_loc"} /\ g[s].err = "SUCCESS"}

\* memkind_finalize, when the library is unloaded.
Finalize ==
    /\ ~ended /\ answer = NoAnswer
    /\ ended' = TRUE
    /\ g' = [s \in DOMAIN g |-> IF s \in Finalized THEN [g[s] EXCEPT !.ptr = "freed"] ELSE g[s]]
    /\ misused' = misused \cup {s \in Finalized : g[s].ptr = "freed"}
    /\ UNCHANGED <<machine, huge, answer, checked, faults>>

-----------------------------------------------------------------------------
\* numa_all_nodes_ptr is there from the start.
Init ==
    /\ machine \in Machines
    /\ g = [s \in {<<"numa_all_nodes", "ALL">>} |->
              [err |-> "SUCCESS", mask |-> [cpu \in Cpu |-> Node], ptr |-> "live"]]
    /\ huge = NoConfig("unread")
    /\ answer = NoAnswer
    /\ checked = {} /\ misused = {} /\ faults = 0 /\ ended = FALSE

\* The kinds of machine.kinds are the ones this program uses.
Call ==
    /\ ~ended /\ answer = NoAnswer
    /\ \E cpu \in Cpu, fault \in BOOLEAN :
         \/ \E k \in machine.kinds : CheckAvailable(k, cpu, fault)
         \/ \E k \in machine.kinds, kernel \in {"ok", "mmap", "mbind", "madvise"} :
              DefaultMmap(k, cpu, fault, kernel)
         \/ \E k \in machine.kinds : GetCapacity(k, cpu, fault)
         \/ \E a \in SupportedArgs : a.kind \in machine.kinds /\ CreateKind(a, cpu, fault)

\* The caller has its answer.
Return ==
    /\ answer # NoAnswer
    /\ answer' = NoAnswer
    /\ UNCHANGED <<machine, g, huge, checked, misused, faults, ended>>

Next == Call \/ Return \/ Finalize

Spec == Init /\ [][Next]_vars

-----------------------------------------------------------------------------
(* What doc/memkind.3.md says of the kinds, as sets of nodes.              *)

Nearest(S, cpu) ==
    LET h == Home(machine, cpu)
    IN  {n \in S : \A m \in S : machine.dist[<<h, n>>] <= machine.dist[<<h, m>>]}

OneOf(S) == IF Cardinality(S) = 1 THEN {S} ELSE {}

Some(S) == IF S = {} THEN {} ELSE {S}

Variant(v, S, cpu) == CASE v = "ALL" -> Some(S)
                        [] v = "MULTIPLE" -> Some(Nearest(S, cpu))
                        [] v = "SINGLE" -> OneOf(Nearest(S, cpu))

HighBandwidth(cpu) ==
    IF machine.hbw_env.set THEN machine.hbw_env.nodes
    ELSE IF machine.legacy THEN {n \in Node : machine.cpus[n] = {}}
    ELSE {n \in Node : machine.threshold >= 0
                       /\ machine.bandwidth[<<Home(machine, cpu), n>>] >= machine.threshold}

DaxKmem == IF machine.dax_env.set THEN machine.dax_env.nodes ELSE machine.dax

\* The nodes of cpu's own domain that no other one precedes.
LocalBest(cpu, Before(_, _), readable(_)) ==
    LET local == {n \in Node : machine.cpuset[n] = machine.cpuset[Home(machine, cpu)] /\ readable(n)}
    IN  {{n} : n \in {x \in local : ~\E m \in local : Before(m, x)}}

\* Of two local nodes of the same capacity the manual takes the one with the worse
\* latency attribute; the code, and this definition, the one at the larger distance.
Documented(k, cpu) ==
    LET slot == KindOps[k].slot
        h == Home(machine, cpu)
        mem == machine.memory
        bw(n) == machine.bandwidth[<<h, n>>]
        lat(n) == machine.latency[<<h, n>>]
    IN  CASE slot[1] = "hbw" -> Variant(slot[2], HighBandwidth(cpu), cpu)
          [] slot[1] = "dax_kmem" -> Variant(slot[2], DaxKmem, cpu)
          [] slot[1] = "hi_cap" ->
               LET sized == Node \ machine.unreadable
                   most == {n \in sized : \A m \in sized : mem[m] <= mem[n]}
               IN  IF slot[2] = "SINGLE" THEN OneOf(most) ELSE Some(most)
          [] slot[1] = "hi_cap_loc" ->
               LocalBest(cpu, LAMBDA m, n : \/ mem[m] > mem[n]
                                            \/ mem[m] = mem[n]
                                               /\ machine.dist[<<h, m>>] > machine.dist[<<h, n>>],
                         LAMBDA n : mem[n] > 0)
          [] slot[1] = "low_lat_loc" ->
               LocalBest(cpu, LAMBDA m, n : \/ lat(m) < lat(n)
                                            \/ lat(m) = lat(n) /\ mem[m] < mem[n],
                         LAMBDA n : lat(n) >= 0)
          [] slot[1] = "hi_bw_loc" ->
               LocalBest(cpu, LAMBDA m, n : \/ bw(m) > bw(n)
                                            \/ bw(m) = bw(n) /\ mem[m] < mem[n],
                         LAMBDA n : bw(n) >= 0)
          [] slot[1] = "regular" -> {{n \in Node : machine.cpus[n] # {}}}
          [] OTHER -> {Node}

\* hwloc lists a CPU's own node before the other nodes of its domain.
CpuNodesFirst ==
    \A cpu \in Cpu :
        SelectSeq(machine.order, LAMBDA n : cpu \in machine.cpuset[n])[1] = Home(machine, cpu)

-----------------------------------------------------------------------------
(* Memory that a kind maps is on the nodes that doc/memkind.3.md gives for *)
(* the kind and the CPU of the calling thread: the nearest nodes, all of   *)
(* them, or the only nearest one, of the kind's memory type; the nodes of  *)
(* the highest capacity; or the best node of the CPU's own domain.  The    *)
(* loops of set_closest_numanode, set_closest_numanode_mem_attr,           *)
(* get_per_cpu_local_nodes_mask and memkind_hi_cap_find compute them,      *)
(* where hwloc lists the node of a CPU before the nodes without CPUs.      *)
(* And a kind is refused only for a reason the documentation gives: without*)
(* an allocation failure, memkind_check_available fails for a kind without *)
(* huge pages only if for some CPU no set of nodes fits the kind or the    *)
(* environment names no valid nodes.  (On the processors with built-in     *)
(* MCDRAM the code also insists on its own count of nodes.)                *)
PlacedAsDocumented ==
    CpuNodesFirst =>
      /\ answer.op = "mmap" /\ answer.err = "SUCCESS"
           => answer.nodes \in Documented(answer.kind, answer.cpu)
      /\ (/\ answer.op = "check" /\ answer.err # "SUCCESS" /\ faults = 0
          /\ ~KindOps[answer.kind].huge /\ ~machine.legacy)
           => \/ \E cpu \in Cpu : Documented(answer.kind, cpu) = {}
              \/ machine.hbw_env.set /\ ~machine.hbw_env.valid
              \/ machine.dax_env.set /\ ~machine.dax_env.valid

(* Once memkind_check_available or memkind_create_kind found a kind        *)
(* available, mapping memory of it fails only when the kernel refuses one  *)
(* of the system calls: the two use the same masks, on whatever CPU the    *)
(* thread runs by then.  And a huge page kind is found available only if   *)
(* there is a huge page, in the overcommit limit or on a node that the kind*)
(* would bind to from the CPU that asked, whatever was read for another    *)
(* kind or CPU before.  A file that is missing adds nothing; an empty one, *)
(* for which the code counts whatever is on the stack, is excepted.        *)
AvailabilityHolds ==
    /\ answer.op = "mmap" /\ answer.kind \in checked /\ answer.kernel = "ok"
         => answer.err = "SUCCESS"
    /\ answer.op = "check" /\ answer.err = "SUCCESS" /\ KindOps[answer.kind].huge
         => LET nodes == IF answer.kind = "HUGETLB" THEN Node
                         ELSE GetMbindNodemask(g, KindOps[answer.kind].slot, answer.cpu).nodes
                files == {machine.overcommit} \cup {machine.pages[n] : n \in nodes}
            IN  \E file \in files : file > 0 \/ file = EmptyFile

(* memkind_get_capacity returns the memory of the nodes documented for the *)
(* kind and the CPU, whatever was called before it, and -1 only where the  *)
(* kind cannot be placed or a node cannot be read.  MEMKIND_REGULAR, whose *)
(* mask only its first use makes, may answer -1 before that.               *)
CapacityAsDocumented ==
    LET doc == Documented(answer.kind, answer.cpu)
        ops == KindOps[answer.kind]
        regular == answer.kind = "REGULAR" /\ ops.slot \notin DOMAIN g
    IN  (/\ answer.op = "capacity" /\ CpuNodesFirst /\ ~machine.legacy
         /\ ops.mode # "PREFERRED" /\ ~ops.huge)
          => IF answer.value # -1
             THEN \E S \in doc : /\ S \cap machine.unreadable = {}
                                 /\ answer.value = MapThenSumSet(LAMBDA n : machine.memory[n], S)
             ELSE \/ faults > 0 \/ regular
                  \/ \E cpu \in Cpu : Documented(answer.kind, cpu) = {}
                  \/ \E S \in doc : S \cap machine.unreadable # {}
                  \/ machine.hbw_env.set /\ ~machine.hbw_env.valid
                  \/ machine.dax_env.set /\ ~machine.dax_env.valid

(* No node mask is used after it was freed and none is freed twice, at the *)
(* end of the process included, with two exceptions in the code: a mask    *)
(* of memkind_hi_cap_find that failed is freed there and, its pointer kept,*)
(* again by the finalizer; and memkind_get_capacity(MEMKIND_DEFAULT) frees *)
(* libnuma's own mask when a node cannot be read.                          *)
MasksLive ==
    misused \subseteq {s \in DOMAIN g : \/ s[1] = "hi_cap" /\ g[s].err # "SUCCESS"
                                        \/ s[1] = "numa_all_nodes" /\ machine.unreadable # {}}
=============================================================================
