----------------------------- MODULE HbwPlacement -----------------------------
(***************************************************************************)
(* The hbw interface on top of the static kinds: the threads of HbwPolicy  *)
(* choose a kind, asking NodeMasks whether MEMKIND_HBW is available, and   *)
(* their allocations map memory of that kind from whatever CPU they run on *)
(* by then; hbw_verify_memory_region looks where the memory is.  On a      *)
(* machine with kinds, the program uses the memkind interface instead.     *)
(***************************************************************************)
EXTENDS NodeMasks

CONSTANTS Thread, PageSize, Null

VARIABLES hbw_available, hbw_policy, once, pagesize_kind, call, accepted, served,
          regions      \* nodes that hold memory which must be high bandwidth memory

Hbw == INSTANCE HbwPolicy

hbwVars == <<hbw_available, hbw_policy, once, pagesize_kind, call, accepted, served, regions>>

HbwInit ==
    /\ Init
    /\ hbw_available = (machine.kinds = {} /\ Choice(machine, <<"hbw", "MULTIPLE">>).err = "SUCCESS")
    /\ Hbw!Init
    /\ regions = {}

\* Steps of the interface that do not reach a kind.
PolicyStep(t) ==
    /\ \/ \E mode \in Hbw!Policy : Hbw!SetPolicy(t, mode)
       \/ \E p \in PageSize : Hbw!Request(t, p)
       \/ Hbw!GetKind(t) \/ Hbw!FixPolicy(t)
       \/ hbw_policy # "PREFERRED" /\ Hbw!ChooseKind(t)
    /\ UNCHANGED <<vars, regions>>

\* hbw_choose_kind with the availability that kind reports.
ChooseBy(t, cpu, kind) ==
    /\ call[t].pc = "choose" /\ hbw_policy = "PREFERRED"
    /\ CheckAvailable(kind, cpu, FALSE)
    /\ pagesize_kind' = [pagesize_kind EXCEPT ![call[t].pagesize] =
                            Hbw!KindFor("PREFERRED", call[t].pagesize, answer'.err = "SUCCESS")]
    /\ call' = [call EXCEPT ![t].pc = "malloc"]
    /\ UNCHANGED <<hbw_policy, once, accepted, served, regions>>

\* A mutant: the kind that would be used is asked, not MEMKIND_HBW.
ChoosePreferredByUse(t, cpu) == ChooseBy(t, cpu, "HBW_PREFERRED")

ChoosePreferred(t, cpu) == ChooseBy(t, cpu, "HBW")

\* An allocation for which the kind maps memory.
MallocOn(t, cpu, kernel) ==
    LET kind == pagesize_kind[call[t].pagesize]
    IN  /\ Hbw!Malloc(t)
        /\ DefaultMmap(kind, cpu, FALSE, kernel)
        /\ regions' = IF answer'.err = "SUCCESS" /\ KindOps[kind].mode \in {"BIND", "INTERLEAVE"}
                      THEN regions \cup answer'.nodes ELSE regions

\* A mutant: only the nearest nodes count as high bandwidth memory.
VerifySlotNearest == <<"hbw", "MULTIPLE">>

\* The mask hbw_verify_memory_region compares with: MEMKIND_HBW_ALL's, of the current CPU.
VerifySlot == <<"hbw", "ALL">>

\* Without a mask the comparison is with an uninitialised one.
Verify(cpu, node) ==
    LET m == GetMbindNodemask(g', VerifySlot, cpu)
    IN  /\ g' = Initialise(VerifySlot, FALSE)
        /\ \E v \in {0, -1} :
             /\ m.err = "SUCCESS" => (v = 0 <=> node \in m.nodes)
             /\ answer' = [Answer("verify", "HBW_ALL", cpu, "SUCCESS")
                              EXCEPT !.value = v, !.nodes = {node}]
        /\ UNCHANGED <<machine, huge, checked, misused, faults, ended, hbwVars>>

HbwCall ==
    /\ machine.kinds = {} /\ answer = NoAnswer /\ UNCHANGED hbw_available
    /\ \/ \E t \in Thread :
            \/ PolicyStep(t)
            \/ \E cpu \in Cpu : ChoosePreferred(t, cpu)
            \/ \E cpu \in Cpu, kernel \in {"ok", "mbind"} : MallocOn(t, cpu, kernel)
       \/ \E cpu \in Cpu, node \in regions : Verify(cpu, node)

HbwNext == HbwCall \/ (Next /\ UNCHANGED hbwVars)

HbwSpec == HbwInit /\ [][HbwNext]_<<vars, hbwVars>>

(* The interface on top of the kinds behaves as HbwPolicy says, for an     *)
(* availability of MEMKIND_HBW that is the same whenever it is asked: the  *)
(* first call of memkind_hbw_get_mbind_nodemask settles it for all.        *)
ImplementsPolicy == Hbw!Spec

(* An allocation through the hbw interface under HBW_POLICY_PREFERRED      *)
(* fails only when the kernel refuses: hbw_choose_kind falls back to       *)
(* ordinary memory where there is no high bandwidth memory.  It asks about *)
(* MEMKIND_HBW however, and MEMKIND_HBW_PREFERRED may still be unusable,   *)
(* when a CPU has several nearest nodes.                                   *)
PreferredServes ==
    (/\ answer.op = "mmap" /\ answer.kernel = "ok"
     /\ \E p \in PageSize : pagesize_kind[p] = answer.kind
     /\ hbw_policy = "PREFERRED" /\ CpuNodesFirst)
        => \/ answer.err = "SUCCESS"
           \/ \E cpu \in Cpu : Cardinality(Nearest(HighBandwidth(cpu), cpu)) > 1

(* hbw_verify_memory_region accepts memory that the hbw interface bound to *)
(* high bandwidth nodes, from whatever CPU it is asked, where all CPUs     *)
(* have the same high bandwidth nodes.                                     *)
VerifyAccepts ==
    (/\ answer.op = "verify" /\ CpuNodesFirst
     /\ \A c, d \in Cpu : HighBandwidth(c) = HighBandwidth(d))
        => answer.value = 0
===============================================================================
