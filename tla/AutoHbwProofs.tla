----------------------------- MODULE AutoHbwProofs -----------------------------
(***************************************************************************)
(* Proofs about the hbw interface and libautohbw, for any machines, any    *)
(* number of threads and any sizes:                                        *)
(*   - the policy of hbwmalloc.c is settled once and every allocation      *)
(*     follows it (HbwPolicy);                                             *)
(*   - the interface on top of the static kinds implements HbwPolicy;      *)
(*   - the node masks are neither used after they were freed nor freed     *)
(*     twice, but for two errors;                                          *)
(*   - malloc of autohbw.c respects the window of AUTO_HBW_SIZE.           *)
(* What the loops of NodeMasks compute for a machine is left alone: Choice *)
(* is a function of the machine, and the machine does not change.          *)
(***************************************************************************)
EXTENDS AutoHbw, TLAPS

\* Zenon is the default prover; a step it does not find names SMT.
USE ZenonT(30)

-----------------------------------------------------------------------------
(* The policy, as a specification of its own.                              *)

PolicyTypeInv ==
    /\ hbw_policy \in Hbw!Policy
    /\ once \in BOOLEAN
    /\ pagesize_kind = [p \in PageSize |-> pagesize_kind[p]]
    /\ call \in [Thread -> [pc : {"idle", "get_kind", "fix_policy", "choose", "malloc"},
                            pagesize : PageSize \cup {"4KB"}, mode : Hbw!Policy, fixed : BOOLEAN]]
    /\ \A t \in Thread : call[t].pc # "idle" => call[t].pagesize \in PageSize

Right(p) == Hbw!KindFor(hbw_policy, p, hbw_available)

\* Nothing is recorded for a page size before the policy is fixed.
KindsInv == \A p \in PageSize : pagesize_kind[p] = Null \/ (once /\ pagesize_kind[p] = Right(p))

\* A call past hbw_choose_kind's first statement finds the policy fixed.
CallInv(t) ==
    /\ call[t].pc \in {"choose", "malloc"} => once
    /\ call[t].pc = "malloc" => pagesize_kind[call[t].pagesize] = Right(call[t].pagesize)
    /\ call[t].fixed /\ call[t].pc # "idle" =>
          once /\ (call[t].pagesize = "2MB" => hbw_policy # "INTERLEAVE")

ServedInv ==
    \A s \in served : /\ once
                      /\ s.kind = Right(s.pagesize)
                      /\ s.fixed /\ s.pagesize = "2MB" => hbw_policy # "INTERLEAVE"

AcceptedInv == \A mode \in accepted : once /\ hbw_policy = mode

PolicyInv ==
    /\ PolicyTypeInv
    /\ KindsInv
    /\ \A t \in Thread : CallInv(t)
    /\ ServedInv
    /\ AcceptedInv

\* The invariant holds before the first call.
LEMMA PolicyInit == Hbw!Init => PolicyInv
<1>. SUFFICES ASSUME Hbw!Init PROVE PolicyInv
  OBVIOUS
<1>1. PolicyTypeInv
  BY DEF Hbw!Init, PolicyTypeInv, Hbw!Idle, Hbw!Policy
<1>2. KindsInv
  BY DEF Hbw!Init, KindsInv
<1>3. \A t \in Thread : CallInv(t)
  BY DEF Hbw!Init, CallInv, Hbw!Idle
<1>4. ServedInv /\ AcceptedInv
  BY DEF Hbw!Init, ServedInv, AcceptedInv
<1>. QED
  BY <1>1, <1>2, <1>3, <1>4 DEF PolicyInv

\* hbw_policy_once_g makes a policy that is fixed final.
LEMMA OnceSettles ==
    ASSUME NEW mode \in Hbw!Policy, Hbw!Once(mode), PolicyTypeInv
    PROVE  /\ hbw_policy' \in Hbw!Policy /\ once'
           /\ once => hbw_policy' = hbw_policy
BY DEF Hbw!Once, PolicyTypeInv

\* A step that leaves hbw_available alone and a fixed policy as it was keeps what was recorded.
LEMMA RightStays ==
    ASSUME once => hbw_policy' = hbw_policy, hbw_available' = hbw_available, NEW p, once
    PROVE  Right(p)' = Right(p)
<1>1. hbw_policy' = hbw_policy
  OBVIOUS
<1>. QED
  BY <1>1 DEF Right, Hbw!KindFor

\* hbw_set_policy, whichever way it returns.
LEMMA SetPolicyKeeps ==
    ASSUME PolicyInv, NEW t \in Thread, NEW mode \in Hbw!Policy, Hbw!SetPolicy(t, mode),
           hbw_available' = hbw_available
    PROVE  PolicyInv'
<1>1. /\ hbw_policy' \in Hbw!Policy /\ once'
      /\ once => hbw_policy' = hbw_policy
  BY OnceSettles DEF Hbw!SetPolicy, PolicyInv
<1>2. \A p : once => Right(p)' = Right(p)
  BY <1>1, RightStays
<1>3. UNCHANGED <<pagesize_kind, call, served>>
  BY DEF Hbw!SetPolicy
<1>4. PolicyTypeInv'
  BY <1>1, <1>3 DEF PolicyInv, PolicyTypeInv
<1>5. KindsInv'
  BY <1>1, <1>2, <1>3 DEF PolicyInv, KindsInv
<1>6. ASSUME NEW u \in Thread PROVE CallInv(u)'
  BY <1>1, <1>2, <1>3 DEF PolicyInv, CallInv
<1>7. ServedInv'
  BY <1>1, <1>2, <1>3 DEF PolicyInv, ServedInv
<1>8. AcceptedInv'
  BY <1>1, SMT DEF PolicyInv, AcceptedInv, Hbw!SetPolicy
<1>. QED
  BY <1>4, <1>5, <1>6, <1>7, <1>8 DEF PolicyInv

\* An allocation begins; 2 MB pages are refused under INTERLEAVE.
LEMMA RequestKeeps ==
    ASSUME PolicyInv, NEW t \in Thread, NEW p \in PageSize, Hbw!Request(t, p),
           hbw_available' = hbw_available
    PROVE  PolicyInv'
<1>1. UNCHANGED <<hbw_policy, once, pagesize_kind, accepted, served>>
  BY DEF Hbw!Request
<1>2. PolicyTypeInv'
  <2>1. /\ once \in BOOLEAN
        /\ call \in [Thread -> [pc : {"idle", "get_kind", "fix_policy", "choose", "malloc"},
                               pagesize : PageSize \cup {"4KB"}, mode : Hbw!Policy, fixed : BOOLEAN]]
    BY DEF PolicyInv, PolicyTypeInv
  <2>2. call' = [call EXCEPT ![t] = [@ EXCEPT !.pc = "get_kind", !.pagesize = p, !.fixed = once]]
    BY <2>1 DEF Hbw!Request
  <2>3. [call[t] EXCEPT !.pc = "get_kind", !.pagesize = p, !.fixed = once]
          \in [pc : {"idle", "get_kind", "fix_policy", "choose", "malloc"},
              pagesize : PageSize \cup {"4KB"}, mode : Hbw!Policy, fixed : BOOLEAN]
    BY <2>1
  <2>. QED
    BY <1>1, <2>1, <2>2, <2>3 DEF PolicyInv, PolicyTypeInv
<1>3. \A q : Right(q)' = Right(q)
  BY <1>1 DEF Right, Hbw!KindFor
<1>4. KindsInv' /\ ServedInv' /\ AcceptedInv'
  BY <1>1, <1>3 DEF PolicyInv, KindsInv, ServedInv, AcceptedInv
<1>5. ASSUME NEW u \in Thread PROVE CallInv(u)'
  <2>1. CASE u = t
    BY <1>1, <2>1, SMT DEF PolicyInv, PolicyTypeInv, CallInv, Hbw!Request
  <2>2. CASE u # t
    BY <1>1, <1>3, <2>2, SMT DEF PolicyInv, PolicyTypeInv, CallInv, Hbw!Request
  <2>. QED
    BY <2>1, <2>2
<1>. QED
  BY <1>2, <1>4, <1>5 DEF PolicyInv

\* hbw_get_kind looks for a kind of its page size.
LEMMA GetKindKeeps ==
    ASSUME PolicyInv, NEW t \in Thread, Hbw!GetKind(t), hbw_available' = hbw_available
    PROVE  PolicyInv'
<1>1. UNCHANGED <<hbw_policy, once, pagesize_kind, accepted, served>>
  BY DEF Hbw!GetKind
<1>2. PolicyTypeInv'
  <2>0. call[t].pc = "get_kind"
    BY DEF Hbw!GetKind
  <2>1. CASE call' = [call EXCEPT ![t].pc = "malloc"]
    BY <1>1, <2>0, <2>1 DEF PolicyInv, PolicyTypeInv
  <2>2. CASE call' = [call EXCEPT ![t].pc = "fix_policy", ![t].mode = hbw_policy]
    <3>1. hbw_policy \in Hbw!Policy /\ call[t].pagesize \in PageSize
      BY <2>0 DEF PolicyInv, PolicyTypeInv
    <3>2. call' \in [Thread -> [pc : {"idle", "get_kind", "fix_policy", "choose", "malloc"},
                      pagesize : PageSize \cup {"4KB"}, mode : Hbw!Policy, fixed : BOOLEAN]]
      <4>1. call \in [Thread -> [pc : {"idle", "get_kind", "fix_policy", "choose", "malloc"},
                       pagesize : PageSize \cup {"4KB"}, mode : Hbw!Policy, fixed : BOOLEAN]]
        BY DEF PolicyInv, PolicyTypeInv
      <4>2. call' = [call EXCEPT ![t] = [call[t] EXCEPT !.pc = "fix_policy", !.mode = hbw_policy]]
        BY <2>2, <4>1
      <4>3. [call[t] EXCEPT !.pc = "fix_policy", !.mode = hbw_policy]
              \in [pc : {"idle", "get_kind", "fix_policy", "choose", "malloc"},
                  pagesize : PageSize \cup {"4KB"}, mode : Hbw!Policy, fixed : BOOLEAN]
        BY <3>1, <4>1
      <4>. QED
        BY <4>1, <4>2, <4>3
    <3>3. \A u \in Thread : call'[u].pc # "idle" => call'[u].pagesize \in PageSize
      BY <2>2, <3>1, SMT DEF PolicyInv, PolicyTypeInv
    <3>. QED
      BY <1>1, <3>2, <3>3 DEF PolicyInv, PolicyTypeInv
  <2>. QED
    BY <2>1, <2>2 DEF Hbw!GetKind
<1>3. \A q : Right(q)' = Right(q)
  BY <1>1 DEF Right, Hbw!KindFor
<1>4. KindsInv' /\ ServedInv' /\ AcceptedInv'
  BY <1>1, <1>3 DEF PolicyInv, KindsInv, ServedInv, AcceptedInv
<1>5. ASSUME NEW u \in Thread PROVE CallInv(u)'
  <2>1. CASE u = t
    <3>1. call[t].pagesize \in PageSize
      BY DEF PolicyInv, PolicyTypeInv, Hbw!GetKind
    <3>. QED
      BY <1>1, <1>3, <2>1, <3>1, SMT DEF PolicyInv, PolicyTypeInv, CallInv, KindsInv, Hbw!GetKind
  <2>2. CASE u # t
    BY <1>1, <1>3, <2>2, SMT DEF PolicyInv, PolicyTypeInv, CallInv, Hbw!GetKind
  <2>. QED
    BY <2>1, <2>2
<1>. QED
  BY <1>2, <1>4, <1>5 DEF PolicyInv

\* hbw_choose_kind fixes the policy it read, unless another one is fixed.
LEMMA FixPolicyKeeps ==
    ASSUME PolicyInv, NEW t \in Thread, Hbw!FixPolicy(t), hbw_available' = hbw_available
    PROVE  PolicyInv'
<1>0. call[t].mode \in Hbw!Policy
  BY DEF PolicyInv, PolicyTypeInv
<1>1. /\ hbw_policy' \in Hbw!Policy /\ once'
      /\ once => hbw_policy' = hbw_policy
  BY <1>0, OnceSettles DEF Hbw!FixPolicy, PolicyInv
<1>2. \A p : once => Right(p)' = Right(p)
  BY <1>1, RightStays
<1>3. UNCHANGED <<pagesize_kind, accepted, served>>
  BY DEF Hbw!FixPolicy
<1>4. PolicyTypeInv'
  BY <1>1, <1>3 DEF PolicyInv, PolicyTypeInv, Hbw!FixPolicy
<1>5. KindsInv' /\ ServedInv' /\ AcceptedInv'
  BY <1>1, <1>2, <1>3 DEF PolicyInv, KindsInv, ServedInv, AcceptedInv
<1>6. ASSUME NEW u \in Thread PROVE CallInv(u)'
  <2>1. CASE u = t
    BY <1>1, <1>2, <1>3, <2>1 DEF PolicyInv, PolicyTypeInv, CallInv, Hbw!FixPolicy
  <2>2. CASE u # t
    BY <1>1, <1>2, <1>3, <2>2 DEF PolicyInv, PolicyTypeInv, CallInv, Hbw!FixPolicy
  <2>. QED
    BY <2>1, <2>2
<1>. QED
  BY <1>4, <1>5, <1>6 DEF PolicyInv

\* hbw_get_kind records the kind for its page size.
LEMMA ChooseKindKeeps ==
    ASSUME PolicyInv, NEW t \in Thread, Hbw!ChooseKind(t), hbw_available' = hbw_available
    PROVE  PolicyInv'
<1>1. UNCHANGED <<hbw_policy, once, accepted, served>>
  BY DEF Hbw!ChooseKind
<1>2. PolicyTypeInv'
  BY <1>1 DEF PolicyInv, PolicyTypeInv, Hbw!ChooseKind
<1>3. \A q : Right(q)' = Right(q)
  BY <1>1 DEF Right, Hbw!KindFor
<1>4. once /\ call[t].pagesize \in PageSize
  BY DEF PolicyInv, CallInv, PolicyTypeInv, Hbw!ChooseKind
<1>5. \A q \in PageSize : pagesize_kind'[q] = IF q = call[t].pagesize THEN Right(q)
                                            ELSE pagesize_kind[q]
  BY <1>4 DEF PolicyInv, PolicyTypeInv, Hbw!ChooseKind, Right
<1>6. KindsInv' /\ ServedInv' /\ AcceptedInv'
  BY <1>1, <1>3, <1>4, <1>5 DEF PolicyInv, KindsInv, ServedInv, AcceptedInv
<1>7. ASSUME NEW u \in Thread PROVE CallInv(u)'
  <2>1. CASE u = t
    BY <1>1, <1>3, <1>4, <1>5, <2>1, SMT DEF PolicyInv, PolicyTypeInv, CallInv, Hbw!ChooseKind
  <2>2. CASE u # t
    BY <1>1, <1>3, <1>5, <2>2, SMT DEF PolicyInv, PolicyTypeInv, CallInv, Hbw!ChooseKind
  <2>. QED
    BY <2>1, <2>2
<1>. QED
  BY <1>2, <1>6, <1>7 DEF PolicyInv

\* The allocation itself, with the kind that is recorded.
LEMMA MallocKeeps ==
    ASSUME PolicyInv, NEW t \in Thread, Hbw!Malloc(t), hbw_available' = hbw_available
    PROVE  PolicyInv'
<1>1. UNCHANGED <<hbw_policy, once, pagesize_kind, accepted>>
  BY DEF Hbw!Malloc
<1>2. PolicyTypeInv'
  BY <1>1 DEF PolicyInv, PolicyTypeInv, Hbw!Malloc, Hbw!Idle, Hbw!Policy
<1>3. \A q : Right(q)' = Right(q)
  BY <1>1 DEF Right, Hbw!KindFor
<1>4. KindsInv' /\ AcceptedInv'
  BY <1>1, <1>3 DEF PolicyInv, KindsInv, AcceptedInv
<1>5. ASSUME NEW u \in Thread PROVE CallInv(u)'
  <2>1. CASE u = t
    BY <2>1 DEF PolicyInv, PolicyTypeInv, CallInv, Hbw!Malloc, Hbw!Idle
  <2>2. CASE u # t
    BY <1>1, <1>3, <2>2, SMTT(30) DEF PolicyInv, PolicyTypeInv, CallInv, Hbw!Malloc
  <2>. QED
    BY <2>1, <2>2
<1>6. ServedInv'
  <2>1. CallInv(t) /\ call[t].pc = "malloc" /\ call[t].fixed \in BOOLEAN
    BY DEF PolicyInv, Hbw!Malloc, PolicyTypeInv
  <2>. QED
    BY <1>1, <1>3, <2>1, SMT DEF PolicyInv, ServedInv, CallInv, Hbw!Malloc
<1>. QED
  BY <1>2, <1>4, <1>5, <1>6 DEF PolicyInv

\* Every step of the interface keeps the invariant.
LEMMA PolicyKept == PolicyInv /\ [Hbw!Next]_(Hbw!vars) => PolicyInv'
<1>. SUFFICES ASSUME PolicyInv, [Hbw!Next]_(Hbw!vars) PROVE PolicyInv'
  OBVIOUS
<1>1. CASE UNCHANGED Hbw!vars
  BY <1>1 DEF Hbw!vars, PolicyInv, PolicyTypeInv, KindsInv, CallInv, ServedInv, AcceptedInv, Right,
              Hbw!KindFor
<1>2. ASSUME NEW t \in Thread, Hbw!Step(t), hbw_available' = hbw_available
      PROVE  PolicyInv'
  BY <1>2, SetPolicyKeeps, RequestKeeps, GetKindKeeps, FixPolicyKeeps, ChooseKindKeeps,
     MallocKeeps DEF Hbw!Step
<1>. QED
  BY <1>1, <1>2 DEF Hbw!Next

(* Whatever the number of threads and the order of their first allocations *)
(* and calls of hbw_set_policy, every allocation of hbwmalloc.c comes from *)
(* the kind of the one policy that is in force.                            *)
THEOREM PolicyServed == Hbw!Spec => []Hbw!ServedByPolicy
<1>1. PolicyInv => Hbw!ServedByPolicy
  BY DEF PolicyInv, ServedInv, Hbw!ServedByPolicy, Right
<1>. QED
  BY <1>1, PolicyInit, PolicyKept, PTL DEF Hbw!Spec

(* A policy for which hbw_set_policy has returned 0 is never replaced.     *)
THEOREM PolicyAccepted == Hbw!Spec => []Hbw!AcceptedHolds
<1>1. PolicyInv => Hbw!AcceptedHolds
  BY DEF PolicyInv, AcceptedInv, Hbw!AcceptedHolds
<1>. QED
  BY <1>1, PolicyInit, PolicyKept, PTL DEF Hbw!Spec

(* After the policy is fixed, hbw_posix_memalign_psize serves no 2 MB page *)
(* under HBW_POLICY_INTERLEAVE.                                            *)
THEOREM InterleaveRefused == Hbw!Spec => []Hbw!InterleaveRefuses
<1>1. PolicyInv => Hbw!InterleaveRefuses
  BY DEF PolicyInv, ServedInv, Hbw!InterleaveRefuses
<1>. QED
  BY <1>1, PolicyInit, PolicyKept, PTL DEF Hbw!Spec

-----------------------------------------------------------------------------
(* The static kinds.                                                       *)

Named == {"REGULAR", "INTERLEAVE", "DEFAULT", "HUGETLB"}

\* Each kind is in one table.
LEMMA Tables ==
    ASSUME NEW k
    PROVE  /\ k \in DOMAIN HbwOps =>
                k \notin UNION {DOMAIN DaxKmemOps, DOMAIN CapacityOps, DOMAIN LocalOps, Named}
           /\ k \in DOMAIN DaxKmemOps => k \notin UNION {DOMAIN CapacityOps, DOMAIN LocalOps, Named}
           /\ k \in DOMAIN CapacityOps => k \notin UNION {DOMAIN LocalOps, Named}
           /\ k \in DOMAIN LocalOps => k \notin Named
BY DEF HbwOps, DaxKmemOps, CapacityOps, LocalOps, Named

LEMMA TableOf ==
    ASSUME NEW k
    PROVE  /\ k \in DOMAIN HbwOps => k \in Kind /\ KindOps[k] = HbwOps[k]
           /\ k \in DOMAIN DaxKmemOps => k \in Kind /\ KindOps[k] = DaxKmemOps[k]
           /\ k \in DOMAIN CapacityOps => k \in Kind /\ KindOps[k] = CapacityOps[k]
           /\ k \in DOMAIN LocalOps => k \in Kind /\ KindOps[k] = LocalOps[k]
<1>1. /\ k \in DOMAIN HbwOps => k \in Kind
      /\ k \in DOMAIN DaxKmemOps => k \in Kind
      /\ k \in DOMAIN CapacityOps => k \in Kind
      /\ k \in DOMAIN LocalOps => k \in Kind
  BY DEF Kind
<1>2. CASE k \in DOMAIN HbwOps
  <2>1. /\ k \notin DOMAIN DaxKmemOps /\ k \notin DOMAIN CapacityOps /\ k \notin DOMAIN LocalOps
        /\ k \notin Named
    BY <1>2, Tables
  <2> QED
    BY <1>1, <1>2, <2>1 DEF KindOps, Named
<1>3. CASE k \in DOMAIN DaxKmemOps
  <2>1. /\ k \notin DOMAIN HbwOps /\ k \notin DOMAIN CapacityOps /\ k \notin DOMAIN LocalOps
        /\ k \notin Named
    BY <1>3, Tables
  <2> QED
    BY <1>1, <1>3, <2>1 DEF KindOps, Named
<1>4. CASE k \in DOMAIN CapacityOps
  <2>1. /\ k \notin DOMAIN HbwOps /\ k \notin DOMAIN DaxKmemOps /\ k \notin DOMAIN LocalOps
        /\ k \notin Named
    BY <1>4, Tables
  <2> QED
    BY <1>1, <1>4, <2>1 DEF KindOps, Named
<1>5. CASE k \in DOMAIN LocalOps
  <2>1. /\ k \notin DOMAIN HbwOps /\ k \notin DOMAIN DaxKmemOps /\ k \notin DOMAIN CapacityOps
        /\ k \notin Named
    BY <1>5, Tables
  <2> QED
    BY <1>1, <1>5, <2>1 DEF KindOps, Named
<1> QED
  BY <1>2, <1>3, <1>4, <1>5

LEMMA NamedOps ==
    /\ KindOps["REGULAR"] = RegularOps /\ KindOps["INTERLEAVE"] = InterleaveOps
    /\ KindOps["DEFAULT"] = DefaultOps /\ KindOps["HUGETLB"] = HugetlbOps
<1>1. Named \subseteq Kind
  BY DEF Kind, Named
<1>2. \A k \in Named : /\ k \notin DOMAIN HbwOps /\ k \notin DOMAIN DaxKmemOps
                       /\ k \notin DOMAIN CapacityOps /\ k \notin DOMAIN LocalOps
  BY Tables
<1> QED
  BY <1>1, <1>2 DEF KindOps, Named

\* MEMKIND_HBW has the mask of the nearest high bandwidth nodes, and no huge pages.
LEMMA OpsOfHbw == KindOps["HBW"].slot = <<"hbw", "MULTIPLE">> /\ ~KindOps["HBW"].huge
<1>1. HbwOps["HBW"] = Ops(<<"hbw", "MULTIPLE">>, "BIND") /\ "HBW" \in DOMAIN HbwOps
  BY DEF HbwOps
<1> QED
  BY <1>1, TableOf, SMT DEF Ops

\* Only MEMKIND_REGULAR, which has no huge pages, uses its mask.
LEMMA RegularIsPlain == \A k \in Kind : KindOps[k].slot[1] = "regular" => ~KindOps[k].huge
<1> SUFFICES ASSUME NEW k \in Kind PROVE KindOps[k].slot[1] # "regular" \/ ~KindOps[k].huge
  OBVIOUS
<1>1. CASE k \in DOMAIN HbwOps
  <2>1. HbwOps[k].slot[1] = "hbw"
    BY <1>1, SMT DEF HbwOps, Ops, Huge
  <2> QED
    BY <1>1, <2>1, TableOf
<1>2. CASE k \in DOMAIN DaxKmemOps
  <2>1. DaxKmemOps[k].slot[1] = "dax_kmem"
    BY <1>2, SMT DEF DaxKmemOps, Ops
  <2> QED
    BY <1>2, <2>1, TableOf
<1>3. CASE k \in DOMAIN CapacityOps
  <2>1. CapacityOps[k].slot[1] = "hi_cap"
    BY <1>3, SMT DEF CapacityOps, Ops
  <2> QED
    BY <1>3, <2>1, TableOf
<1>4. CASE k \in DOMAIN LocalOps
  <2>1. LocalOps[k].slot[1] \in {"hi_cap_loc", "low_lat_loc", "hi_bw_loc"}
    BY <1>4, SMTT(30) DEF LocalOps, Ops
  <2> QED
    BY <1>4, <2>1, TableOf
<1>5. CASE k \in Named
  BY <1>5, NamedOps, SMT DEF Named, RegularOps, InterleaveOps, DefaultOps, HugetlbOps, Huge, Ops
<1> QED
  BY <1>1, <1>2, <1>3, <1>4, <1>5 DEF Kind, Named

\* The kinds of the hbw interface use a mask of memkind_hbw.c or none.
LEMMA OpsOfPolicy ==
    ASSUME NEW policy, NEW p, NEW available, NEW k, k = Hbw!KindFor(policy, p, available)
    PROVE  KindOps[k].slot[1] \in {"hbw", "none"}
<1>1. k \in DOMAIN HbwOps \/ k \in {"HUGETLB", "DEFAULT"}
  BY DEF Hbw!KindFor, HbwOps
<1>2. CASE k \in DOMAIN HbwOps
  <2>1. HbwOps[k].slot[1] = "hbw"
    BY <1>2, SMT DEF HbwOps, Ops, Huge
  <2> QED
    BY <1>2, <2>1, TableOf
<1>3. CASE k \in {"HUGETLB", "DEFAULT"}
  BY <1>3, NamedOps, SMT DEF DefaultOps, HugetlbOps, Huge, Ops
<1> QED
  BY <1>1, <1>2, <1>3

-----------------------------------------------------------------------------
(* The node masks.                                                         *)

HbwSlot == <<"hbw", "MULTIPLE">>

AllSlot == <<"numa_all_nodes", "ALL">>

\* The mask of a slot whose initialisation failed in memkind_hi_cap_find, or libnuma's.
Excused(s) == \/ s[1] = "hi_cap" /\ g[s].err # "SUCCESS"
              \/ s[1] = "numa_all_nodes" /\ machine.unreadable # {}

\* A mask that is in use has been freed only by memkind_get_capacity or by a finalizer.
FreedInv(s) ==
    g[s].err = "SUCCESS" /\ g[s].ptr = "freed" =>
      \/ s[1] = "numa_all_nodes" /\ machine.unreadable # {}
      \/ ended /\ s[1] \in {"hi_cap", "regular", "hi_cap_loc", "low_lat_loc", "hi_bw_loc"}

MaskInv ==
    /\ machine \in Machines
    /\ AllSlot \in DOMAIN g /\ g[AllSlot].err = "SUCCESS" /\ g[AllSlot].mask = [cpu \in Cpu |-> Node]
    /\ \A s \in DOMAIN g : FreedInv(s) /\ (s[1] = "regular" => g[s].err = "SUCCESS")
    /\ \A s \in misused : s \in DOMAIN g /\ Excused(s)

\* What was found out about MEMKIND_HBW is what the machine says.
AvailInv ==
    /\ hbw_available <=> machine.kinds = {} /\ Choice(machine, HbwSlot).err = "SUCCESS"
    /\ machine.kinds = {} /\ HbwSlot \in DOMAIN g =>
         (g[HbwSlot].err = "SUCCESS" <=> Choice(machine, HbwSlot).err = "SUCCESS")

\* masks is g with one slot initialised, or g itself.
Grown(masks, slot, fault) ==
    /\ DOMAIN g \subseteq DOMAIN masks /\ \A s \in DOMAIN g : masks[s] = g[s]
    /\ \A s \in DOMAIN masks : s \notin DOMAIN g =>
         /\ s = slot
         /\ s[1] = "regular" => masks[s].err = "SUCCESS"
         /\ masks[s].err = "SUCCESS" => masks[s].ptr # "freed"
         /\ ~fault => masks[s].err = Choice(machine, s).err

\* pthread_once initialises a slot; MEMKIND_REGULAR's cannot fail.
LEMMA InitialiseGrows ==
    ASSUME NEW slot, NEW fault \in BOOLEAN, fault => slot[1] # "regular"
    PROVE  Grown(Initialise(slot, fault), slot, fault)
<1>1. CASE slot \in DOMAIN g \/ slot[1] = "none"
  BY <1>1 DEF Initialise, Grown
<1>2. CASE ~(slot \in DOMAIN g \/ slot[1] = "none")
  <2> DEFINE c == IF fault THEN Failed("MALLOC") ELSE Choice(machine, slot)
             st == Stored(slot, fault, c)
             h == [s \in DOMAIN g \cup {slot} |-> IF s \in DOMAIN g THEN g[s] ELSE st]
  <2>1. Initialise(slot, fault) = h
    BY <1>2 DEF Initialise
  <2>2. st.err = c.err /\ (c.err = "SUCCESS" => st.ptr = "live")
    BY DEF Stored
  <2>3. ~fault => c = Choice(machine, slot)
    OBVIOUS
  <2>4. slot[1] = "regular" => c.err = "SUCCESS"
    <3> SUFFICES ASSUME slot[1] = "regular" PROVE c.err = "SUCCESS"
      OBVIOUS
    <3>1. c = RegularNodes(machine)
      BY <2>3 DEF Choice
    <3> QED
      BY <3>1, SMT DEF RegularNodes, Chosen
  <2> HIDE DEF c, st
  <2>5. /\ DOMAIN h = DOMAIN g \cup {slot}
        /\ \A s \in DOMAIN g : h[s] = g[s]
        /\ h[slot] = st
    BY <1>2
  <2> HIDE DEF h
  <2>6. Grown(h, slot, fault)
    BY <1>2, <2>2, <2>3, <2>4, <2>5 DEF Grown
  <2> QED
    BY <2>1, <2>6
<1> QED
  BY <1>1, <1>2

\* A call that looks a mask up keeps the invariant.
LEMMA LookupKeeps ==
    ASSUME MaskInv, NEW slot, NEW fault \in BOOLEAN, Grown(g', slot, fault),
           machine' = machine, ended' = ended,
           misused' \subseteq misused \cup Misuse(g', slot),
           ended => slot[1] \in {"hbw", "none"}
    PROVE  MaskInv'
<1>1. \A s \in DOMAIN g' : FreedInv(s)' /\ (s[1] = "regular" => g'[s].err = "SUCCESS")
  BY DEF MaskInv, Grown, FreedInv
<1>2. \A s \in misused : s \in DOMAIN g' /\ Excused(s)'
  BY DEF MaskInv, Grown, Excused
<1>3. \A s \in Misuse(g', slot) : s \in DOMAIN g' /\ Excused(s)'
  <2> SUFFICES ASSUME NEW s \in Misuse(g', slot) PROVE s \in DOMAIN g' /\ Excused(s)'
    OBVIOUS
  <2>1. s = slot /\ s \in DOMAIN g' /\ g'[s].err = "SUCCESS" /\ g'[s].ptr = "freed"
    BY DEF Misuse
  <2>2. FreedInv(s)'
    BY <1>1, <2>1
  <2> QED
    BY <2>1, <2>2 DEF FreedInv, Excused
<1>4. Node' = Node /\ Cpu' = Cpu
  BY DEF Node, Cpu
<1>5. AllSlot \in DOMAIN g' /\ g'[AllSlot] = g[AllSlot]
  BY DEF MaskInv, Grown
<1>6. g'[AllSlot].err = "SUCCESS" /\ g'[AllSlot].mask = [cpu \in Cpu' |-> Node']
  BY <1>4, <1>5 DEF MaskInv
<1> QED
  BY <1>1, <1>2, <1>3, <1>5, <1>6 DEF MaskInv

\* A step that leaves the masks alone keeps it.
LEMMA IdleKeeps ==
    ASSUME MaskInv, UNCHANGED <<machine, g, misused, ended>>
    PROVE  MaskInv'
<1>1. Node' = Node /\ Cpu' = Cpu
  BY DEF Node, Cpu
<1>2. g'[AllSlot].mask = [cpu \in Cpu' |-> Node']
  BY <1>1 DEF MaskInv
<1>3. \A s \in DOMAIN g' : FreedInv(s)'
  BY DEF MaskInv, FreedInv
<1>4. \A s \in misused' : s \in DOMAIN g' /\ Excused(s)'
  BY DEF MaskInv, Excused
<1> QED
  BY <1>2, <1>3, <1>4 DEF MaskInv

\* memkind_get_capacity(MEMKIND_DEFAULT) frees libnuma's mask, if a node cannot be read.
LEMMA CapacityKeeps ==
    ASSUME MaskInv, NEW k \in Kind, NEW cpu \in Cpu, NEW fault \in BOOLEAN, GetCapacity(k, cpu, fault),
           ~ended
    PROVE  MaskInv'
<1> DEFINE slot == IF k = "DEFAULT" THEN AllSlot ELSE KindOps[k].slot
           refused == KindOps[k].mode = "PREFERRED" \/ k \in {"HBW_HUGETLB", "HBW_ALL_HUGETLB"}
           masks == IF refused THEN g ELSE InitialiseToGet(slot, fault)
           nodes == GetMbindNodemask(masks, slot, cpu).nodes
           freed == FreedByCapacity(k, nodes)
<1>1. /\ MayFault(fault, k) /\ machine' = machine /\ ended' = ended
      /\ g' = [s \in DOMAIN masks |-> IF s \in freed THEN [masks[s] EXCEPT !.ptr = "freed"]
                                                    ELSE masks[s]]
      /\ misused' = misused \cup (IF refused THEN {} ELSE Misuse(masks, slot))
  BY DEF GetCapacity, AllSlot
<1>2. Grown(masks, slot, fault)
  <2>1. CASE refused \/ slot[1] = "regular"
    BY <2>1 DEF InitialiseToGet, Grown
  <2>2. CASE ~refused /\ slot[1] # "regular"
    BY <2>2, InitialiseGrows DEF InitialiseToGet
  <2> QED
    BY <2>1, <2>2
<1> HIDE DEF masks, refused
<1>3. masks[AllSlot] = g[AllSlot] /\ AllSlot \in DOMAIN masks
  BY <1>2 DEF Grown, MaskInv
<1>4. freed \subseteq {AllSlot} /\ (AllSlot \in freed => machine.unreadable # {})
  <2> SUFFICES ASSUME freed # {} PROVE freed = {AllSlot} /\ machine.unreadable # {}
    OBVIOUS
  <2>1. k = "DEFAULT" /\ Unread(nodes) /\ freed = {AllSlot}
    BY DEF FreedByCapacity, AllSlot
  <2>2. nodes = Node
    BY <1>3, <2>1 DEF GetMbindNodemask, MaskInv
  <2>3. PICK n \in Node : NodeSize64(machine, n) = -1
    BY <2>1, <2>2 DEF Unread
  <2>4. machine.memory[n] \in Nat
    BY NodeMasksAssumption DEF MaskInv, Node, Nodes
  <2>5. n \in machine.unreadable
    BY <2>3, <2>4, SMT DEF NodeSize64, Node
  <2> QED
    BY <2>1, <2>5
<1> HIDE DEF freed, nodes
<1>5. AllSlot[1] = "numa_all_nodes"
  BY DEF AllSlot
<1>6. /\ DOMAIN g' = DOMAIN masks
      /\ \A s \in DOMAIN masks : s \notin freed => g'[s] = masks[s]
      /\ g'[AllSlot].err = masks[AllSlot].err /\ g'[AllSlot].mask = masks[AllSlot].mask
  BY <1>1, <1>3, SMT
<1>7. Node' = Node /\ Cpu' = Cpu
  BY <1>1 DEF Node, Cpu
<1>8. AllSlot \in DOMAIN g' /\ g'[AllSlot].err = "SUCCESS" /\ g'[AllSlot].mask = [c \in Cpu' |-> Node']
  BY <1>3, <1>6, <1>7 DEF MaskInv
<1>9. ASSUME NEW s \in DOMAIN g'
      PROVE  FreedInv(s)' /\ (s[1] = "regular" => g'[s].err = "SUCCESS")
  <2>1. CASE s \in freed
    BY <1>1, <1>4, <1>5, <2>1 DEF FreedInv
  <2>2. CASE s \notin freed
    BY <1>1, <1>2, <1>6, <2>2, SMT DEF FreedInv, Grown, MaskInv
  <2> QED
    BY <2>1, <2>2
<1>10. \A s \in DOMAIN g : g'[s].err = g[s].err /\ s \in DOMAIN g'
  BY <1>2, <1>4, <1>6, <1>3 DEF Grown
<1>11. \A s \in misused : s \in DOMAIN g' /\ Excused(s)'
  BY <1>1, <1>10 DEF MaskInv, Excused
<1>12. \A s \in Misuse(masks, slot) : s \in DOMAIN g' /\ Excused(s)'
  <2> SUFFICES ASSUME NEW s \in Misuse(masks, slot) PROVE s \in DOMAIN g' /\ Excused(s)'
    OBVIOUS
  <2>1. s \in DOMAIN masks /\ masks[s].err = "SUCCESS" /\ masks[s].ptr = "freed"
    BY SMT DEF Misuse
  <2>2. s \in DOMAIN g /\ masks[s] = g[s]
    BY <1>2, <2>1 DEF Grown
  <2>3. s[1] = "numa_all_nodes" /\ machine.unreadable # {}
    BY <2>1, <2>2 DEF MaskInv, FreedInv
  <2> QED
    BY <1>1, <1>6, <2>1, <2>3 DEF Excused
<1> QED
  BY <1>1, <1>8, <1>9, <1>11, <1>12 DEF MaskInv

\* The finalizers free each mask once, except what memkind_hi_cap_find has freed.
LEMMA FinalizeKeeps ==
    ASSUME MaskInv, Finalize
    PROVE  MaskInv'
<1>1. /\ ~ended /\ ended' /\ machine' = machine
      /\ DOMAIN g' = DOMAIN g
      /\ \A s \in DOMAIN g : s \notin Finalized => g'[s] = g[s]
      /\ \A s \in DOMAIN g : g'[s].err = g[s].err /\ g'[s].mask = g[s].mask
      /\ misused' = misused \cup {s \in Finalized : g[s].ptr = "freed"}
  BY SMT DEF Finalize
<1>2. Node' = Node /\ Cpu' = Cpu
  BY <1>1 DEF Node, Cpu
<1>3. AllSlot \in DOMAIN g' /\ g'[AllSlot].err = "SUCCESS" /\ g'[AllSlot].mask = [c \in Cpu' |-> Node']
  BY <1>1, <1>2 DEF MaskInv
<1>4. ASSUME NEW s \in DOMAIN g'
      PROVE  FreedInv(s)' /\ (s[1] = "regular" => g'[s].err = "SUCCESS")
  <2>1. CASE s \in Finalized
    BY <1>1, <2>1 DEF FreedInv, Finalized, MaskInv
  <2>2. CASE s \notin Finalized
    BY <1>1, <2>2 DEF FreedInv, MaskInv
  <2> QED
    BY <2>1, <2>2
<1>5. \A s \in misused : s \in DOMAIN g' /\ Excused(s)'
  BY <1>1 DEF MaskInv, Excused
<1>6. ASSUME NEW s \in Finalized, g[s].ptr = "freed"
      PROVE  s \in DOMAIN g' /\ Excused(s)'
  <2>1. s \in DOMAIN g /\ FreedInv(s) /\ (s[1] = "regular" => g[s].err = "SUCCESS")
    BY DEF Finalized, MaskInv
  <2>2. s[1] = "hi_cap" /\ g[s].err # "SUCCESS"
    BY <1>1, <1>6, <2>1 DEF Finalized, FreedInv
  <2> QED
    BY <1>1, <2>1, <2>2 DEF Excused
<1> QED
  BY <1>1, <1>3, <1>4, <1>5, <1>6 DEF MaskInv

\* A failed allocation never hits the mask of MEMKIND_REGULAR.
LEMMA FaultsElsewhere ==
    ASSUME NEW k \in Kind, NEW fault \in BOOLEAN, MayFault(fault, k)
    PROVE  fault => KindOps[k].slot[1] # "regular"
BY RegularIsPlain DEF MayFault

\* memkind_check_available, memkind_create_kind and the mapping of memory look one mask up.
LEMMA CheckGrows ==
    ASSUME NEW k, NEW cpu, NEW fault \in BOOLEAN, fault => KindOps[k].slot[1] # "regular",
           CheckAvailable(k, cpu, fault)
    PROVE  Grown(g', KindOps[k].slot, fault) /\ UNCHANGED <<machine, misused, ended>>
<1>1. g' = Initialise(KindOps[k].slot, fault) /\ UNCHANGED <<machine, misused, ended>>
  BY DEF CheckAvailable
<1> QED
  BY <1>1, InitialiseGrows

LEMMA CreateGrows ==
    ASSUME NEW a, NEW cpu, NEW fault \in BOOLEAN, fault => KindOps[a.kind].slot[1] # "regular",
           CreateKind(a, cpu, fault)
    PROVE  Grown(g', KindOps[a.kind].slot, fault) /\ UNCHANGED <<machine, misused, ended>>
<1>1. g' = Initialise(KindOps[a.kind].slot, fault) /\ UNCHANGED <<machine, misused, ended>>
  BY DEF CreateKind
<1> QED
  BY <1>1, InitialiseGrows

LEMMA MmapGrows ==
    ASSUME NEW k, NEW cpu, NEW fault \in BOOLEAN, fault => KindOps[k].slot[1] # "regular",
           NEW kernel, DefaultMmap(k, cpu, fault, kernel)
    PROVE  /\ Grown(g', KindOps[k].slot, fault) /\ UNCHANGED <<machine, ended>>
           /\ misused' = misused \cup Misuse(g', KindOps[k].slot)
<1>1. /\ g' = g \/ g' = Initialise(KindOps[k].slot, fault)
      /\ UNCHANGED <<machine, ended>>
      /\ misused' = misused \cup Misuse(g', KindOps[k].slot)
  BY DEF DefaultMmap
<1>2. Grown(g, KindOps[k].slot, fault)
  BY DEF Grown
<1> QED
  BY <1>1, <1>2, InitialiseGrows

\* The memkind interface keeps the masks.
LEMMA NextKeepsMasks ==
    ASSUME MaskInv, Next
    PROVE  MaskInv'
<1>1. CASE Call
  <2>1. PICK cpu \in Cpu, fault \in BOOLEAN :
           \/ \E k \in machine.kinds : CheckAvailable(k, cpu, fault)
           \/ \E k \in machine.kinds, kernel \in {"ok", "mmap", "mbind", "madvise"} :
                DefaultMmap(k, cpu, fault, kernel)
           \/ \E k \in machine.kinds : GetCapacity(k, cpu, fault)
           \/ \E a \in SupportedArgs : a.kind \in machine.kinds /\ CreateKind(a, cpu, fault)
    BY <1>1 DEF Call
  <2>2. machine.kinds \subseteq Kind /\ ~ended
    BY <1>1, NodeMasksAssumption DEF MaskInv, Call
  <2>3. ASSUME NEW k \in machine.kinds, CheckAvailable(k, cpu, fault) PROVE MaskInv'
    <3>1. MayFault(fault, k)
      BY <2>3 DEF CheckAvailable
    <3>2. Grown(g', KindOps[k].slot, fault) /\ UNCHANGED <<machine, misused, ended>>
      BY <2>2, <2>3, <3>1, FaultsElsewhere, CheckGrows
    <3> QED
      BY <2>2, <3>2, LookupKeeps
  <2>4. ASSUME NEW k \in machine.kinds, NEW kernel \in {"ok", "mmap", "mbind", "madvise"},
               DefaultMmap(k, cpu, fault, kernel)
        PROVE  MaskInv'
    <3>1. MayFault(fault, k)
      BY <2>4 DEF DefaultMmap
    <3>2. /\ Grown(g', KindOps[k].slot, fault) /\ UNCHANGED <<machine, ended>>
          /\ misused' = misused \cup Misuse(g', KindOps[k].slot)
      BY <2>2, <2>4, <3>1, FaultsElsewhere, MmapGrows
    <3> QED
      BY <2>2, <3>2, LookupKeeps
  <2>5. ASSUME NEW k \in machine.kinds, GetCapacity(k, cpu, fault) PROVE MaskInv'
    BY <2>2, <2>5, CapacityKeeps
  <2>6. ASSUME NEW a \in SupportedArgs, a.kind \in machine.kinds, CreateKind(a, cpu, fault)
        PROVE  MaskInv'
    <3>1. MayFault(fault, a.kind)
      BY <2>6 DEF CreateKind
    <3>2. Grown(g', KindOps[a.kind].slot, fault) /\ UNCHANGED <<machine, misused, ended>>
      BY <2>2, <2>6, <3>1, FaultsElsewhere, CreateGrows
    <3> QED
      BY <2>2, <3>2, LookupKeeps
  <2> QED
    BY <2>1, <2>3, <2>4, <2>5, <2>6
<1>2. CASE Return
  BY <1>2, IdleKeeps DEF Return
<1>3. CASE Finalize
  BY <1>3, FinalizeKeeps
<1> QED
  BY <1>1, <1>2, <1>3 DEF Next

\* So does the hbw interface, which may be called after the finalizers have run.
LEMMA HbwCallKeepsMasks ==
    ASSUME MaskInv, PolicyInv, HbwCall
    PROVE  MaskInv'
<1>1. ASSUME NEW t \in Thread, PolicyStep(t) PROVE MaskInv'
  BY <1>1, IdleKeeps DEF PolicyStep, vars
<1>2. ASSUME NEW t \in Thread, NEW cpu \in Cpu, ChoosePreferred(t, cpu) PROVE MaskInv'
  <2>1. CheckAvailable("HBW", cpu, FALSE)
    BY <1>2 DEF ChoosePreferred, ChooseBy
  <2>2. Grown(g', KindOps["HBW"].slot, FALSE) /\ UNCHANGED <<machine, misused, ended>>
    BY <2>1, CheckGrows
  <2>3. KindOps["HBW"].slot[1] = "hbw"
    BY OpsOfHbw, SMT
  <2> QED
    BY <2>2, <2>3, LookupKeeps
<1>3. ASSUME NEW t \in Thread, NEW cpu \in Cpu, NEW kernel \in {"ok", "mbind"}, MallocOn(t, cpu, kernel)
      PROVE  MaskInv'
  <2> DEFINE k == pagesize_kind[call[t].pagesize]
  <2>1. call[t].pc = "malloc" /\ DefaultMmap(k, cpu, FALSE, kernel)
    BY <1>3 DEF MallocOn, Hbw!Malloc
  <2>2. k = Hbw!KindFor(hbw_policy, call[t].pagesize, hbw_available)
    BY <2>1 DEF PolicyInv, CallInv, Right
  <2> HIDE DEF k
  <2>3. KindOps[k].slot[1] \in {"hbw", "none"}
    BY <2>2, OpsOfPolicy
  <2>4. /\ Grown(g', KindOps[k].slot, FALSE) /\ UNCHANGED <<machine, ended>>
        /\ misused' = misused \cup Misuse(g', KindOps[k].slot)
    BY <2>1, MmapGrows
  <2> QED
    BY <2>3, <2>4, LookupKeeps
<1>4. ASSUME NEW cpu \in Cpu, NEW node \in regions, Verify(cpu, node) PROVE MaskInv'
  <2>1. g' = Initialise(VerifySlot, FALSE) /\ UNCHANGED <<machine, misused, ended>>
    BY <1>4 DEF Verify
  <2>2. Grown(g', VerifySlot, FALSE)
    BY <2>1, InitialiseGrows
  <2>3. VerifySlot[1] = "hbw"
    BY DEF VerifySlot
  <2> QED
    BY <2>1, <2>2, <2>3, LookupKeeps
<1> QED
  BY <1>1, <1>2, <1>3, <1>4 DEF HbwCall

\* And libautohbw.
LEMMA AutoCallKeepsMasks ==
    ASSUME MaskInv, AutoCall
    PROVE  MaskInv'
<1>1. ~ended
  BY DEF AutoCall
<1>2. ASSUME NEW k, NEW cpu, NEW kernel, DefaultMmap(k, cpu, FALSE, kernel) PROVE MaskInv'
  BY <1>1, <1>2, MmapGrows, LookupKeeps
<1>3. ASSUME NEW cpu, AutohbwLoad(cpu) PROVE MaskInv'
  <2>1. CheckAvailable("HBW", cpu, FALSE)
    BY <1>3 DEF AutohbwLoad
  <2>2. Grown(g', KindOps["HBW"].slot, FALSE) /\ UNCHANGED <<machine, misused, ended>>
    BY <2>1, CheckGrows
  <2> QED
    BY <1>1, <2>2, LookupKeeps
<1>4. ASSUME UNCHANGED vars PROVE MaskInv'
  BY <1>4, IdleKeeps DEF vars
<1>5. ASSUME NEW cpu, NEW kernel, AutohbwTry(cpu, kernel) PROVE MaskInv'
  BY <1>2, <1>5 DEF AutohbwTry
<1>6. ASSUME NEW k, NEW cpu, NEW kernel, NEW b, Obtain(k, cpu, kernel, b) PROVE MaskInv'
  BY <1>2, <1>6 DEF Obtain
<1>7. ASSUME NEW s, NEW cpu, NEW kernel, Malloc(s, cpu, kernel) \/ Realloc(s, cpu, kernel)
      PROVE  MaskInv'
  BY <1>4, <1>6, <1>7 DEF Malloc, Realloc
<1>8. ASSUME NEW n, NEW s, NEW cpu, NEW kernel, Calloc(n, s, cpu, kernel) PROVE MaskInv'
  BY <1>6, <1>8 DEF Calloc
<1>9. ASSUME NEW b, SetEnabled(b) \/ Free PROVE MaskInv'
  BY <1>4, <1>9 DEF SetEnabled, Free
<1> QED
  BY <1>3, <1>5, <1>7, <1>8, <1>9 DEF AutoCall

-----------------------------------------------------------------------------
(* The availability of MEMKIND_HBW.                                        *)

\* It is settled by the first look at the mask; with no kinds of its own the
\* program meets no allocation failure.
LEMMA AvailKept ==
    ASSUME AvailInv, machine' = machine, hbw_available' = hbw_available,
           NEW slot, machine.kinds = {} => Grown(g', slot, FALSE)
    PROVE  AvailInv'
BY DEF AvailInv, Grown

LEMMA AvailIdle ==
    ASSUME AvailInv, UNCHANGED <<machine, hbw_available>>,
           machine.kinds = {} => DOMAIN g' = DOMAIN g /\ \A s \in DOMAIN g : g'[s].err = g[s].err
    PROVE  AvailInv'
BY DEF AvailInv

LEMMA AvailNext ==
    ASSUME AvailInv, Next, hbw_available' = hbw_available
    PROVE  AvailInv'
<1>1. CASE Call
  <2>1. machine.kinds # {}
    BY <1>1 DEF Call
  <2>2. ASSUME NEW k, NEW cpu, NEW fault,
               CheckAvailable(k, cpu, fault) \/ GetCapacity(k, cpu, fault) \/ CreateKind(k, cpu, fault)
        PROVE  machine' = machine
    BY <2>2 DEF CheckAvailable, GetCapacity, CreateKind
  <2>3. ASSUME NEW k, NEW cpu, NEW fault, NEW kernel, DefaultMmap(k, cpu, fault, kernel)
        PROVE  machine' = machine
    BY <2>3 DEF DefaultMmap
  <2>4. machine' = machine
    BY <1>1, <2>2, <2>3 DEF Call
  <2> QED
    BY <2>1, <2>4, AvailIdle
<1>2. CASE Return
  BY <1>2, AvailIdle DEF Return
<1>3. CASE Finalize
  <2>1. /\ machine' = machine /\ DOMAIN g' = DOMAIN g
        /\ \A s \in DOMAIN g : g'[s].err = g[s].err
    BY <1>3, SMT DEF Finalize
  <2> QED
    BY <2>1, AvailIdle
<1> QED
  BY <1>1, <1>2, <1>3 DEF Next

LEMMA AvailHbwCall ==
    ASSUME AvailInv, HbwCall
    PROVE  AvailInv'
<1>1. hbw_available' = hbw_available
  BY DEF HbwCall
<1>2. ASSUME NEW t \in Thread, PolicyStep(t) PROVE AvailInv'
  BY <1>1, <1>2, AvailIdle DEF PolicyStep, vars
<1>3. ASSUME NEW t \in Thread, NEW cpu \in Cpu, ChoosePreferred(t, cpu) PROVE AvailInv'
  <2>1. CheckAvailable("HBW", cpu, FALSE)
    BY <1>3 DEF ChoosePreferred, ChooseBy
  <2> QED
    BY <1>1, <2>1, CheckGrows, AvailKept
<1>4. ASSUME NEW t \in Thread, NEW cpu \in Cpu, NEW kernel, MallocOn(t, cpu, kernel)
      PROVE  AvailInv'
  <2>1. PICK k : DefaultMmap(k, cpu, FALSE, kernel)
    BY <1>4 DEF MallocOn
  <2> QED
    BY <1>1, <2>1, MmapGrows, AvailKept
<1>5. ASSUME NEW cpu \in Cpu, NEW node \in regions, Verify(cpu, node) PROVE AvailInv'
  <2>1. g' = Initialise(VerifySlot, FALSE) /\ machine' = machine
    BY <1>5 DEF Verify
  <2> QED
    BY <1>1, <2>1, InitialiseGrows, AvailKept
<1> QED
  BY <1>2, <1>3, <1>4, <1>5 DEF HbwCall

LEMMA AvailAutoCall ==
    ASSUME AvailInv, AutoCall
    PROVE  AvailInv'
<1>1. ASSUME NEW k, NEW cpu, NEW kernel, DefaultMmap(k, cpu, FALSE, kernel), UNCHANGED hbwVars
      PROVE  AvailInv'
  BY <1>1, MmapGrows, AvailKept DEF hbwVars
<1>2. ASSUME NEW cpu, AutohbwLoad(cpu) PROVE AvailInv'
  <2>1. CheckAvailable("HBW", cpu, FALSE) /\ hbw_available' = hbw_available
    BY <1>2 DEF AutohbwLoad, hbwVars
  <2> QED
    BY <2>1, CheckGrows, AvailKept
<1>3. ASSUME UNCHANGED <<vars, hbwVars>> PROVE AvailInv'
  BY <1>3, AvailIdle DEF vars, hbwVars
<1>4. ASSUME NEW cpu, NEW kernel, AutohbwTry(cpu, kernel) PROVE AvailInv'
  BY <1>1, <1>4 DEF AutohbwTry
<1>5. ASSUME NEW k, NEW cpu, NEW kernel, NEW b, Obtain(k, cpu, kernel, b) PROVE AvailInv'
  BY <1>1, <1>5 DEF Obtain
<1>6. ASSUME NEW s, NEW cpu, NEW kernel, Malloc(s, cpu, kernel) \/ Realloc(s, cpu, kernel)
      PROVE  AvailInv'
  BY <1>3, <1>5, <1>6 DEF Malloc, Realloc
<1>7. ASSUME NEW n, NEW s, NEW cpu, NEW kernel, Calloc(n, s, cpu, kernel) PROVE AvailInv'
  BY <1>5, <1>7 DEF Calloc
<1>8. ASSUME NEW b, SetEnabled(b) \/ Free PROVE AvailInv'
  BY <1>3, <1>8 DEF SetEnabled, Free
<1> QED
  BY <1>2, <1>4, <1>6, <1>7, <1>8 DEF AutoCall

LEMMA AvailInit == AutoInit => AvailInv
<1> SUFFICES ASSUME AutoInit PROVE AvailInv
  OBVIOUS
<1>1. /\ hbw_available = (machine.kinds = {} /\ Choice(machine, HbwSlot).err = "SUCCESS")
      /\ DOMAIN g = {AllSlot}
  BY DEF AutoInit, HbwInit, Init, HbwSlot, AllSlot
<1>2. HbwSlot # AllSlot
  BY DEF HbwSlot, AllSlot
<1> QED
  BY <1>1, <1>2 DEF AvailInv

-----------------------------------------------------------------------------
(* The interface refines its policy.                                       *)

\* libautohbw does not touch the state of the hbw interface.
LEMMA AutoCallApart == AutoCall => UNCHANGED hbwVars
BY DEF AutoCall, AutohbwTry, Malloc, Realloc, Calloc, Obtain, AutohbwLoad, SetEnabled, Free

\* hbw_choose_kind asks MEMKIND_HBW, and learns what HbwPolicy calls hbw_available.
LEMMA ChooseRefines ==
    ASSUME AvailInv, machine.kinds = {}, NEW t \in Thread, NEW cpu \in Cpu, ChoosePreferred(t, cpu),
           hbw_available' = hbw_available
    PROVE  Hbw!ChooseKind(t)
<1>1. /\ call[t].pc = "choose" /\ hbw_policy = "PREFERRED"
      /\ CheckAvailable("HBW", cpu, FALSE)
      /\ pagesize_kind' = [pagesize_kind EXCEPT ![call[t].pagesize] =
                              Hbw!KindFor("PREFERRED", call[t].pagesize, answer'.err = "SUCCESS")]
      /\ call' = [call EXCEPT ![t].pc = "malloc"]
      /\ UNCHANGED <<hbw_policy, once, accepted, served>>
  BY DEF ChoosePreferred, ChooseBy
<1>2. HbwSlot \in DOMAIN g'
  <2>1. g' = Initialise(HbwSlot, FALSE) /\ HbwSlot[1] # "none"
    BY <1>1, OpsOfHbw DEF CheckAvailable, HbwSlot
  <2> QED
    BY <2>1 DEF Initialise
<1>3. answer'.err = Availability("HBW", cpu, g', huge')
  BY <1>1 DEF CheckAvailable, Answer, NoAnswer
<1>4. answer'.err = "SUCCESS" <=> g'[HbwSlot].err = "SUCCESS"
  <2>1. HbwSlot[1] # "none" /\ KindOps["HBW"].slot = HbwSlot /\ ~KindOps["HBW"].huge
    BY OpsOfHbw DEF HbwSlot
  <2>2. Availability("HBW", cpu, g', huge') = GetMbindNodemask(g', HbwSlot, cpu).err
    BY <2>1 DEF Availability
  <2> QED
    BY <1>2, <1>3, <2>2 DEF GetMbindNodemask
<1>5. machine' = machine /\ AvailInv'
  BY <1>1, CheckGrows, AvailKept
<1>6. answer'.err = "SUCCESS" <=> hbw_available
  BY <1>2, <1>4, <1>5 DEF AvailInv
<1>7. Hbw!KindFor("PREFERRED", call[t].pagesize, answer'.err = "SUCCESS")
        = Hbw!KindFor(hbw_policy, call[t].pagesize, hbw_available)
  BY <1>1, <1>6 DEF Hbw!KindFor
<1> QED
  BY <1>1, <1>7 DEF Hbw!ChooseKind

LEMMA HbwCallRefines ==
    ASSUME AvailInv, HbwCall
    PROVE  [Hbw!Next]_(Hbw!vars)
<1>1. machine.kinds = {} /\ hbw_available' = hbw_available
  BY DEF HbwCall
<1>2. ASSUME NEW t \in Thread, Hbw!Step(t) PROVE [Hbw!Next]_(Hbw!vars)
  BY <1>1, <1>2 DEF Hbw!Next
<1>3. ASSUME NEW t \in Thread, PolicyStep(t) PROVE [Hbw!Next]_(Hbw!vars)
  <2>1. Hbw!Step(t)
    BY <1>3 DEF PolicyStep, Hbw!Step
  <2> QED
    BY <1>2, <2>1
<1>4. ASSUME NEW t \in Thread, NEW cpu \in Cpu, ChoosePreferred(t, cpu)
      PROVE  [Hbw!Next]_(Hbw!vars)
  <2>1. Hbw!Step(t)
    BY <1>1, <1>4, ChooseRefines DEF Hbw!Step
  <2> QED
    BY <1>2, <2>1
<1>5. ASSUME NEW t \in Thread, NEW cpu \in Cpu, NEW kernel, MallocOn(t, cpu, kernel)
      PROVE  [Hbw!Next]_(Hbw!vars)
  <2>1. Hbw!Step(t)
    BY <1>5 DEF MallocOn, Hbw!Step
  <2> QED
    BY <1>2, <2>1
<1>6. ASSUME NEW cpu \in Cpu, NEW node \in regions, Verify(cpu, node)
      PROVE  [Hbw!Next]_(Hbw!vars)
  BY <1>6 DEF Verify, hbwVars, Hbw!vars
<1> QED
  BY <1>3, <1>4, <1>5, <1>6 DEF HbwCall

LEMMA StepRefines ==
    ASSUME AvailInv, [AutoNext]_<<vars, hbwVars, autoVars>>
    PROVE  [Hbw!Next]_(Hbw!vars) /\ AvailInv'
<1>1. ASSUME UNCHANGED hbwVars PROVE [Hbw!Next]_(Hbw!vars)
  BY <1>1 DEF hbwVars, Hbw!vars
<1>2. CASE UNCHANGED <<vars, hbwVars, autoVars>>
  <2>1. AvailInv'
    BY <1>2, AvailIdle DEF vars, hbwVars
  <2> QED
    BY <1>1, <1>2, <2>1
<1>3. CASE HbwCall
  BY <1>3, HbwCallRefines, AvailHbwCall
<1>4. CASE Next /\ UNCHANGED hbwVars
  <2>1. hbw_available' = hbw_available
    BY <1>4 DEF hbwVars
  <2> QED
    BY <1>1, <1>4, <2>1, AvailNext
<1>5. CASE AutoCall
  BY <1>1, <1>5, AvailAutoCall, AutoCallApart
<1> QED
  BY <1>2, <1>3, <1>4, <1>5 DEF AutoNext, HbwNext

(* On every machine, and from whatever CPUs the threads call, the hbw      *)
(* interface on top of the static kinds behaves as HbwPolicy: the answer   *)
(* of memkind_check_available(MEMKIND_HBW) in hbw_choose_kind is the same  *)
(* whenever it is asked.                                                   *)
THEOREM InterfaceRefinesPolicy == AutoSpec => ImplementsPolicy
<1>1. AutoInit => Hbw!Init
  BY DEF AutoInit, HbwInit
<1> QED
  BY <1>1, AvailInit, StepRefines, PTL DEF AutoSpec, ImplementsPolicy, Hbw!Spec

(* What HbwPolicy promises of hbwmalloc.c therefore holds on every         *)
(* machine: allocations follow the one policy in force, an accepted policy *)
(* stays, and INTERLEAVE refuses 2 MB pages.                               *)
THEOREM PolicyOnMachines ==
    AutoSpec => [](Hbw!ServedByPolicy /\ Hbw!AcceptedHolds /\ Hbw!InterleaveRefuses)
BY InterfaceRefinesPolicy, PolicyServed, PolicyAccepted, InterleaveRefused, PTL DEF ImplementsPolicy

LEMMA MasksInit == AutoInit => MaskInv
<1> SUFFICES ASSUME AutoInit PROVE MaskInv
  OBVIOUS
<1>1. /\ machine \in Machines /\ misused = {} /\ DOMAIN g = {AllSlot}
      /\ g[AllSlot].err = "SUCCESS" /\ g[AllSlot].mask = [cpu \in Cpu |-> Node]
      /\ g[AllSlot].ptr = "live"
  BY DEF AutoInit, HbwInit, Init, AllSlot
<1> QED
  BY <1>1 DEF MaskInv, FreedInv

LEMMA MasksKept ==
    ASSUME MaskInv, PolicyInv, [AutoNext]_<<vars, hbwVars, autoVars>>
    PROVE  MaskInv'
<1>1. CASE UNCHANGED <<vars, hbwVars, autoVars>>
  BY <1>1, IdleKeeps DEF vars
<1> QED
  BY <1>1, NextKeepsMasks, HbwCallKeepsMasks, AutoCallKeepsMasks DEF AutoNext, HbwNext

(* On every machine, whatever calls a program makes in whatever order, no  *)
(* node mask of memkind_hbw.c, memkind_dax_kmem.c, memkind_capacity.c,     *)
(* memkind_local.c and memkind_regular.c is used after it was freed or     *)
(* freed twice, but for the two errors MasksLive names.                    *)
THEOREM MasksStayLive == AutoSpec => []MasksLive
<1>1. MaskInv => MasksLive
  BY DEF MaskInv, MasksLive, Excused
<1>2. AutoSpec => []PolicyInv
  BY InterfaceRefinesPolicy, PolicyInit, PolicyKept, PTL DEF ImplementsPolicy, Hbw!Spec
<1> QED
  BY <1>1, <1>2, MasksInit, MasksKept, PTL DEF AutoSpec

-----------------------------------------------------------------------------
(* The window of libautohbw.                                               *)

\* No size a program can ask for is above a limit that saturates.
LEMMA SaturatedIsBeyond ==
    ASSUME NEW limit \in Nat, limit > 0, NEW mult \in Nat \ {0}, NEW size \in Nat,
           size <= Word \div 2 - 1, Word \in Nat, Word > 1, limit >= (Word - 1) \div mult
    PROVE  size < limit * mult
<1> DEFINE q == (Word - 1) \div mult
<1>1. q \in Nat /\ Word - 1 < q * mult + mult
  BY SMTT(30)
<1> HIDE DEF q
<1>2. limit >= q
  BY DEF q
<1>3. q * mult <= limit * mult /\ mult <= limit * mult /\ limit * mult \in Nat /\ q * mult \in Nat
  <2>1. PICK d \in Nat : limit = q + d
    <3>1. limit - q \in Nat /\ limit = q + (limit - q)
      BY <1>1, <1>2, SMT
    <3> QED
      BY <3>1
  <2>2. (q + d) * mult = q * mult + d * mult /\ d * mult \in Nat /\ q * mult \in Nat
    BY <1>1, <2>1, SMT
  <2>3. PICK e \in Nat : limit = 1 + e
    <3>1. limit - 1 \in Nat /\ limit = 1 + (limit - 1)
      BY SMT
    <3> QED
      BY <3>1
  <2>4. (1 + e) * mult = mult + e * mult /\ e * mult \in Nat
    BY <2>3, SMT
  <2> QED
    BY <1>1, <2>1, <2>2, <2>3, <2>4, SMT
<1>4. PICK a, b : a = limit * mult /\ b = q * mult
  OBVIOUS
<1>5. a \in Nat /\ b \in Nat /\ b <= a /\ mult <= a /\ Word - 1 < b + mult
  BY <1>1, <1>3, <1>4
<1>6. Word <= 2 * a
  BY <1>5, SMT
<1>7. size + 1 <= Word \div 2 /\ 2 * (Word \div 2) <= Word
  BY SMTT(30)
<1>8. size < a
  BY <1>5, <1>6, <1>7, SMTT(30)
<1> QED
  BY <1>4, <1>8

\* A limit that does not saturate is not changed by the width of size_t.
LEMMA SmallIsExact ==
    ASSUME NEW limit \in Nat, NEW mult \in Nat \ {0}, Word \in Nat, Word > 1,
           limit < (Word - 1) \div mult
    PROVE  limit * mult \in 0 .. Word - 1
<1> DEFINE q == (Word - 1) \div mult
<1>1. q \in Nat /\ q * mult <= Word - 1
  BY SMT
<1> HIDE DEF q
<1>2. PICK d \in Nat : q = limit + d
  <2>1. q - limit \in Nat /\ q = limit + (q - limit)
    BY <1>1, SMT DEF q
  <2> QED
    BY <2>1
<1>3. (limit + d) * mult = limit * mult + d * mult /\ d * mult \in Nat /\ limit * mult \in Nat
  BY <1>2, SMT
<1> QED
  BY <1>1, <1>2, <1>3, SMT

\* getLimit gives the limit that is meant, or the largest size where that is out of reach.
LEMMA LimitMeant ==
    ASSUME NEW limit \in 0 .. Word - 1, NEW c \in {"G", "M", "K", "B"}, NEW size \in Size
    PROVE  \/ getLimit(limit, c) = limit * Multiplier[c]
           \/ getLimit(limit, c) = Word - 1 /\ size < limit * Multiplier[c]
<1> DEFINE mult == Multiplier[c]
<1>1. Word \in Nat /\ KB \in Nat \ {0} /\ KB * KB < Word /\ Size \subseteq 0 .. Word \div 2 - 1
  BY AutoHbwAssumption
<1>2. KB * KB \in Nat \ {0} /\ KB * KB * KB \in Nat \ {0}
  <2>1. \A x, y \in Nat \ {0} : x * y \in Nat \ {0}
    BY SMT
  <2> QED
    BY <1>1, <2>1
<1>3. mult \in Nat \ {0} /\ (c = "B" => mult = 1)
  BY <1>1, <1>2, SMT DEF Multiplier
<1>4. Word > 1 /\ limit \in Nat /\ size \in Nat /\ size <= Word \div 2 - 1
  BY <1>1, <1>2, SMT
<1>5. getLimit(limit, c) = IF limit > 0 /\ c # "B" /\ limit >= (Word - 1) \div mult
                           THEN Word - 1 ELSE (limit * mult) % Word
  BY DEF getLimit
<1> HIDE DEF mult
<1>6. \A x \in 0 .. Word - 1 : x % Word = x
  BY <1>1, SMT
<1>7. CASE limit > 0 /\ c # "B" /\ limit >= (Word - 1) \div mult
  <2>1. size < limit * mult
    BY <1>1, <1>3, <1>4, <1>7, SaturatedIsBeyond
  <2> QED
    BY <1>5, <1>7, <2>1 DEF mult
<1>8. CASE ~(limit > 0 /\ c # "B" /\ limit >= (Word - 1) \div mult)
  <2>1. limit * mult \in 0 .. Word - 1
    <3>1. CASE limit = 0
      BY <1>1, <1>3, <1>4, <3>1, SMT
    <3>2. CASE c = "B"
      BY <1>3, <3>2, SMT
    <3>3. CASE limit # 0 /\ c # "B"
      <4>1. limit < (Word - 1) \div mult
        BY <1>1, <1>3, <1>4, <1>8, <3>3, SMTT(30)
      <4> QED
        BY <1>1, <1>3, <1>4, <4>1, SmallIsExact
    <3> QED
      BY <3>1, <3>2, <3>3
  <2> QED
    BY <1>5, <1>6, <1>8, <2>1 DEF mult
<1> QED
  BY <1>7, <1>8

\* The limits of a size in AUTO_HBW_SIZE.
Lower == IF size_env = Null THEN KB * KB ELSE size_env.low * Multiplier[size_env.lowC]

Upper == size_env.high * Multiplier[size_env.highC]

Bounded == size_env # Null /\ size_env.high # Null

\* The limits in force are those, as far as a size can tell.
LimitsRight ==
    \A s \in Size :
      /\ HBWLowLimit = Lower \/ (HBWLowLimit = Word - 1 /\ s < Lower)
      /\ IF Bounded THEN HBWHighLimit = Upper \/ (HBWHighLimit = Word - 1 /\ s < Upper)
                    ELSE HBWHighLimit = Word - 1

\* A block from malloc; hbw_kind is settled before a block can be of it.
BlockInv ==
    block # Null =>
      /\ "how" \in DOMAIN block
      /\ block.how = "malloc" /\ block.want => load = "done"

WindowInv ==
    /\ size_env \in SizeEnv \cup {Null}
    /\ load \in {"absent", "start"} => HBWLowLimit = KB * KB /\ HBWHighLimit = Word - 1
    /\ load \in {"trying", "done"} => LimitsRight
    /\ BlockInv
    /\ WindowRespected

\* The naturals that the limits are.
LEMMA LimitTypes ==
    ASSUME WindowInv
    PROVE  /\ Word \in Nat /\ Word > 1 /\ Lower \in Nat
           /\ Bounded => Upper \in Nat
           /\ \A s \in Size : s \in Nat /\ s < Word - 1
<1>1. Word \in Nat /\ KB \in Nat \ {0} /\ KB * KB < Word /\ Size \subseteq 0 .. Word \div 2 - 1
  BY AutoHbwAssumption
<1>2. \A x, y \in Nat : x * y \in Nat
  BY SMT
<1>3. KB * KB \in Nat /\ KB * KB > 0
  BY <1>1, SMT
<1>4. Multiplier \in [{"G", "M", "K", "B"} -> Nat]
  BY <1>1, <1>2, SMT DEF Multiplier
<1>5. size_env # Null => Lower \in Nat /\ (Bounded => Upper \in Nat)
  <2> SUFFICES ASSUME size_env # Null PROVE Lower \in Nat /\ (Bounded => Upper \in Nat)
    OBVIOUS
  <2>1. size_env \in SizeEnv \ {Null}
    BY DEF WindowInv
  <2>2. /\ size_env.low \in Nat /\ size_env.lowC \in {"G", "M", "K", "B"}
        /\ size_env.high # Null => size_env.high \in Nat /\ size_env.highC \in {"G", "M", "K", "B"}
    BY <1>1, <2>1, AutoHbwAssumption, SMTT(30)
  <2> QED
    BY <1>2, <1>4, <2>2 DEF Lower, Upper, Bounded
<1>6. Word > 1
  BY <1>1, <1>3, SMT
<1>7. \A s \in Size : s \in Nat /\ s < Word - 1
  BY <1>1, <1>6, SMTT(30)
<1> QED
  BY <1>1, <1>3, <1>5, <1>6, <1>7 DEF Lower, Bounded

\* SetEnvSize sets the limits that AUTO_HBW_SIZE means.
LEMMA LimitsSet ==
    ASSUME WindowInv, load = "start", SetEnvSize, size_env' = size_env
    PROVE  LimitsRight'
<1>1. HBWLowLimit = KB * KB /\ HBWHighLimit = Word - 1
  BY DEF WindowInv
<1>2. Lower' = Lower /\ Upper' = Upper /\ Bounded' = Bounded
  BY DEF Lower, Upper, Bounded
<1>3. CASE size_env = Null
  BY <1>1, <1>2, <1>3 DEF SetEnvSize, LimitsRight, Lower, Bounded
<1>4. CASE size_env # Null
  <2>1. size_env \in SizeEnv \ {Null}
    BY <1>4 DEF WindowInv
  <2>2. /\ size_env.low \in 0 .. Word - 1 /\ size_env.lowC \in {"G", "M", "K", "B"}
        /\ Bounded => size_env.high \in 0 .. Word - 1 /\ size_env.highC \in {"G", "M", "K", "B"}
    BY <2>1, AutoHbwAssumption DEF Bounded
  <2>3. HBWLowLimit' = getLimit(size_env.low, size_env.lowC)
    BY <1>4 DEF SetEnvSize
  <2>4. \A s \in Size : HBWLowLimit' = Lower \/ (HBWLowLimit' = Word - 1 /\ s < Lower)
    BY <1>4, <2>2, <2>3, LimitMeant DEF Lower
  <2>5. CASE Bounded
    <3>1. HBWHighLimit' = getLimit(size_env.high, size_env.highC)
      BY <1>4, <2>5 DEF SetEnvSize, Bounded
    <3>2. \A s \in Size : HBWHighLimit' = Upper \/ (HBWHighLimit' = Word - 1 /\ s < Upper)
      BY <2>2, <2>5, <3>1, LimitMeant DEF Upper
    <3> QED
      BY <1>2, <2>4, <2>5, <3>2 DEF LimitsRight
  <2>6. CASE ~Bounded
    <3>1. HBWHighLimit' = getLimit((Word - 1) \div KB, "K")
      BY <1>1, <1>4, <2>6 DEF SetEnvSize, Bounded
    <3>2. Multiplier["K"] = KB
      BY DEF Multiplier
    <3>3. (Word - 1) \div KB > 0 /\ (Word - 1) \div KB >= (Word - 1) \div KB
      <4>1. Word \in Nat /\ KB \in Nat \ {0} /\ KB * KB < Word
        BY AutoHbwAssumption
      <4>2. KB <= KB * KB
        BY <4>1, SMTT(30)
      <4>3. KB <= Word - 1
        BY <4>1, <4>2, SMTT(30)
      <4>4. PICK w \in Nat : w = Word - 1
        BY <4>1, <4>3, SMT
      <4>5. w \div KB > 0 /\ w \div KB \in Nat
        BY <4>1, <4>3, <4>4, SMTT(30)
      <4> QED
        BY <4>4, <4>5, SMT
    <3>4. HBWHighLimit' = Word - 1
      BY <3>1, <3>2, <3>3 DEF getLimit
    <3> QED
      BY <1>2, <2>4, <2>6, <3>4 DEF LimitsRight
  <2> QED
    BY <2>5, <2>6
<1> QED
  BY <1>3, <1>4

\* malloc chooses hbw_kind strictly inside the window, and MEMKIND_DEFAULT outside it.
LEMMA MallocInWindow ==
    ASSUME WindowInv, NEW s \in Size
    PROVE  LET want == load = "done" /\ isAutoHBWEnabled
           IN  /\ want /\ Above(s) /\ Below(s) => isAllocInHBW(s)
               /\ ~want \/ ~AtLeast(s) \/ ~AtMost(s) => ~isAllocInHBW(s)
<1>1. /\ Word \in Nat /\ Word > 1 /\ Lower \in Nat
      /\ Bounded => Upper \in Nat
      /\ s \in Nat /\ s < Word - 1
  BY LimitTypes
<1>2. CASE ~(load = "done" /\ isAutoHBWEnabled)
  BY <1>2 DEF isAllocInHBW
<1>3. CASE load = "done" /\ isAutoHBWEnabled
  <2>1. /\ HBWLowLimit = Lower \/ (HBWLowLimit = Word - 1 /\ s < Lower)
        /\ IF Bounded THEN HBWHighLimit = Upper \/ (HBWHighLimit = Word - 1 /\ s < Upper)
                      ELSE HBWHighLimit = Word - 1
    BY <1>3 DEF WindowInv, LimitsRight
  <2>2. /\ Above(s) <=> s > Lower
        /\ AtLeast(s) <=> s + 1 > Lower
    BY DEF Above, AtLeast, Lower
  <2>3. /\ Below(s) <=> (Bounded => s < Upper)
        /\ AtMost(s) <=> (Bounded => s - 1 < Upper)
    BY DEF Below, AtMost, Upper, Bounded
  <2>4. isAllocInHBW(s) <=> HBWLowLimit <= s /\ s <= HBWHighLimit
    BY <1>3 DEF isAllocInHBW
  <2>5. Above(s) /\ Below(s) => isAllocInHBW(s)
    BY <1>1, <2>1, <2>2, <2>3, <2>4, SMTT(30)
  <2>6. ~AtLeast(s) => ~isAllocInHBW(s)
    BY <1>1, <2>1, <2>2, <2>4, SMT
  <2>7. ~AtMost(s) => ~isAllocInHBW(s)
    BY <1>1, <2>1, <2>3, <2>4, SMTT(30)
  <2> QED
    BY <1>3, <2>5, <2>6, <2>7
<1> QED
  BY <1>2, <1>3

\* Whatever leaves the library's own variables alone keeps the invariant.
LEMMA WindowStays ==
    ASSUME WindowInv, UNCHANGED <<load, size_env, hbw_kind, HBWLowLimit, HBWHighLimit, block>>
    PROVE  WindowInv'
<1>1. LimitsRight' <=> LimitsRight
  BY DEF LimitsRight, Lower, Upper, Bounded
<1>2. BlockInv' <=> BlockInv
  BY DEF BlockInv
<1>3. WindowRespected' <=> WindowRespected
  BY DEF WindowRespected, Above, Below, AtLeast, AtMost
<1> QED
  BY <1>1, <1>2, <1>3 DEF WindowInv

\* So does a block that malloc did not give.
LEMMA OtherBlockKeeps ==
    ASSUME WindowInv, UNCHANGED <<load, size_env, HBWLowLimit, HBWHighLimit>>,
           block' # Null => "how" \in DOMAIN block' /\ block'.how # "malloc"
    PROVE  WindowInv'
<1>1. LimitsRight' <=> LimitsRight
  BY DEF LimitsRight, Lower, Upper, Bounded
<1>2. BlockInv' /\ WindowRespected'
  BY DEF BlockInv, WindowRespected
<1> QED
  BY <1>1, <1>2 DEF WindowInv

LEMMA MallocKeepsWindow ==
    ASSUME WindowInv, NEW s \in Size, NEW cpu, NEW kernel, Malloc(s, cpu, kernel)
    PROVE  WindowInv'
<1>1. /\ UNCHANGED <<load, size_env, hbw_kind, HBWLowLimit, HBWHighLimit>>
      /\ block' = Block(KindFor(s), s, "malloc") \/ block' = block
  BY DEF Malloc, Obtain
<1>2. CASE block' = block
  BY <1>1, <1>2, WindowStays
<1>3. CASE block' = Block(KindFor(s), s, "malloc")
  <2>1. /\ "how" \in DOMAIN block' /\ block'.how = "malloc" /\ block'.size = s
        /\ block'.kind = KindFor(s)
        /\ block'.want <=> load = "done" /\ isAutoHBWEnabled
    BY <1>3 DEF Block
  <2>2. LimitsRight' <=> LimitsRight
    BY <1>1 DEF LimitsRight, Lower, Upper, Bounded
  <2>3. BlockInv'
    BY <1>1, <2>1 DEF BlockInv
  <2>4. /\ Above(s)' <=> Above(s)
        /\ Below(s)' <=> Below(s)
        /\ AtLeast(s)' <=> AtLeast(s)
        /\ AtMost(s)' <=> AtMost(s)
    BY <1>1 DEF Above, Below, AtLeast, AtMost
  <2>5. block'.want /\ Above(s)' /\ Below(s)' => block'.kind = hbw_kind'
    BY <1>1, <2>1, <2>4, MallocInWindow DEF KindFor
  <2>6. ~block'.want \/ ~AtLeast(s)' \/ ~AtMost(s)' => block'.kind = "DEFAULT"
    BY <2>1, <2>4, MallocInWindow DEF KindFor
  <2>7. WindowRespected'
    BY <2>1, <2>5, <2>6 DEF WindowRespected
  <2> QED
    BY <1>1, <2>2, <2>3, <2>7 DEF WindowInv
<1> QED
  BY <1>1, <1>2, <1>3

\* calloc, realloc and free.
LEMMA OthersKeepWindow ==
    ASSUME WindowInv, NEW s, NEW n, NEW cpu, NEW kernel,
           Calloc(n, s, cpu, kernel) \/ Realloc(s, cpu, kernel) \/ Free
    PROVE  WindowInv'
<1>1. UNCHANGED <<load, size_env, hbw_kind, HBWLowLimit, HBWHighLimit>>
  BY DEF Calloc, Realloc, Obtain, Free
<1>2. CASE block' = block
  BY <1>1, <1>2, WindowStays
<1>3. CASE block' # block
  <2>1. \/ \E k, z : block' = Block(k, z, "calloc")
        \/ \E k, z : block' = Block(k, z, "realloc")
        \/ block # Null /\ block' = [block EXCEPT !.size = s, !.how = "realloc"]
        \/ block' = Null
    BY <1>3 DEF Calloc, Realloc, Obtain, Free
  <2>2. block # Null => "how" \in DOMAIN block
    BY DEF WindowInv, BlockInv
  <2>3. block' # Null => "how" \in DOMAIN block' /\ block'.how # "malloc"
    <3>1. CASE block # Null /\ block' = [block EXCEPT !.size = s, !.how = "realloc"]
      <4>1. PICK b : b = [block EXCEPT !.size = s]
        OBVIOUS
      <4>2. DOMAIN b = DOMAIN block /\ block' = [b EXCEPT !.how = "realloc"]
        BY <3>1, <4>1
      <4>3. "how" \in DOMAIN b
        BY <2>2, <3>1, <4>2
      <4>4. DOMAIN block' = DOMAIN b /\ block'.how = "realloc"
        BY <4>2, <4>3
      <4> QED
        BY <4>3, <4>4
    <3> QED
      BY <2>1, <3>1, SMT DEF Block
  <2> QED
    BY <1>1, <2>3, OtherBlockKeeps
<1> QED
  BY <1>2, <1>3

\* The constructor: no block was given by the library before it is done.
LEMMA LoadKeepsWindow ==
    ASSUME WindowInv, load' # "start", load # "done", block' = block, size_env' = size_env,
           load' \in {"trying", "done"} => LimitsRight', load' # "absent"
    PROVE  WindowInv'
<1>1. block # Null => "how" \in DOMAIN block /\ (block.how = "malloc" => ~block.want)
  BY DEF WindowInv, BlockInv
<1>2. BlockInv'
  BY <1>1 DEF BlockInv
<1>3. WindowRespected'
  BY <1>1 DEF WindowInv, WindowRespected
<1> QED
  BY <1>2, <1>3 DEF WindowInv

LEMMA AutoCallKeepsWindow ==
    ASSUME WindowInv, AutoCall
    PROVE  WindowInv'
<1>1. ASSUME NEW cpu, AutohbwLoad(cpu) PROVE WindowInv'
  <2>1. load = "start" /\ load' = "trying" /\ SetEnvSize /\ UNCHANGED <<size_env, block>>
    BY <1>1 DEF AutohbwLoad
  <2>2. LimitsRight'
    BY <2>1, LimitsSet
  <2> QED
    BY <2>1, <2>2, LoadKeepsWindow
<1>2. ASSUME NEW cpu, NEW kernel, AutohbwTry(cpu, kernel) PROVE WindowInv'
  <2>1. /\ load = "trying" /\ load' \in {"done", "aborted"}
        /\ UNCHANGED <<size_env, HBWLowLimit, HBWHighLimit, block>>
    BY <1>2 DEF AutohbwTry
  <2>2. LimitsRight'
    BY <2>1 DEF WindowInv, LimitsRight, Lower, Upper, Bounded
  <2> QED
    BY <2>1, <2>2, LoadKeepsWindow
<1>3. ASSUME NEW b, SetEnabled(b) PROVE WindowInv'
  BY <1>3, WindowStays DEF SetEnabled
<1>4. ASSUME NEW s \in Size, NEW cpu, NEW kernel, Malloc(s, cpu, kernel) PROVE WindowInv'
  BY <1>4, MallocKeepsWindow
<1>5. ASSUME NEW s, NEW n, NEW cpu, NEW kernel,
             Calloc(n, s, cpu, kernel) \/ Realloc(s, cpu, kernel) \/ Free
      PROVE  WindowInv'
  BY <1>5, OthersKeepWindow
<1> QED
  BY <1>1, <1>2, <1>3, <1>4, <1>5 DEF AutoCall

LEMMA WindowInit == AutoInit => WindowInv
<1> SUFFICES ASSUME AutoInit PROVE WindowInv
  OBVIOUS
<1>1. /\ load \in {"absent", "start"} /\ size_env \in SizeEnv \cup {Null}
      /\ HBWLowLimit = KB * KB /\ HBWHighLimit = Word - 1 /\ block = Null
  BY DEF AutoInit
<1> QED
  BY <1>1 DEF WindowInv, BlockInv, WindowRespected

LEMMA WindowKept ==
    ASSUME WindowInv, [AutoNext]_<<vars, hbwVars, autoVars>>
    PROVE  WindowInv'
<1>1. CASE UNCHANGED autoVars
  BY <1>1, WindowStays DEF autoVars
<1> QED
  BY <1>1, AutoCallKeepsWindow DEF AutoNext

(* Whatever AUTO_HBW_SIZE says, in whatever multiples, and for every width *)
(* of size_t: malloc of autohbw.c takes hbw_kind strictly between the      *)
(* limits the manual describes and MEMKIND_DEFAULT outside them, before    *)
(* the constructor is done and while the library is disabled.              *)
THEOREM WindowHolds == AutoSpec => []WindowRespected
<1>1. WindowInv => WindowRespected
  BY DEF WindowInv
<1> QED
  BY <1>1, WindowInit, WindowKept, PTL DEF AutoSpec
===============================================================================
