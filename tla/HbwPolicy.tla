------------------------------- MODULE HbwPolicy -------------------------------
(***************************************************************************)
(* The policy of the hbw interface (src/src/hbwmalloc.c): it is fixed      *)
(* once, by the first hbw_set_policy or by the first allocation, and each  *)
(* page size keeps the kind that was chosen for it.                        *)
(*                                                                         *)
(* pthread_once makes the assignment of hbw_policy_g one step; all other   *)
(* accesses to hbw_policy_g and pagesize_kind are not synchronised.        *)
(* hbw_available is what memkind_check_available(MEMKIND_HBW) returns.     *)
(***************************************************************************)
EXTENDS Naturals, FiniteSets

CONSTANTS
    Thread,
    PageSize,    \* "4KB", "2MB" and "1GB"; 1GB and its strict form are served as 4KB
    Null

Policy == {"BIND", "BIND_ALL", "PREFERRED", "INTERLEAVE"}

VARIABLES
    hbw_available,
    hbw_policy,      \* hbw_policy_g
    once,            \* hbw_policy_once_g has run
    pagesize_kind,
    call,            \* the call each thread is in
    accepted,        \* modes for which hbw_set_policy has returned 0
    served           \* the allocations made: page size, kind, and whether the
                     \* policy was fixed when the call began

vars == <<hbw_available, hbw_policy, once, pagesize_kind, call, accepted, served>>

Idle == [pc |-> "idle", pagesize |-> "4KB", mode |-> "PREFERRED", fixed |-> FALSE]

Init ==
    /\ hbw_available \in BOOLEAN
    /\ hbw_policy = "PREFERRED"
    /\ once = FALSE
    /\ pagesize_kind = [p \in PageSize |-> Null]
    /\ call = [t \in Thread |-> Idle]
    /\ accepted = {}
    /\ served = {}

\* pthread_once(&hbw_policy_once_g, hbw_policy_.._init)
Once(mode) ==
    /\ hbw_policy' = IF once THEN hbw_policy ELSE mode
    /\ once' = TRUE

\* hbw_set_policy returns EPERM, and nothing is recorded, when the policy is another one.
SetPolicy(t, mode) ==
    /\ call[t].pc = "idle"
    /\ Once(mode)
    /\ \/ /\ hbw_policy' = mode
          /\ accepted' = accepted \cup {mode}
       \/ hbw_policy' # mode /\ UNCHANGED accepted
    /\ UNCHANGED <<pagesize_kind, call, served>>

-----------------------------------------------------------------------------
\* hbw_malloc, hbw_calloc, hbw_realloc and hbw_posix_memalign use 4KB;
\* hbw_posix_memalign_psize returns EINVAL for 2MB with INTERLEAVE.
Request(t, pagesize) ==
    /\ call[t].pc = "idle"
    /\ ~(pagesize = "2MB" /\ hbw_policy = "INTERLEAVE")
    /\ call' = [call EXCEPT ![t].pc = "get_kind", ![t].pagesize = pagesize, ![t].fixed = once]
    /\ UNCHANGED <<hbw_policy, once, pagesize_kind, accepted, served>>

GetKind(t) ==
    /\ call[t].pc = "get_kind"
    /\ call' = IF pagesize_kind[call[t].pagesize] # Null
               THEN [call EXCEPT ![t].pc = "malloc"]
               ELSE [call EXCEPT ![t].pc = "fix_policy", ![t].mode = hbw_policy]
    /\ UNCHANGED <<hbw_policy, once, pagesize_kind, accepted, served>>

\* hbw_set_policy(hbw_policy_g) in hbw_choose_kind, with the policy read before.
FixPolicy(t) ==
    /\ call[t].pc = "fix_policy"
    /\ Once(call[t].mode)
    /\ call' = [call EXCEPT ![t].pc = "choose"]
    /\ UNCHANGED <<pagesize_kind, accepted, served>>

\* A mutant: no fallback to ordinary memory.
KindForHbwOnly(policy, pagesize, available) ==
    CASE policy = "BIND" -> IF pagesize = "2MB" THEN "HBW_HUGETLB" ELSE "HBW"
      [] policy = "BIND_ALL" -> IF pagesize = "2MB" THEN "HBW_ALL_HUGETLB" ELSE "HBW_ALL"
      [] policy = "INTERLEAVE" -> IF pagesize = "2MB" THEN "HBW_HUGETLB" ELSE "HBW_INTERLEAVE"
      [] OTHER -> IF pagesize = "2MB" THEN "HBW_PREFERRED_HUGETLB" ELSE "HBW_PREFERRED"

\* The kind for a policy and a page size.
KindFor(policy, pagesize, available) ==
    CASE policy = "BIND" -> IF pagesize = "2MB" THEN "HBW_HUGETLB" ELSE "HBW"
      [] policy = "BIND_ALL" -> IF pagesize = "2MB" THEN "HBW_ALL_HUGETLB" ELSE "HBW_ALL"
      [] policy = "INTERLEAVE" -> IF pagesize = "2MB" THEN "HBW_HUGETLB" ELSE "HBW_INTERLEAVE"
      [] policy = "PREFERRED" /\ available ->
            IF pagesize = "2MB" THEN "HBW_PREFERRED_HUGETLB" ELSE "HBW_PREFERRED"
      [] OTHER -> IF pagesize = "2MB" THEN "HUGETLB" ELSE "DEFAULT"

ChooseKind(t) ==
    /\ call[t].pc = "choose"
    /\ pagesize_kind' = [pagesize_kind EXCEPT
                           ![call[t].pagesize] = KindFor(hbw_policy, call[t].pagesize, hbw_available)]
    /\ call' = [call EXCEPT ![t].pc = "malloc"]
    /\ UNCHANGED <<hbw_policy, once, accepted, served>>

\* memkind_malloc and the others, with the kind that hbw_get_kind reads again.
Malloc(t) ==
    /\ call[t].pc = "malloc"
    /\ served' = served \cup {[pagesize |-> call[t].pagesize, fixed |-> call[t].fixed,
                               kind |-> pagesize_kind[call[t].pagesize]]}
    /\ call' = [call EXCEPT ![t] = Idle]
    /\ UNCHANGED <<hbw_policy, once, pagesize_kind, accepted>>

Step(t) ==
    \/ \E mode \in Policy : SetPolicy(t, mode)
    \/ \E p \in PageSize : Request(t, p)
    \/ GetKind(t) \/ FixPolicy(t) \/ ChooseKind(t) \/ Malloc(t)

Next == (\E t \in Thread : Step(t)) /\ UNCHANGED hbw_available

Spec == Init /\ [][Next]_vars

-----------------------------------------------------------------------------
(* Whatever the races between the first allocations and hbw_set_policy,    *)
(* every allocation of a page size comes from one kind, the one for the    *)
(* policy that hbw_get_policy reports.                                     *)
ServedByPolicy == \A s \in served : s.kind = KindFor(hbw_policy, s.pagesize, hbw_available)

(* A caller whose hbw_set_policy returned 0 has its policy for good, also  *)
(* when other threads set another one or allocate at the same time.        *)
AcceptedHolds == \A mode \in accepted : hbw_policy = mode

(* hbw_posix_memalign_psize serves 2 MB pages under HBW_POLICY_INTERLEAVE, *)
(* which it documents as unsupported, only to a call that looked at the    *)
(* policy before it was fixed: the test is not repeated once it is.        *)
InterleaveRefuses ==
    \A s \in served : (s.pagesize = "2MB" /\ s.fixed) => hbw_policy # "INTERLEAVE"
================================================================================
