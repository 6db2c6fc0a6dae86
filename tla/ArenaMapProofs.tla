--------------------------- MODULE ArenaMapProofs ---------------------------
(***************************************************************************)
(* Proofs about ArenaMap.  That the registry only knows arenas that exist  *)
(* holds whatever fails.  What is said about blocks is about the case in   *)
(* which all kinds have blocks of one length L (every kind of the library  *)
(* takes its length from the same environment variable or processor count) *)
(* and "arenas.create" fails for no other reason than that the indices are *)
(* used up.                                                                *)
(***************************************************************************)
EXTENDS ArenaMap, SequenceTheorems, TLAPS

\* Zenon is the default prover; a step it does not find names SMT.
USE ZenonT(30)

(* Position n relative to runs of length L; left unexpanded except in the  *)
(* first lemmas.                                                           *)
Offset(n, L) == n % L

(* All blocks have length L.                                               *)
Uniform(L) == \A k \in Kind : MapLen[k] = L

(* The list of destroyed arenas consists of runs of L ascending indices:   *)
(* an entry that does not start a run follows its predecessor.             *)
Runs(L) ==
  \A j \in 1 .. Len(destroyed) :
    Offset(j - 1, L) # 0 => destroyed[j] = destroyed[j - 1] + 1

(* An index of the list can be given out: it names no arena, it was given  *)
(* out before, and it is in the list once.                                 *)
ListIsFree ==
  /\ \A j \in 1 .. Len(destroyed) :
       destroyed[j] \notin initialized /\ destroyed[j] < narenas
  /\ \A j, m \in 1 .. Len(destroyed) : destroyed[j] = destroyed[m] => j = m
  /\ \A a \in initialized : a < narenas

(* Arenas arena_zero[k] + from .. arena_zero[k] + to are those of k.       *)
Has(k, from, to) ==
  \A h \in from .. to : /\ arena_zero[k] + h \in initialized
                        /\ arena_registry[arena_zero[k] + h] = k

(* The loop of memkind_arena_create_map after i iterations.  Either it     *)
(* takes a run from the end of the list, downwards, or the list is empty   *)
(* and it takes new indices, upwards.                                      *)
CreateLoop(k, L) ==
  /\ i <= L
  /\ i = 0 => arena_zero[k] = UINT_MAX /\ Offset(Len(destroyed), L) = 0
  /\ i > 0 =>
       /\ Has(k, 0, i - 1)
       /\ \/ /\ Offset(Len(destroyed), L) = L - i
             /\ i < L => destroyed[Len(destroyed)] = arena_zero[k] - 1
          \/ /\ destroyed = << >>
             /\ narenas = arena_zero[k] + i

(* The loop of memkind_arena_destroy after i iterations: the first i       *)
(* arenas of the block are at the end of the list.                         *)
DestroyLoop(k, L) ==
  /\ i <= L
  /\ Has(k, i, L - 1)
  /\ \A h \in 0 .. i - 1 : arena_zero[k] + h \notin initialized
  /\ IF i = L THEN Offset(Len(destroyed), L) = 0 ELSE Offset(Len(destroyed), L) = i
  /\ 0 < i /\ i < L => destroyed[Len(destroyed)] = arena_zero[k] + i - 1

(* Between destroying arena i of the block and clearing its entry.         *)
UnregisterLoop(k, L) ==
  /\ i < L
  /\ Has(k, i + 1, L - 1)
  /\ arena_zero[k] + i \in Index
  /\ \A h \in 0 .. i : arena_zero[k] + h \notin initialized
  /\ arena_registry[arena_zero[k] + i] = k
  /\ Offset(Len(destroyed), L) = IF i = L - 1 THEN 0 ELSE i + 1
  /\ Len(destroyed) > 0
  /\ destroyed[Len(destroyed)] = arena_zero[k] + i

LockHolder ==
  \A k \in Kind :
    phase[k] \in {"creating", "destroying", "unregistering"} <=> write_lock = k

Ready(L) == \A k \in Kind : phase[k] = "ready" => Has(k, 0, L - 1)

Loops(L) ==
  /\ write_lock = NULL => Offset(Len(destroyed), L) = 0
  /\ \A k \in Kind : /\ phase[k] = "creating" => CreateLoop(k, L)
                     /\ phase[k] = "destroying" => DestroyLoop(k, L)
                     /\ phase[k] = "unregistering" => UnregisterLoop(k, L)

(* The inductive invariant of the runs without other failures.             *)
IInv(L) ==
  /\ TypeOK
  /\ LockHolder
  /\ ListIsFree
  /\ RegisteredExist
  /\ Runs(L)
  /\ Ready(L)
  /\ Loops(L)

-----------------------------------------------------------------------------
(* Arithmetic of offsets.                                                  *)

(* An offset lies below L, and that of 0 is 0.                             *)
LEMMA OffsetRange ==
  ASSUME NEW L \in Nat \ {0}, NEW n \in Nat
  PROVE  Offset(n, L) \in 0 .. L - 1 /\ Offset(0, L) = 0
  BY SMT DEF Offset

(* The offset of L * q + r is r.                                           *)
LEMMA OffsetUnique ==
  ASSUME NEW L \in Nat \ {0}, NEW q \in Nat, NEW r \in 0 .. L - 1
  PROVE  Offset(L * q + r, L) = r
  BY SMTT(30) DEF Offset

(* Division with remainder.                                                *)
LEMMA OffsetDef ==
  ASSUME NEW L \in Nat \ {0}, NEW n \in Nat
  PROVE  \E q \in Nat : n = L * q + Offset(n, L)
<1>1. n = L * (n \div L) + (n % L)
  BY SMT
<1>2. n \div L \in Nat
  BY SMT
<1> QED
  BY <1>1, <1>2 DEF Offset

(* The offset of the successor: one more, or back to 0.                    *)
LEMMA OffsetSucc ==
  ASSUME NEW L \in Nat \ {0}, NEW n \in Nat
  PROVE  Offset(n + 1, L) = IF Offset(n, L) = L - 1 THEN 0 ELSE Offset(n, L) + 1
<1>1. PICK q \in Nat : n = L * q + Offset(n, L)
  BY OffsetDef
<1>2. Offset(n, L) \in 0 .. L - 1
  BY OffsetRange
<1>3. CASE Offset(n, L) = L - 1
  <2>1. n + 1 = L * (q + 1) + 0
    BY <1>1, <1>3, SMT
  <2>2. q + 1 \in Nat /\ 0 \in 0 .. L - 1
    BY SMT
  <2> QED
    BY <1>3, <2>1, <2>2, OffsetUnique
<1>4. CASE Offset(n, L) # L - 1
  <2>1. n + 1 = L * q + (Offset(n, L) + 1)
    BY <1>1, <1>2, SMT
  <2>2. Offset(n, L) + 1 \in 0 .. L - 1
    BY <1>2, <1>4, SMT
  <2> QED
    BY <1>4, <2>1, <2>2, OffsetUnique
<1> QED
  BY <1>3, <1>4

(* The offset of the predecessor.                                          *)
LEMMA OffsetPred ==
  ASSUME NEW L \in Nat \ {0}, NEW n \in Nat \ {0}
  PROVE  Offset(n - 1, L) = IF Offset(n, L) = 0 THEN L - 1 ELSE Offset(n, L) - 1
<1>1. n - 1 \in Nat /\ (n - 1) + 1 = n
  BY SMT
<1>2. Offset(n, L) = IF Offset(n - 1, L) = L - 1 THEN 0 ELSE Offset(n - 1, L) + 1
  BY <1>1, OffsetSucc
<1>3. Offset(n - 1, L) \in 0 .. L - 1
  BY <1>1, OffsetRange
<1> QED
  BY <1>2, <1>3, SMT

-----------------------------------------------------------------------------
(* The initial state has the types.                                        *)
LEMMA InitTypes == ASSUME Init PROVE TypeOK
<1>1. destroyed \in Seq(Index)
  BY EmptySeq DEF Init
<1>2. narenas \in FirstManual .. ArenaLimit /\ i \in Nat /\ initialized \in SUBSET Index
  BY ArenaMapAssumption, SMT DEF Init
<1>3. arena_registry \in [Index -> Kind \cup {NULL}] /\ write_lock \in Kind \cup {NULL}
  BY DEF Init
<1>4. arena_zero \in [Kind -> 0 .. UINT_MAX] /\ phase \in [Kind -> Phase]
  BY ArenaMapAssumption, SMT DEF Init, UINT_MAX, Phase
<1>5. aborted \in BOOLEAN
  BY DEF Init
<1> QED
  BY <1>1, <1>2, <1>3, <1>4, <1>5 DEF TypeOK

(* The invariant holds initially.                                          *)
LEMMA InitIInv ==
  ASSUME NEW L \in Nat \ {0}, Uniform(L)
  PROVE  Init => IInv(L)
<1> SUFFICES ASSUME Init PROVE IInv(L)
  OBVIOUS
<1>1. Offset(0, L) = 0
  BY OffsetRange
<1>2. TypeOK
  BY InitTypes
<1>3. LockHolder /\ ListIsFree /\ RegisteredExist /\ Runs(L) /\ Ready(L)
  BY ArenaMapAssumption, SMT
     DEF Init, LockHolder, ListIsFree, RegisteredExist, Runs, Ready
<1>4. Loops(L)
  BY <1>1 DEF Init, Loops
<1> QED
  BY <1>2, <1>3, <1>4 DEF IInv

(* Taking the lock to create the arena map of a kind.                      *)
LEMMA CreateBeginIInv ==
  ASSUME NEW L \in Nat \ {0}, Uniform(L), NEW k \in Kind, IInv(L), CreateBegin(k)
  PROVE  IInv(L)'
<1> USE DEF CreateBegin
<1>1. TypeOK'
  BY ArenaMapAssumption, SMT DEF IInv, TypeOK, Phase, UINT_MAX
<1>2. LockHolder'
  BY ArenaMapAssumption DEF IInv, TypeOK, LockHolder
<1>3. ListIsFree' /\ RegisteredExist' /\ Runs(L)'
  <2>1. \A m \in Kind : phase[m] # "unregistering"
    BY ArenaMapAssumption DEF IInv, LockHolder
  <2> QED
    BY <2>1 DEF IInv, ListIsFree, RegisteredExist, Runs
<1>4. Ready(L)'
  BY DEF IInv, TypeOK, Ready, Has
<1>5. Loops(L)'
  <2>1. \A m \in Kind : m # k => phase'[m] \notin {"creating", "destroying", "unregistering"}
    BY ArenaMapAssumption DEF IInv, LockHolder, TypeOK
  <2>2. phase'[k] = "creating" /\ CreateLoop(k, L)'
    BY ArenaMapAssumption, SMT DEF IInv, Loops, CreateLoop, TypeOK
  <2> QED
    BY <2>1, <2>2, ArenaMapAssumption DEF Loops
<1> QED
  BY <1>1, <1>2, <1>3, <1>4, <1>5 DEF IInv

(* The loop is left, on success or on error.                               *)
LEMMA CreateEndIInv ==
  ASSUME NEW L \in Nat \ {0}, Uniform(L), NEW k \in Kind, IInv(L), CreateEnd(k)
  PROVE  IInv(L)'
<1> USE DEF CreateEnd
<1>1. TypeOK'
  BY DEF IInv, TypeOK, Phase
<1>2. LockHolder'
  BY ArenaMapAssumption DEF IInv, TypeOK, LockHolder
<1>3. ListIsFree' /\ RegisteredExist' /\ Runs(L)'
  BY SMT DEF IInv, ListIsFree, RegisteredExist, Runs
<1>4. i = L /\ CreateLoop(k, L)
  BY DEF IInv, Loops, Uniform
<1>5. Ready(L)'
  <2>1. Has(k, 0, L - 1)
    BY <1>4, SMT DEF CreateLoop
  <2> QED
    BY <2>1 DEF IInv, TypeOK, Ready, Has
<1>6. Loops(L)'
  <2>1. \A m \in Kind : phase'[m] \notin {"creating", "destroying", "unregistering"}
    BY DEF IInv, LockHolder, TypeOK
  <2>2. Offset(Len(destroyed), L) = 0
    <3>1. Offset(0, L) = 0
      BY OffsetRange
    <3> QED
      BY <1>4, <3>1, SMT DEF CreateLoop
  <2> QED
    BY <2>1, <2>2 DEF Loops
<1> QED
  BY <1>1, <1>2, <1>3, <1>5, <1>6 DEF IInv
(* The error path taken when the indices are used up: the list is empty.   *)
LEMMA CreateFailsIInv ==
  ASSUME NEW L \in Nat \ {0}, Uniform(L), ~may_fail, NEW k \in Kind, IInv(L),
         CreateFails(k)
  PROVE  IInv(L)'
<1> USE DEF CreateFails, CreateError
<1>1. destroyed = << >> /\ UNCHANGED << destroyed, narenas >>
  <2>1. NextIndex = ArenaLimit
    OBVIOUS
  <2>2. ASSUME destroyed # << >> PROVE FALSE
    <3>1. Len(destroyed) \in 1 .. Len(destroyed)
      BY <2>2, SMT DEF IInv, TypeOK
    <3>2. destroyed[Len(destroyed)] \in Index
      BY <3>1, ElementOfSeq DEF IInv, TypeOK
    <3> QED
      BY <2>1, <2>2, <3>2, ArenaMapAssumption, SMT DEF NextIndex, Index
  <2> QED
    BY <2>2 DEF TakeIndex
<1>2. TypeOK'
  <2>1. aborted' \in BOOLEAN
    BY SMT
  <2> QED
    BY <1>1, <2>1 DEF IInv, TypeOK, Phase
<1>3. LockHolder'
  BY ArenaMapAssumption DEF IInv, TypeOK, LockHolder
<1>4. ListIsFree' /\ RegisteredExist' /\ Runs(L)'
  BY <1>1, SMT DEF IInv, ListIsFree, RegisteredExist, Runs
<1>5. Ready(L)'
  BY DEF IInv, TypeOK, Ready, Has
<1>6. Loops(L)'
  <2>1. \A m \in Kind : phase'[m] \notin {"creating", "destroying", "unregistering"}
    BY DEF IInv, LockHolder, TypeOK
  <2>2. Offset(Len(destroyed'), L) = 0
    BY <1>1, OffsetRange
  <2> QED
    BY <2>1, <2>2 DEF Loops
<1> QED
  BY <1>2, <1>3, <1>4, <1>5, <1>6 DEF IInv

(* One more arena.  Its index comes from the end of the list, where it is  *)
(* the predecessor of the previous one, or is the next new index.          *)
LEMMA CreateArenaIInv ==
  ASSUME NEW L \in Nat \ {0}, Uniform(L), NEW k \in Kind, IInv(L), CreateArena(k)
  PROVE  IInv(L)'
<1> DEFINE idx == NextIndex
           n == Len(destroyed)
<1>a. /\ write_lock = k /\ phase[k] = "creating" /\ idx < ArenaLimit
      /\ TakeIndex(TRUE) /\ i' = i + 1
      /\ initialized' = initialized \cup {idx}
      /\ arena_registry' = [arena_registry EXCEPT ![idx] = k]
      /\ arena_zero' = [arena_zero EXCEPT ![k] = IF @ > idx THEN idx ELSE @]
      /\ UNCHANGED << write_lock, phase, aborted >>
  BY DEF CreateArena
<1>0. /\ TypeOK /\ LockHolder /\ ListIsFree /\ RegisteredExist
      /\ Runs(L) /\ Ready(L) /\ CreateLoop(k, L) /\ i < L /\ i \in Nat
  BY DEF IInv, Loops, Uniform, CreateArena, TypeOK
<1>1. n \in Nat /\ destroyed \in [1 .. n -> Index]
  BY <1>0, LenProperties DEF TypeOK
<1>2. CASE destroyed # << >>
  <2>1. n > 0 /\ idx = destroyed[n] /\ idx \in Index /\ UNCHANGED narenas
    BY <1>a, <1>1, <1>2, <1>0, SMT DEF NextIndex, TakeIndex, TypeOK
  <2>2. /\ destroyed' \in Seq(Index)
        /\ Len(destroyed') = n - 1
        /\ \A j \in 1 .. n - 1 : destroyed'[j] = destroyed[j]
    <3>1. destroyed' = SubSeq(destroyed, 1, n - 1)
      BY <1>a, <1>2 DEF TakeIndex
    <3>2. \A j \in 1 .. n - 1 : destroyed[j] \in Index
      BY <1>1, SMT
    <3>3. 1 \in Int /\ n - 1 \in Int
      BY <1>1, SMT
    <3>4. /\ SubSeq(destroyed, 1, n - 1) \in Seq(Index)
          /\ Len(SubSeq(destroyed, 1, n - 1)) = IF 1 <= n - 1 THEN n - 1 - 1 + 1 ELSE 0
          /\ \A j \in 1 .. n - 1 - 1 + 1 : SubSeq(destroyed, 1, n - 1)[j] = destroyed[1 + j - 1]
      BY <3>2, <3>3, SubSeqProperties, SMT
    <3> QED
      BY <3>1, <3>4, <2>1, <1>1, SMT
  <2>3. idx \notin initialized /\ \A j \in 1 .. n - 1 : destroyed[j] # idx
    BY <1>0, <1>1, <2>1, SMT DEF ListIsFree
  <2>4. i > 0 => idx = arena_zero[k] - 1
    BY <1>0, <1>2, <2>1 DEF CreateLoop
  <2>5. arena_zero' = [arena_zero EXCEPT ![k] = idx]
    <3>1. arena_zero[k] \in Nat /\ idx \in Nat
      BY <1>0, <2>1, ArenaMapAssumption, SMT DEF TypeOK, UINT_MAX, Index
    <3>2. arena_zero[k] > idx
      BY <3>1, <1>0, <1>a, <2>4, SMT DEF CreateLoop, UINT_MAX
    <3> QED
      BY <3>2, <1>a
  <2>6. TypeOK'
    <3>1. idx \in 0 .. UINT_MAX
      BY <2>1, ArenaMapAssumption, SMT DEF Index, UINT_MAX
    <3>2. arena_zero' \in [Kind -> 0 .. UINT_MAX]
      BY <3>1, <2>5, <1>0 DEF TypeOK
    <3>3. initialized' \in SUBSET Index /\ arena_registry' \in [Index -> Kind \cup {NULL}]
      BY <1>a, <1>0, <2>1 DEF TypeOK
    <3>4. i' \in Nat
      BY <1>a, <1>0, SMT
    <3> QED
      BY <1>a, <1>0, <2>1, <2>2, <3>2, <3>3, <3>4 DEF TypeOK
  <2>7. LockHolder'
    BY <1>a, <1>0 DEF LockHolder
  <2>8. ListIsFree'
    <3>1. initialized' = initialized \cup {idx} /\ narenas' = narenas
      BY <1>a, <2>1
    <3>2. \A j \in 1 .. n - 1 : j \in 1 .. n /\ destroyed'[j] = destroyed[j]
      BY <1>1, <2>2, SMT
    <3>3. \A j \in 1 .. n - 1 : destroyed'[j] \notin initialized' /\ destroyed'[j] < narenas'
      BY <1>0, <2>3, <3>1, <3>2 DEF ListIsFree
    <3>4. \A j, m \in 1 .. n - 1 : destroyed'[j] = destroyed'[m] => j = m
      BY <1>0, <3>2 DEF ListIsFree
    <3>5. \A a \in initialized' : a < narenas'
      BY <1>0, <1>1, <2>1, <3>1, SMT DEF ListIsFree
    <3> QED
      BY <2>2, <3>3, <3>4, <3>5 DEF ListIsFree
  <2>9. RegisteredExist'
    <3>1. \A m \in Kind : phase[m] # "unregistering"
      BY <1>a, <1>0 DEF LockHolder
    <3> QED
      BY <3>1, <1>a, <1>0, <2>1 DEF RegisteredExist, TypeOK
  <2>10. Runs(L)'
    <3>1. ASSUME NEW j \in 1 .. n - 1, Offset(j - 1, L) # 0
          PROVE  destroyed'[j] = destroyed'[j - 1] + 1
      <4>1. j - 1 # 0
        BY <3>1, OffsetRange
      <4>2. j \in 1 .. n /\ j - 1 \in 1 .. n - 1
        BY <4>1, <1>1, SMT
      <4> QED
        BY <3>1, <4>2, <1>0, <2>2 DEF Runs
    <3> QED
      BY <3>1, <2>2 DEF Runs
  <2>11. Ready(L)'
    BY <1>a, <1>0, <2>3, <2>5, SMT DEF Ready, Has, TypeOK
  <2>12. CreateLoop(k, L)'
    <3>1. Has(k, 0, i - 1)'
      <4>1. arena_zero'[k] = idx
        BY <1>0, <2>5 DEF TypeOK
      <4>2. idx \in initialized' /\ arena_registry'[idx] = k
        BY <1>a, <1>0, <2>1 DEF TypeOK
      <4>3. ASSUME NEW h \in 1 .. i
            PROVE  idx + h \in initialized' /\ arena_registry'[idx + h] = k
        <5>1. idx + h = arena_zero[k] + (h - 1) /\ h - 1 \in 0 .. i - 1 /\ i > 0
          <6>1. i > 0 /\ idx \in Nat /\ arena_zero[k] \in Nat
            BY <1>0, <2>1, ArenaMapAssumption, SMT DEF TypeOK, UINT_MAX, Index
          <6> QED
            BY <6>1, <1>0, <2>4, SMT
        <5>2. arena_zero[k] + (h - 1) \in initialized
              /\ arena_registry[arena_zero[k] + (h - 1)] = k
          BY <5>1, <1>0 DEF CreateLoop, Has
        <5> QED
          BY <5>1, <5>2, <1>a, <1>0, <2>1 DEF TypeOK
      <4>4. i \in Nat /\ i' \in Nat /\ i' = i + 1 /\ idx \in Nat
        BY <1>a, <1>0, <2>1, SMT DEF TypeOK, Index
      <4>5. ASSUME NEW h \in 0 .. i' - 1
            PROVE  idx + h \in initialized' /\ arena_registry'[idx + h] = k
        <5>1. h = 0 \/ h \in 1 .. i
          BY <4>4, SMT
        <5>2. idx + 0 = idx
          BY <4>4, SMT
        <5> QED
          BY <5>1, <5>2, <4>2, <4>3
      <4> QED
        BY <4>1, <4>5 DEF Has
    <3>2. Offset(n, L) = IF i = 0 THEN 0 ELSE L - i
      BY <1>0, <1>2, SMT DEF CreateLoop, TypeOK
    <3>3. Offset(n - 1, L) = L - (i + 1)
      BY <3>2, <1>1, <2>1, <1>0, OffsetPred, SMTT(30) DEF TypeOK
    <3>4. ASSUME i + 1 < L
          PROVE  destroyed'[n - 1] = idx - 1
      <4>1. Offset(n - 1, L) # 0
        BY <3>3, <3>4, <1>0, SMT DEF TypeOK
      <4>2. n - 1 # 0
        BY <4>1, OffsetRange
      <4>3. destroyed[n] = destroyed[n - 1] + 1
        <5>1. n \in 1 .. n
          BY <2>1, <1>1, SMT
        <5> QED
          BY <5>1, <4>1, <1>0 DEF Runs
      <4>4. n - 1 \in 1 .. n - 1 /\ n - 1 \in 1 .. n
        BY <4>2, <1>1, <2>1, SMT
      <4>5. destroyed[n - 1] \in Int
        BY <4>4, <1>1, SMT DEF Index
      <4> QED
        BY <4>3, <4>4, <4>5, <2>1, <2>2, SMT
    <3>5. arena_zero'[k] = idx /\ i' = i + 1 /\ i \in Nat
      BY <1>a, <1>0, <2>5 DEF TypeOK
    <3> QED
      BY <3>1, <3>3, <3>4, <3>5, <1>0, <2>2, SMT DEF CreateLoop
  <2>13. Loops(L)'
    BY <2>12, <1>a, <1>0, ArenaMapAssumption DEF Loops, LockHolder
  <2> QED
    BY <2>6, <2>7, <2>8, <2>9, <2>10, <2>11, <2>13 DEF IInv
<1>3. CASE destroyed = << >>
  <2>1. idx = narenas /\ idx \in Index /\ narenas' = narenas + 1 /\ destroyed' = destroyed
    BY <1>a, <1>3, <1>0, ArenaMapAssumption, SMT DEF NextIndex, TakeIndex, TypeOK, Index
  <2>2. n = 0
    BY <1>3
  <2>3. idx \notin initialized
    BY <1>0, <2>1, SMT DEF ListIsFree, TypeOK, Index
  <2>4. i > 0 => narenas = arena_zero[k] + i
    BY <1>0, <1>3, <2>2, OffsetRange, SMTT(30) DEF CreateLoop, TypeOK
  <2>5. /\ arena_zero' \in [Kind -> 0 .. UINT_MAX]
        /\ \A m \in Kind : m # k => arena_zero'[m] = arena_zero[m]
        /\ arena_zero'[k] = IF i = 0 THEN narenas ELSE arena_zero[k]
        /\ i' = i + 1 /\ i \in Nat /\ narenas \in Nat
        /\ arena_zero'[k] + i = narenas
        /\ arena_zero'[k] \in Nat
    <3>1. arena_zero[k] \in Nat /\ narenas \in Nat
      BY <1>0, ArenaMapAssumption, SMT DEF TypeOK, UINT_MAX
    <3>2. arena_zero[k] > idx <=> i = 0
      BY <3>1, <1>0, <1>a, <2>1, <2>4, SMTT(30) DEF CreateLoop, UINT_MAX
    <3>3. arena_zero' = [arena_zero EXCEPT ![k] = IF i = 0 THEN narenas ELSE @]
      BY <3>2, <1>a, <2>1
    <3> QED
      BY <3>1, <3>3, <1>0, <1>a, <2>1, <2>4, ArenaMapAssumption, SMT DEF TypeOK, UINT_MAX, Index
  <2>6. TypeOK'
    BY <1>a, <1>0, <2>1, <2>5, ArenaMapAssumption, SMT DEF TypeOK, Index
  <2>7. LockHolder'
    BY <1>a, <1>0 DEF LockHolder
  <2>8. ListIsFree'
    BY <1>a, <1>0, <2>1, <2>2, <2>5, SMTT(30) DEF ListIsFree, TypeOK, Index
  <2>9. RegisteredExist'
    <3>1. \A m \in Kind : phase[m] # "unregistering"
      BY <1>a, <1>0 DEF LockHolder
    <3> QED
      BY <3>1, <1>a, <1>0, <2>1 DEF RegisteredExist, TypeOK
  <2>10. Runs(L)'
    BY <1>0, <2>1 DEF Runs
  <2>11. Ready(L)'
    BY <1>a, <1>0, <2>3, <2>5, SMTT(30) DEF Ready, Has, TypeOK
  <2>12. CreateLoop(k, L)'
    <3>1. Has(k, 0, i - 1)'
      <4> SUFFICES ASSUME NEW h \in 0 .. i' - 1
                   PROVE  /\ arena_zero'[k] + h \in initialized'
                          /\ arena_registry'[arena_zero'[k] + h] = k
        BY DEF Has
      <4>1. CASE h = i
        BY <4>1, <1>a, <1>0, <2>1, <2>5 DEF TypeOK
      <4>2. CASE h # i
        <5>1. h \in 0 .. i - 1 /\ i > 0 /\ arena_zero'[k] = arena_zero[k]
          BY <4>2, <2>5, SMT
        <5>2. arena_zero[k] + h \in initialized /\ arena_registry[arena_zero[k] + h] = k
          BY <5>1, <1>0 DEF CreateLoop, Has
        <5> QED
          BY <5>1, <5>2, <1>a, <1>0, <2>3 DEF TypeOK
      <4> QED
        BY <4>1, <4>2
    <3> QED
      BY <3>1, <1>0, <1>3, <2>1, <2>5, SMTT(30) DEF CreateLoop
  <2>13. Loops(L)'
    BY <2>12, <1>a, <1>0, ArenaMapAssumption DEF Loops, LockHolder
  <2> QED
    BY <2>6, <2>7, <2>8, <2>9, <2>10, <2>11, <2>13 DEF IInv
<1> QED
  BY <1>2, <1>3
(* Taking the lock to destroy the arenas of a ready kind.                  *)
LEMMA DestroyBeginIInv ==
  ASSUME NEW L \in Nat \ {0}, Uniform(L), NEW k \in Kind, IInv(L), DestroyBegin(k)
  PROVE  IInv(L)'
<1> USE DEF DestroyBegin
<1>1. TypeOK'
  BY DEF IInv, TypeOK, Phase
<1>2. LockHolder'
  BY ArenaMapAssumption DEF IInv, TypeOK, LockHolder
<1>3. ListIsFree' /\ RegisteredExist' /\ Runs(L)'
  <2>1. \A m \in Kind : phase[m] # "unregistering"
    BY ArenaMapAssumption DEF IInv, LockHolder
  <2> QED
    BY <2>1 DEF IInv, ListIsFree, RegisteredExist, Runs
<1>4. Ready(L)'
  BY DEF IInv, TypeOK, Ready, Has
<1>5. Loops(L)'
  <2>1. \A m \in Kind : m # k => phase'[m] \notin {"creating", "destroying", "unregistering"}
    BY ArenaMapAssumption DEF IInv, LockHolder, TypeOK
  <2>2. phase'[k] = "destroying" /\ DestroyLoop(k, L)'
    BY ArenaMapAssumption, SMT DEF IInv, Loops, DestroyLoop, Ready, Has, TypeOK
  <2> QED
    BY <2>1, <2>2, ArenaMapAssumption DEF Loops
<1> QED
  BY <1>1, <1>2, <1>3, <1>4, <1>5 DEF IInv

(* One arena less: its index is appended to the list, after its            *)
(* predecessor.                                                            *)
LEMMA DestroyArenaIInv ==
  ASSUME NEW L \in Nat \ {0}, Uniform(L), NEW k \in Kind, IInv(L), DestroyArena(k)
  PROVE  IInv(L)'
<1> DEFINE idx == arena_zero[k] + i
           n == Len(destroyed)
<1>a. /\ write_lock = k /\ phase[k] = "destroying"
      /\ DestroyIndex(idx)
      /\ phase' = [phase EXCEPT ![k] = "unregistering"]
      /\ UNCHANGED << narenas, arena_registry, write_lock, i, arena_zero, aborted >>
  BY DEF DestroyArena
<1>0. /\ TypeOK /\ LockHolder /\ ListIsFree /\ RegisteredExist
      /\ Runs(L) /\ Ready(L) /\ DestroyLoop(k, L) /\ i < L /\ i \in Nat
  BY DEF IInv, Loops, Uniform, DestroyArena, TypeOK
<1>1. n \in Nat /\ destroyed \in [1 .. n -> Index]
  BY <1>0, LenProperties DEF TypeOK
<1>2. idx \in initialized /\ idx \in Index /\ arena_registry[idx] = k
  BY <1>0, SMT DEF DestroyLoop, Has, TypeOK
<1>3. initialized' = initialized \ {idx} /\ destroyed' = Append(destroyed, idx)
  BY <1>a, <1>2 DEF DestroyIndex
<1>4. /\ destroyed' \in Seq(Index)
      /\ Len(destroyed') = n + 1
      /\ \A j \in 1 .. n : destroyed'[j] = destroyed[j]
      /\ destroyed'[n + 1] = idx
  BY <1>0, <1>2, <1>3, AppendProperties, SMT DEF TypeOK
<1>b. \A m \in Kind : phase'[m] = IF m = k THEN "unregistering" ELSE phase[m]
  BY <1>a, <1>0 DEF TypeOK
<1>5. TypeOK'
  <2>1. phase' \in [Kind -> Phase]
    BY <1>a, <1>0 DEF TypeOK, Phase
  <2>2. initialized' \in SUBSET Index
    BY <1>0, <1>3 DEF TypeOK
  <2> QED
    BY <1>a, <1>0, <1>4, <2>1, <2>2 DEF TypeOK
<1>6. LockHolder'
  BY <1>a, <1>b, <1>0 DEF LockHolder
<1>7. ListIsFree'
  <2>1. \A j \in 1 .. n : destroyed'[j] # idx
    BY <1>0, <1>2, <1>4 DEF ListIsFree
  <2>2. \A a \in initialized' : a < narenas'
    BY <1>a, <1>0, <1>3 DEF ListIsFree
  <2>3. \A j \in 1 .. n + 1 : destroyed'[j] \notin initialized' /\ destroyed'[j] < narenas'
    <3> TAKE j \in 1 .. n + 1
    <3>1. CASE j = n + 1
      BY <3>1, <1>a, <1>0, <1>2, <1>3, <1>4 DEF ListIsFree
    <3>2. CASE j # n + 1
      <4>1. j \in 1 .. n
        BY <3>2, <1>1, SMT
      <4> QED
        BY <4>1, <1>a, <1>0, <1>3, <1>4 DEF ListIsFree
    <3> QED
      BY <3>1, <3>2
  <2>4. \A j, m \in 1 .. n + 1 : destroyed'[j] = destroyed'[m] => j = m
    <3> SUFFICES ASSUME NEW j \in 1 .. n + 1, NEW m \in 1 .. n + 1,
                        destroyed'[j] = destroyed'[m]
                 PROVE  j = m
      OBVIOUS
    <3>1. CASE j \in 1 .. n /\ m \in 1 .. n
      BY <3>1, <1>0, <1>4 DEF ListIsFree
    <3>2. CASE ~(j \in 1 .. n /\ m \in 1 .. n)
      BY <3>2, <2>1, <1>1, <1>4, SMT
    <3> QED
      BY <3>1, <3>2
  <2> QED
    BY <2>2, <2>3, <2>4, <1>4 DEF ListIsFree
<1>8. RegisteredExist'
  <2> SUFFICES ASSUME NEW a \in Index, arena_registry'[a] # NULL
               PROVE  a \in initialized' \/ a = idx
    BY <1>a, <1>b DEF RegisteredExist
  <2>1. \A m \in Kind : phase[m] # "unregistering"
    BY <1>a, <1>0 DEF LockHolder
  <2> QED
    BY <2>1, <1>a, <1>0, <1>3 DEF RegisteredExist
<1>9. Offset(n, L) = i
  BY <1>0, SMT DEF DestroyLoop
<1>10. Runs(L)'
  <2>1. ASSUME NEW j \in 1 .. n + 1, Offset(j - 1, L) # 0
        PROVE  destroyed'[j] = destroyed'[j - 1] + 1
    <3>1. j - 1 # 0
      BY <2>1, OffsetRange
    <3>2. j - 1 \in 1 .. n
      BY <3>1, <1>1, SMTT(30)
    <3>3. CASE j = n + 1
      <4>1. j - 1 = n /\ i # 0
        BY <2>1, <3>3, <1>1, <1>9, SMT
      <4>2. destroyed[n] = arena_zero[k] + i - 1
        BY <4>1, <1>0, SMT DEF DestroyLoop
      <4>3. arena_zero[k] \in Int
        BY <1>0, ArenaMapAssumption, SMT DEF TypeOK, UINT_MAX
      <4> QED
        BY <3>2, <3>3, <4>1, <4>2, <4>3, <1>4, <1>0, SMTT(30)
    <3>4. CASE j # n + 1
      <4>1. j \in 1 .. n
        BY <3>4, <1>1, SMT
      <4> QED
        BY <4>1, <2>1, <3>2, <1>0, <1>4 DEF Runs
    <3> QED
      BY <3>3, <3>4
  <2> QED
    BY <2>1, <1>4 DEF Runs
<1>11. Ready(L)'
  <2> SUFFICES ASSUME NEW m \in Kind, phase'[m] = "ready", NEW h \in 0 .. L - 1
               PROVE  /\ arena_zero'[m] + h \in initialized'
                      /\ arena_registry'[arena_zero'[m] + h] = m
    BY DEF Ready, Has
  <2>1. m # k /\ arena_zero[m] + h \in initialized /\ arena_registry[arena_zero[m] + h] = m
    BY <1>b, <1>0 DEF Ready, Has
  <2>2. arena_zero[m] + h # idx
    BY <2>1, <1>2
  <2> QED
    BY <2>1, <2>2, <1>a, <1>3
<1>12. UnregisterLoop(k, L)'
  <2>1. Has(k, i + 1, L - 1)'
    <3> SUFFICES ASSUME NEW h \in i + 1 .. L - 1
                 PROVE  /\ arena_zero[k] + h \in initialized'
                        /\ arena_registry[arena_zero[k] + h] = k
      BY <1>a DEF Has
    <3>1. h \in i .. L - 1 /\ h # i
      BY <1>0, SMT
    <3>2. arena_zero[k] + h \in initialized /\ arena_registry[arena_zero[k] + h] = k
      BY <3>1, <1>0 DEF DestroyLoop, Has
    <3>3. arena_zero[k] + h # idx
      BY <3>1, <1>0, ArenaMapAssumption, SMT DEF TypeOK, UINT_MAX
    <3> QED
      BY <3>2, <3>3, <1>3
  <2>2. Offset(n + 1, L) = IF i = L - 1 THEN 0 ELSE i + 1
    BY <1>1, <1>9, OffsetSucc
  <2>3. \A h \in 0 .. i : arena_zero'[k] + h \notin initialized'
    <3> TAKE h \in 0 .. i
    <3>1. h = i \/ h \in 0 .. i - 1
      BY <1>0, SMT
    <3> QED
      BY <3>1, <1>a, <1>0, <1>3 DEF DestroyLoop
  <2>4. i' = i /\ arena_zero' = arena_zero /\ arena_registry' = arena_registry
    BY <1>a
  <2>5. i < L /\ idx \in Index /\ arena_registry[idx] = k
    BY <1>a, <1>0, <1>2, <1>3
  <2>6. Len(destroyed') = n + 1 /\ n + 1 > 0 /\ destroyed'[n + 1] = idx
    BY <1>1, <1>4, SMTT(30)
  <2> QED
    BY <2>1, <2>2, <2>3, <2>4, <2>5, <2>6 DEF UnregisterLoop
<1>13. Loops(L)'
  BY <1>12, <1>a, <1>b, <1>0, ArenaMapAssumption, SMT DEF Loops, LockHolder
<1> QED
  BY <1>5, <1>6, <1>7, <1>8, <1>10, <1>11, <1>13 DEF IInv

(* The entry of the destroyed arena is cleared.                            *)
LEMMA UnregisterIInv ==
  ASSUME NEW L \in Nat \ {0}, Uniform(L), NEW k \in Kind, IInv(L), Unregister(k)
  PROVE  IInv(L)'
<1> DEFINE idx == arena_zero[k] + i
<1>a. /\ write_lock = k /\ phase[k] = "unregistering" /\ i' = i + 1
      /\ arena_registry' = [arena_registry EXCEPT ![idx] = NULL]
      /\ phase' = [phase EXCEPT ![k] = "destroying"]
      /\ UNCHANGED << narenas, destroyed, initialized, write_lock, arena_zero, aborted >>
  BY DEF Unregister
<1>0. /\ TypeOK /\ LockHolder /\ ListIsFree /\ RegisteredExist
      /\ Runs(L) /\ Ready(L) /\ UnregisterLoop(k, L) /\ i < L /\ i \in Nat
      /\ arena_zero[k] \in Nat
  <2>1. /\ TypeOK /\ LockHolder /\ ListIsFree /\ RegisteredExist
        /\ Runs(L) /\ Ready(L) /\ UnregisterLoop(k, L)
    BY <1>a DEF IInv, Loops
  <2>2. i < L /\ i \in Nat
    BY <2>1 DEF UnregisterLoop, TypeOK
  <2>3. arena_zero[k] \in Nat
    BY <2>1, ArenaMapAssumption, SMT DEF TypeOK, UINT_MAX
  <2> QED
    BY <2>1, <2>2, <2>3
<1>1. \A m \in Kind : phase'[m] = IF m = k THEN "destroying" ELSE phase[m]
  BY <1>a, <1>0 DEF TypeOK
<1>2. \A a \in Index : arena_registry'[a] = IF a = idx THEN NULL ELSE arena_registry[a]
  BY <1>a, <1>0 DEF TypeOK
<1>3. idx \in Index \ initialized
  BY <1>0, SMT DEF UnregisterLoop
<1>4. TypeOK'
  <2>1. phase' \in [Kind -> Phase]
    BY <1>a, <1>0 DEF TypeOK, Phase
  <2>2. arena_registry' \in [Index -> Kind \cup {NULL}]
    BY <1>a, <1>0 DEF TypeOK
  <2>3. i' \in Nat
    BY <1>a, <1>0, SMT
  <2> QED
    BY <1>a, <1>0, <2>1, <2>2, <2>3 DEF TypeOK
<1>5. LockHolder'
  BY <1>a, <1>1, <1>0 DEF LockHolder
<1>6. ListIsFree' /\ Runs(L)'
  BY <1>a, <1>0 DEF ListIsFree, Runs
<1>7. RegisteredExist'
  <2>1. \A m \in Kind : phase[m] = "unregistering" => m = k
    BY <1>a, <1>0 DEF LockHolder
  <2> QED
    BY <2>1, <1>a, <1>2, <1>0 DEF RegisteredExist
<1>8. Ready(L)'
  <2> SUFFICES ASSUME NEW m \in Kind, phase'[m] = "ready", NEW h \in 0 .. L - 1
               PROVE  /\ arena_zero[m] + h \in initialized
                      /\ arena_registry'[arena_zero[m] + h] = m
    BY <1>a DEF Ready, Has
  <2>1. arena_zero[m] + h \in initialized /\ arena_registry[arena_zero[m] + h] = m
    BY <1>1, <1>0 DEF Ready, Has
  <2> QED
    BY <2>1, <1>2, <1>3, <1>0 DEF TypeOK
<1>9. DestroyLoop(k, L)'
  <2>1. Has(k, i, L - 1)'
    <3> SUFFICES ASSUME NEW h \in i + 1 .. L - 1
                 PROVE  /\ arena_zero[k] + h \in initialized
                        /\ arena_registry'[arena_zero[k] + h] = k
      BY <1>a DEF Has
    <3>1. arena_zero[k] + h \in initialized /\ arena_registry[arena_zero[k] + h] = k
      BY <1>0 DEF UnregisterLoop, Has
    <3> QED
      BY <3>1, <1>2, <1>3, <1>0 DEF TypeOK
  <2>2. \A h \in 0 .. i' - 1 : arena_zero'[k] + h \notin initialized'
    BY <1>a, <1>0, SMT DEF UnregisterLoop
  <2> QED
    BY <2>1, <2>2, <1>a, <1>0, SMT DEF DestroyLoop, UnregisterLoop
<1>10. Loops(L)'
  BY <1>9, <1>a, <1>1, <1>0, ArenaMapAssumption, SMT DEF Loops, LockHolder
<1> QED
  BY <1>4, <1>5, <1>6, <1>7, <1>8, <1>10 DEF IInv

(* All arenas of the block are gone.                                       *)
LEMMA DestroyEndIInv ==
  ASSUME NEW L \in Nat \ {0}, Uniform(L), NEW k \in Kind, IInv(L), DestroyEnd(k)
  PROVE  IInv(L)'
<1> USE DEF DestroyEnd
<1>1. TypeOK'
  BY DEF IInv, TypeOK, Phase
<1>2. LockHolder'
  BY ArenaMapAssumption DEF IInv, TypeOK, LockHolder
<1>3. ListIsFree' /\ RegisteredExist' /\ Runs(L)'
  BY SMT DEF IInv, ListIsFree, RegisteredExist, Runs
<1>4. Ready(L)'
  BY DEF IInv, TypeOK, Ready, Has
<1>5. Loops(L)'
  <2>1. \A m \in Kind : phase'[m] \notin {"creating", "destroying", "unregistering"}
    BY DEF IInv, LockHolder, TypeOK
  <2>2. i = L /\ DestroyLoop(k, L)
    BY DEF IInv, Loops, Uniform
  <2> QED
    BY <2>1, <2>2 DEF Loops, DestroyLoop
<1> QED
  BY <1>1, <1>2, <1>3, <1>4, <1>5 DEF IInv

(* Every step preserves the invariant.                                     *)
LEMMA NextIInv ==
  ASSUME NEW L \in Nat \ {0}, Uniform(L), ~may_fail, IInv(L), [Next]_vars
  PROVE  IInv(L)'
<1>1. ASSUME NEW k \in Kind, Create(k) PROVE IInv(L)'
  BY <1>1, CreateBeginIInv, CreateArenaIInv, CreateFailsIInv, CreateEndIInv
     DEF Create, HooksFail
<1>2. ASSUME NEW k \in Kind, Destroy(k) PROVE IInv(L)'
  BY <1>2, DestroyBeginIInv, DestroyArenaIInv, UnregisterIInv, DestroyEndIInv
     DEF Destroy
<1>3. CASE UNCHANGED vars
  <2>1. (TypeOK /\ LockHolder)'
    BY <1>3 DEF vars, IInv, TypeOK, LockHolder
  <2>2. (ListIsFree /\ RegisteredExist /\ Runs(L))'
    BY <1>3 DEF vars, IInv, ListIsFree, RegisteredExist, Runs
  <2>3. Ready(L)'
    BY <1>3 DEF vars, IInv, Ready, Has
  <2>4. \A k \in Kind : /\ CreateLoop(k, L) => CreateLoop(k, L)'
                        /\ DestroyLoop(k, L) => DestroyLoop(k, L)'
                        /\ UnregisterLoop(k, L) => UnregisterLoop(k, L)'
    BY <1>3 DEF vars, CreateLoop, DestroyLoop, UnregisterLoop, Has
  <2>5. Loops(L)'
    BY <1>3, <2>4 DEF vars, IInv, Loops
  <2> QED
    BY <2>1, <2>2, <2>3, <2>5 DEF IInv
<1> QED
  BY <1>1, <1>2, <1>3 DEF Next

LEMMA Inductive ==
  ASSUME NEW L \in Nat \ {0}, Uniform(L)
  PROVE  Spec => [](may_fail \/ IInv(L))
<1>1. Init => may_fail \/ IInv(L)
  BY InitIInv
<1>2. (may_fail \/ IInv(L)) /\ [Next]_vars => (may_fail \/ IInv(L))'
  <2> SUFFICES ASSUME may_fail \/ IInv(L), [Next]_vars PROVE may_fail' \/ IInv(L)'
    OBVIOUS
  <2>1. may_fail' = may_fail
    BY DEF Next, vars
  <2>2. CASE may_fail
    BY <2>1, <2>2
  <2>3. CASE ~may_fail
    BY <2>3, NextIInv
  <2> QED
    BY <2>2, <2>3
<1> QED
  BY <1>1, <1>2, PTL DEF Spec
-----------------------------------------------------------------------------
(* The invariant gives the readers what they rely on.                      *)
LEMMA IInvOwnBlock ==
  ASSUME NEW L \in Nat \ {0}, Uniform(L), IInv(L)
  PROVE  OwnBlock
<1> SUFFICES ASSUME NEW k \in Kind, NEW hash \in 0 .. ArenaLimit
             PROVE  LET a == ThreadArena(k, hash)
                    IN  /\ phase[k] = "ready" => a \in initialized /\ DetectKind(a) = k
                        /\ phase[k] \in {"destroying", "unregistering"}
                             /\ a \in initialized => DetectKind(a) = k
  BY DEF OwnBlock
<1>0. MapLen[k] = L /\ hash \in Nat
  BY ArenaMapAssumption, SMT DEF Uniform
<1>1. PICK h \in 0 .. L - 1 : ThreadArena(k, hash) = arena_zero[k] + h
  <2>1. Offset(hash, L) \in 0 .. L - 1
    BY <1>0, OffsetRange
  <2>2. ThreadArena(k, hash) = arena_zero[k] + Offset(hash, L)
    BY <1>0 DEF ThreadArena, Offset
  <2> QED
    BY <2>1, <2>2
<1>2. arena_registry[arena_zero[k] + h] = k => DetectKind(arena_zero[k] + h) = k
  BY ArenaMapAssumption DEF DetectKind, KindByArena
<1>3. CASE phase[k] = "ready"
  BY <1>1, <1>2, <1>3 DEF IInv, Ready, Has
<1>4. CASE phase[k] = "destroying" /\ arena_zero[k] + h \in initialized
  <2>1. h \in i .. L - 1
    BY <1>4, <1>1, SMT DEF IInv, Loops, DestroyLoop, TypeOK
  <2> QED
    BY <2>1, <1>1, <1>2, <1>4 DEF IInv, Loops, DestroyLoop, Has
<1>5. CASE phase[k] = "unregistering" /\ arena_zero[k] + h \in initialized
  <2>1. h \in i + 1 .. L - 1
    BY <1>5, <1>1, SMT DEF IInv, Loops, UnregisterLoop, TypeOK
  <2> QED
    BY <2>1, <1>1, <1>2, <1>5 DEF IInv, Loops, UnregisterLoop, Has
<1> QED
  BY <1>1, <1>3, <1>4, <1>5

(* OwnBlock: with blocks of one length, whatever the number of kinds, of   *)
(* arenas and of creations and destructions, and even when indices run     *)
(* out, the arenas a thread picks for a ready kind are consecutive, exist  *)
(* and lead back to the kind, and the hooks of an arena under destruction  *)
(* find its kind.                                                          *)
THEOREM OwnBlockHolds ==
  ASSUME NEW L \in Nat \ {0}, Uniform(L)
  PROVE  Spec => []OwnBlock
<1>1. may_fail \/ IInv(L) => OwnBlock
  BY IInvOwnBlock DEF OwnBlock
<1> QED
  BY <1>1, Inductive, PTL
-----------------------------------------------------------------------------
(* What holds whichever mallctl fails, for blocks of any lengths.          *)
Sound == TypeOK /\ LockHolder /\ RegisteredExist

(* An index comes from the list or is the next new one; whether or not the *)
(* arena can be made, the list and narenas keep their types.               *)
LEMMA TakeIndexTypes ==
  ASSUME TypeOK, NEW made \in BOOLEAN, made => NextIndex < ArenaLimit, TakeIndex(made)
  PROVE  /\ narenas' \in FirstManual .. ArenaLimit /\ destroyed' \in Seq(Index)
         /\ made => NextIndex \in Index
<1> DEFINE n == Len(destroyed)
<1>1. n \in Nat /\ destroyed \in [1 .. n -> Index] /\ narenas \in FirstManual .. ArenaLimit
  BY LenProperties DEF TypeOK
<1>2. CASE destroyed # << >>
  <2>1. n > 0 /\ NextIndex = destroyed[n]
    BY <1>1, <1>2, SMT DEF NextIndex, TypeOK
  <2>2. NextIndex \in Index
    BY <1>1, <2>1, SMT
  <2>3. destroyed' = SubSeq(destroyed, 1, n - 1) /\ UNCHANGED narenas
    BY <1>2 DEF TakeIndex
  <2>4. \A j \in 1 .. n - 1 : destroyed[j] \in Index
    BY <1>1, SMT
  <2>5. 1 \in Int /\ n - 1 \in Int
    BY <1>1, SMT
  <2>6. SubSeq(destroyed, 1, n - 1) \in Seq(Index)
    BY <2>4, <2>5, SubSeqProperties, SMT
  <2> QED
    BY <1>1, <2>2, <2>3, <2>6
<1>3. CASE destroyed = << >>
  <2>1. NextIndex = narenas /\ UNCHANGED destroyed
        /\ narenas' = IF made THEN narenas + 1 ELSE narenas
    BY <1>3 DEF NextIndex, TakeIndex
  <2>2. made => narenas \in Index /\ narenas + 1 \in FirstManual .. ArenaLimit
    BY <1>1, <2>1, ArenaMapAssumption, SMT DEF Index
  <2> QED
    BY <1>1, <2>1, <2>2 DEF TypeOK
<1> QED
  BY <1>2, <1>3

(* The lock has one holder, so one kind at most is in a loop.              *)
LEMMA OneHolder ==
  ASSUME LockHolder, NEW k \in Kind,
         write_lock = k \/ phase[k] \in {"creating", "destroying", "unregistering"}
  PROVE  \A m \in Kind : m # k => phase[m] \notin {"creating", "destroying", "unregistering"}
  BY DEF LockHolder

LEMMA CreateSound ==
  ASSUME Sound, NEW k \in Kind, Create(k)
  PROVE  Sound'
<1>0. TypeOK /\ LockHolder /\ RegisteredExist
  BY DEF Sound
<1>1. CASE CreateBegin(k)
  <2>1. TypeOK'
    BY <1>0, <1>1, ArenaMapAssumption, SMT DEF CreateBegin, TypeOK, Phase, UINT_MAX
  <2>2. LockHolder'
    BY <1>0, <1>1, ArenaMapAssumption DEF CreateBegin, TypeOK, LockHolder
  <2>3. RegisteredExist'
    <3>1. \A m \in Kind : phase[m] # "unregistering"
      BY <1>0, <1>1, ArenaMapAssumption DEF CreateBegin, LockHolder
    <3> QED
      BY <1>0, <1>1, <3>1 DEF CreateBegin, RegisteredExist
  <2> QED
    BY <2>1, <2>2, <2>3 DEF Sound
<1>2. CASE CreateArena(k)
  <2>a. /\ write_lock = k /\ phase[k] = "creating" /\ NextIndex < ArenaLimit
        /\ TakeIndex(TRUE) /\ i' = i + 1
        /\ initialized' = initialized \cup {NextIndex}
        /\ arena_registry' = [arena_registry EXCEPT ![NextIndex] = k]
        /\ arena_zero' = [arena_zero EXCEPT ![k] = IF @ > NextIndex THEN NextIndex ELSE @]
        /\ UNCHANGED << write_lock, phase, aborted >>
    BY <1>2 DEF CreateArena
  <2>1. /\ narenas' \in FirstManual .. ArenaLimit /\ destroyed' \in Seq(Index)
        /\ NextIndex \in Index
    BY <1>0, <2>a, TakeIndexTypes
  <2>2. TypeOK'
    <3>1. arena_zero' \in [Kind -> 0 .. UINT_MAX]
      <4>1. NextIndex \in 0 .. UINT_MAX
        BY <2>1, ArenaMapAssumption, SMT DEF Index, UINT_MAX
      <4> QED
        BY <1>0, <2>a, <4>1 DEF TypeOK
    <3>2. i' \in Nat
      BY <1>0, <2>a, SMT DEF TypeOK
    <3>3. initialized' \in SUBSET Index /\ arena_registry' \in [Index -> Kind \cup {NULL}]
      BY <1>0, <2>a, <2>1 DEF TypeOK
    <3> QED
      BY <1>0, <2>a, <2>1, <3>1, <3>2, <3>3 DEF TypeOK
  <2>3. LockHolder'
    BY <1>0, <2>a DEF LockHolder
  <2>4. RegisteredExist'
    <3>1. \A m \in Kind : phase[m] # "unregistering"
      BY <1>0, <2>a, OneHolder
    <3>2. \A a \in Index : arena_registry'[a] # NULL => a = NextIndex \/ arena_registry[a] # NULL
      BY <1>0, <2>a DEF TypeOK
    <3> QED
      BY <1>0, <2>a, <3>1, <3>2 DEF RegisteredExist
  <2> QED
    BY <2>2, <2>3, <2>4 DEF Sound
<1>3. ASSUME CreateError(k), phase[k] = "creating", write_lock = k,
             narenas' \in FirstManual .. ArenaLimit, destroyed' \in Seq(Index),
             initialized' \in SUBSET Index, initialized \subseteq initialized'
      PROVE  Sound'
  <2>1. TypeOK'
    <3>1. aborted' \in BOOLEAN
      BY <1>3, SMT DEF CreateError
    <3> QED
      BY <1>0, <1>3, <3>1 DEF CreateError, TypeOK, Phase
  <2>2. LockHolder'
    BY <1>0, <1>3, ArenaMapAssumption DEF CreateError, TypeOK, LockHolder
  <2>3. RegisteredExist'
    <3>1. \A m \in Kind : phase[m] # "unregistering"
      BY <1>0, <1>3, OneHolder
    <3> QED
      BY <1>0, <1>3, <3>1 DEF CreateError, RegisteredExist
  <2> QED
    BY <2>1, <2>2, <2>3 DEF Sound
<1>4. CASE CreateFails(k)
  <2>1. narenas' \in FirstManual .. ArenaLimit /\ destroyed' \in Seq(Index)
    BY <1>0, <1>4, TakeIndexTypes DEF CreateFails
  <2> QED
    BY <1>0, <1>3, <1>4, <2>1 DEF CreateFails, TypeOK
<1>5. CASE HooksFail(k)
  <2>1. /\ narenas' \in FirstManual .. ArenaLimit /\ destroyed' \in Seq(Index)
        /\ NextIndex \in Index
    BY <1>0, <1>5, TakeIndexTypes DEF HooksFail
  <2> QED
    BY <1>0, <1>3, <1>5, <2>1 DEF HooksFail, TypeOK
<1>6. CASE CreateEnd(k)
  <2>1. TypeOK' /\ LockHolder'
    BY <1>0, <1>6, ArenaMapAssumption DEF CreateEnd, TypeOK, Phase, LockHolder
  <2>2. RegisteredExist'
    <3>1. \A m \in Kind : phase[m] # "unregistering"
      BY <1>0, <1>6, OneHolder DEF CreateEnd
    <3> QED
      BY <1>0, <1>6, <3>1 DEF CreateEnd, RegisteredExist
  <2> QED
    BY <2>1, <2>2 DEF Sound
<1> QED
  BY <1>1, <1>2, <1>4, <1>5, <1>6 DEF Create

LEMMA DestroySound ==
  ASSUME Sound, NEW k \in Kind, Destroy(k)
  PROVE  Sound'
<1>0. TypeOK /\ LockHolder /\ RegisteredExist
  BY DEF Sound
<1>1. CASE DestroyBegin(k)
  <2>1. TypeOK' /\ LockHolder'
    BY <1>0, <1>1, ArenaMapAssumption DEF DestroyBegin, TypeOK, Phase, LockHolder
  <2>2. RegisteredExist'
    <3>1. \A m \in Kind : phase[m] # "unregistering"
      BY <1>0, <1>1, ArenaMapAssumption DEF DestroyBegin, LockHolder
    <3> QED
      BY <1>0, <1>1, <3>1 DEF DestroyBegin, RegisteredExist
  <2> QED
    BY <2>1, <2>2 DEF Sound
<1>2. CASE DestroyArena(k)
  <2> DEFINE idx == arena_zero[k] + i
  <2>a. /\ write_lock = k /\ phase[k] = "destroying"
        /\ DestroyIndex(idx) /\ phase' = [phase EXCEPT ![k] = "unregistering"]
        /\ UNCHANGED << narenas, arena_registry, write_lock, i, arena_zero, aborted >>
    BY <1>2 DEF DestroyArena
  <2>1. destroyed' \in Seq(Index) /\ initialized' \in SUBSET Index
        /\ initialized \subseteq initialized' \cup {idx}
    <3>1. CASE idx \in initialized
      <4>1. idx \in Index
        BY <1>0, <3>1 DEF TypeOK
      <4>2. Append(destroyed, idx) \in Seq(Index)
        BY <1>0, <4>1, AppendProperties DEF TypeOK
      <4> QED
        BY <1>0, <2>a, <3>1, <4>2 DEF DestroyIndex, TypeOK
    <3>2. CASE idx \notin initialized
      BY <1>0, <2>a, <3>2 DEF DestroyIndex, TypeOK
    <3> QED
      BY <3>1, <3>2
  <2>2. TypeOK'
    BY <1>0, <2>a, <2>1 DEF TypeOK, Phase
  <2>3. LockHolder'
    BY <1>0, <2>a DEF TypeOK, LockHolder
  <2>4. RegisteredExist'
    <3>1. \A m \in Kind : phase[m] # "unregistering"
      BY <1>0, <2>a, OneHolder
    <3>2. phase'[k] = "unregistering" /\ idx = arena_zero'[k] + i'
      BY <1>0, <2>a DEF TypeOK
    <3> QED
      BY <1>0, <2>a, <2>1, <3>1, <3>2 DEF RegisteredExist
  <2> QED
    BY <2>2, <2>3, <2>4 DEF Sound
<1>3. CASE Unregister(k)
  <2> DEFINE idx == arena_zero[k] + i
  <2>a. /\ write_lock = k /\ phase[k] = "unregistering"
        /\ arena_registry' = [arena_registry EXCEPT ![idx] = NULL] /\ i' = i + 1
        /\ phase' = [phase EXCEPT ![k] = "destroying"]
        /\ UNCHANGED << narenas, destroyed, initialized, write_lock, arena_zero, aborted >>
    BY <1>3 DEF Unregister
  <2> HIDE DEF idx
  <2>1. TypeOK'
    <3>1. i' \in Nat
      BY <1>0, <2>a, SMT DEF TypeOK
    <3>2. arena_registry' \in [Index -> Kind \cup {NULL}]
      BY <1>0, <2>a DEF TypeOK
    <3> QED
      BY <1>0, <2>a, <3>1, <3>2 DEF TypeOK, Phase
  <2>2. LockHolder'
    BY <1>0, <2>a DEF TypeOK, LockHolder
  <2>3. RegisteredExist'
    <3>1. \A m \in Kind : phase[m] = "unregistering" => m = k
      BY <1>0, <2>a, OneHolder
    <3>2. \A a \in Index : arena_registry'[a] # NULL => a # idx /\ arena_registry[a] # NULL
      BY <1>0, <2>a DEF TypeOK
    <3> QED
      BY <1>0, <2>a, <3>1, <3>2 DEF RegisteredExist, idx
  <2> QED
    BY <2>1, <2>2, <2>3 DEF Sound
<1>4. CASE DestroyEnd(k)
  <2>1. TypeOK' /\ LockHolder'
    BY <1>0, <1>4, ArenaMapAssumption DEF DestroyEnd, TypeOK, Phase, LockHolder
  <2>2. RegisteredExist'
    <3>1. \A m \in Kind : phase[m] # "unregistering"
      BY <1>0, <1>4, OneHolder DEF DestroyEnd
    <3> QED
      BY <1>0, <1>4, <3>1 DEF DestroyEnd, RegisteredExist
  <2> QED
    BY <2>1, <2>2 DEF Sound
<1> QED
  BY <1>1, <1>2, <1>3, <1>4 DEF Destroy

LEMMA SoundHolds == Spec => []Sound
<1>1. Init => Sound
  <2> SUFFICES ASSUME Init PROVE Sound
    OBVIOUS
  <2>1. TypeOK
    BY InitTypes
  <2>2. LockHolder /\ RegisteredExist
    BY ArenaMapAssumption, SMT DEF Init, LockHolder, RegisteredExist
  <2> QED
    BY <2>1, <2>2 DEF Sound
<1>2. Sound /\ [Next]_vars => Sound'
  <2>1. ASSUME Sound, UNCHANGED vars PROVE Sound'
    BY <2>1 DEF vars, Sound, TypeOK, LockHolder, RegisteredExist
  <2> QED
    BY <2>1, CreateSound, DestroySound DEF Next
<1> QED
  BY <1>1, <1>2, PTL DEF Spec

(* TypeOK: narenas, the list of destroyed indices, the registry and the    *)
(* kinds keep their types; in particular arena_zero stays an index or      *)
(* UINT_MAX, and no index passes the limit.                                *)
THEOREM TypeCorrect == Spec => []TypeOK
<1>1. Sound => TypeOK
  BY DEF Sound
<1> QED
  BY <1>1, SoundHolds, PTL

(* RegisteredExist: no entry of the registry is about an arena that is     *)
(* gone, save the one being cleared, for kinds with any numbers of arenas  *)
(* and whichever mallctl of memkind_arena_create_map fails.                *)
THEOREM RegisteredExistHolds == Spec => []RegisteredExist
<1>1. Sound => RegisteredExist
  BY DEF Sound
<1> QED
  BY <1>1, SoundHolds, PTL
-----------------------------------------------------------------------------
(* ArenaMap implements ArenaOwnership: releasing the lock at the end of    *)
(* memkind_arena_create_map is Acquire, taking it in memkind_arena_destroy *)
(* is Release, and every other step leaves the mapped state alone.         *)
Base == [k \in Kind |-> IF phase[k] = "ready" /\ ~may_fail THEN arena_zero[k] ELSE NULL]

(* Creation ends with a block that meets no other kind's block.            *)
LEMMA CreateEndAcquires ==
  ASSUME NEW L \in Nat \ {0}, Uniform(L), ~may_fail, UNCHANGED may_fail,
         NEW k \in Kind, IInv(L), CreateEnd(k)
  PROVE  Ownership!Next
<1> DEFINE b == arena_zero[k]
<1>a. /\ phase[k] = "creating" /\ i = L /\ arena_zero' = arena_zero
      /\ phase' = [phase EXCEPT ![k] = "ready"]
  BY DEF CreateEnd, Uniform
<1>0. /\ TypeOK /\ Ready(L) /\ Has(k, 0, L - 1) /\ b \in Nat /\ MapLen[k] = L
  <2>1. TypeOK /\ Ready(L) /\ CreateLoop(k, L) /\ MapLen[k] = L
    BY <1>a DEF IInv, Loops, Uniform
  <2>2. Has(k, 0, L - 1)
    BY <2>1, <1>a, SMT DEF CreateLoop
  <2>3. b \in Nat
    BY <2>1, ArenaMapAssumption, SMT DEF TypeOK, UINT_MAX
  <2> QED
    BY <2>1, <2>2, <2>3
<1>1. b \in Index /\ b + L - 1 \in Index
  <2>1. b + 0 \in initialized /\ b + (L - 1) \in initialized
    BY <1>0, SMT DEF Has
  <2> QED
    BY <2>1, <1>0, SMT DEF TypeOK
<1>2. b + MapLen[k] <= ArenaLimit /\ b \in 0 .. ArenaLimit - 1
  BY <1>0, <1>1, ArenaMapAssumption, SMT DEF Index
<1>3. ASSUME NEW l \in Kind, NEW a \in b .. b + MapLen[k] - 1
      PROVE  ~(/\ Base[l] # NULL
               /\ a \in Base[l] .. Base[l] + MapLen[l] - 1)
  <2> SUFFICES ASSUME phase[l] = "ready", a \in arena_zero[l] .. arena_zero[l] + L - 1
               PROVE  FALSE
    BY DEF Base, Uniform
  <2>1. arena_zero[l] \in Nat
    BY <1>0, ArenaMapAssumption, SMT DEF TypeOK, UINT_MAX
  <2>2. a - arena_zero[l] \in 0 .. L - 1 /\ a = arena_zero[l] + (a - arena_zero[l])
    BY <2>1, SMT
  <2>3. arena_registry[a] = l
    BY <2>2, <1>0 DEF Ready, Has
  <2>4. a - b \in 0 .. L - 1 /\ a = b + (a - b)
    BY <1>0, SMT
  <2>5. arena_registry[a] = k
    BY <2>4, <1>0 DEF Has
  <2> QED
    BY <2>3, <2>5, <1>a
<1>4. Base[k] = NULL /\ Base' = [Base EXCEPT ![k] = b]
  BY <1>a, <1>0 DEF Base, TypeOK
<1>5. PICK z \in 0 .. ArenaLimit - 1 : z = b
  BY <1>2
<1>6. Ownership!Acquire(k, z)
  BY <1>2, <1>3, <1>4, <1>5 DEF Ownership!Acquire, Ownership!Owns, Base
<1> QED
  BY <1>6 DEF Ownership!Next

LEMMA DestroyBeginReleases ==
  ASSUME NEW k \in Kind, TypeOK, DestroyBegin(k), ~may_fail, UNCHANGED may_fail
  PROVE  Ownership!Next
<1>0. /\ phase[k] = "ready" /\ arena_zero' = arena_zero
      /\ phase' = [phase EXCEPT ![k] = "destroying"]
  BY DEF DestroyBegin
<1>1. Base[k] # NULL /\ Base' = [Base EXCEPT ![k] = NULL]
  <2>0. UINT_MAX \in Nat /\ arena_zero[k] \in 0 .. UINT_MAX
    BY ArenaMapAssumption DEF TypeOK, UINT_MAX
  <2>1. arena_zero[k] \in Int
    BY <2>0, SMT
  <2>2. arena_zero[k] # NULL
    BY <2>1, ArenaMapAssumption
  <2> QED
    BY <2>2, <1>0 DEF Base, TypeOK
<1>2. Ownership!Release(k)
  BY <1>1 DEF Ownership!Release, Base
<1> QED
  BY <1>2 DEF Ownership!Next

(* The other steps are about a kind that is not ready, before and after.   *)
LEMMA OtherStepsStutter ==
  ASSUME NEW k \in Kind, TypeOK, UNCHANGED may_fail,
         CreateBegin(k) \/ CreateArena(k) \/ CreateFails(k) \/ HooksFail(k)
           \/ DestroyArena(k) \/ Unregister(k) \/ DestroyEnd(k)
  PROVE  Base' = Base
<1>1. /\ phase[k] # "ready"
      /\ phase' = phase \/ \E p \in Phase \ {"ready"} : phase' = [phase EXCEPT ![k] = p]
      /\ \A m \in Kind : m # k => arena_zero'[m] = arena_zero[m]
  <2>1. CASE CreateBegin(k)
    BY <2>1 DEF CreateBegin, Phase, TypeOK
  <2>2. CASE CreateArena(k)
    BY <2>2 DEF CreateArena, TypeOK
  <2>3. CASE CreateFails(k) \/ HooksFail(k)
    BY <2>3 DEF CreateFails, HooksFail, CreateError, Phase
  <2>4. CASE DestroyArena(k) \/ Unregister(k)
    BY <2>4 DEF DestroyArena, Unregister, Phase
  <2>5. CASE DestroyEnd(k)
    BY <2>5 DEF DestroyEnd, Phase
  <2> QED
    BY <2>1, <2>2, <2>3, <2>4, <2>5
<1>2. phase'[k] # "ready" /\ \A m \in Kind : m # k => phase'[m] = phase[m]
  BY <1>1 DEF TypeOK
<1> QED
  BY <1>1, <1>2 DEF Base

(* BlocksAreExclusive: seen from the rest of the library, a kind acquires  *)
(* in one step a block of consecutive arenas that no other kind owns, and  *)
(* gives it back in one step.                                              *)
THEOREM RefinesOwnership ==
  ASSUME NEW L \in Nat \ {0}, Uniform(L)
  PROVE  Spec => BlocksAreExclusive
<1>1. Init => Ownership!Init
  BY DEF Init, Ownership!Init
<1>2. (may_fail \/ IInv(L)) /\ [Next]_vars => [Ownership!Next]_Base
  <2> SUFFICES ASSUME may_fail \/ IInv(L), [Next]_vars
               PROVE  Ownership!Next \/ UNCHANGED Base
    OBVIOUS
  <2>1. UNCHANGED may_fail
    BY DEF Next, vars
  <2>2. CASE may_fail
    BY <2>1, <2>2 DEF Base
  <2>3. CASE UNCHANGED vars
    BY <2>3 DEF vars, Base
  <2>4. ASSUME NEW k \in Kind, Create(k) \/ Destroy(k), ~may_fail
        PROVE  Ownership!Next \/ UNCHANGED Base
    <3>1. IInv(L) /\ TypeOK
      BY <2>4 DEF IInv
    <3> QED
      BY <2>1, <2>4, <3>1, CreateEndAcquires, DestroyBeginReleases, OtherStepsStutter
         DEF Create, Destroy
  <2> QED
    BY <2>2, <2>3, <2>4 DEF Next
<1> QED
  BY <1>1, <1>2, Inductive, PTL DEF Spec, BlocksAreExclusive, Ownership!Spec, Base
=============================================================================
