-------------------------- MODULE KindRegistryProofs --------------------------
(***************************************************************************)
(* Proofs about KindRegistry, for any numbers of threads, kinds, slots and *)
(* descriptors.                                                            *)
(***************************************************************************)
EXTENDS KindRegistry, TLAPS, FiniteSetTheorems

\* Zenon is the default prover; a step it does not find names SMT.
USE ZenonT(30)

(* The slots of dynamic kinds are finitely many, so the occupied ones can  *)
(* be counted; there are MaxKind - NumStatic of them.                      *)
LEMMA SlotsFinite ==
    /\ IsFiniteSet(Slot)
    /\ Cardinality(Slot) = MaxKind - NumStatic
    /\ NumStatic \in Slot
    /\ Slot \subseteq Int
  BY FS_Interval, KindRegistryAssumption, SMT DEF Slot

(* The registry's records of a kind and of a call are well typed.          *)
LEMMA Records ==
    /\ NoObject \in ObjectRecord
    /\ NoCall \in CallRecord
    /\ NoCall.pc = "idle"
    /\ \A n \in Name, p \in Slot :
          [live |-> TRUE, name |-> n, partition |-> p, fd |-> Null] \in ObjectRecord
    /\ \A r \in ObjectRecord, f \in Fd \cup {Null} : [r EXCEPT !.fd = f] \in ObjectRecord
  <1>1. NumStatic \in Slot
    BY SlotsFinite
  <1> QED
    BY <1>1 DEF NoObject, NoCall, ObjectRecord, CallRecord

(* Entering a kind in an empty slot adds one to the occupied slots.        *)
LEMMA OneMore ==
    ASSUME partition_map \in [Slot -> Object \cup {Null}],
           NEW i \in Slot, partition_map[i] = Null,
           NEW o \in Object,
           partition_map' = [partition_map EXCEPT ![i] = o]
    PROVE  /\ Occupied' = Occupied \cup {i}
           /\ Cardinality(Occupied') = Cardinality(Occupied) + 1
           /\ Cardinality(Occupied) \in Nat
           /\ Cardinality(Occupied') \in 0 .. (MaxKind - NumStatic)
  <1>1. Occupied' = Occupied \cup {i} /\ i \notin Occupied
    BY KindRegistryAssumption DEF Occupied
  <1>2. IsFiniteSet(Occupied) /\ Occupied \subseteq Slot /\ Occupied' \subseteq Slot
    BY SlotsFinite, FS_Subset DEF Occupied
  <1>3. Cardinality(Occupied \cup {i}) = Cardinality(Occupied) + 1
    BY <1>1, <1>2, FS_AddElement
  <1>4. Cardinality(Occupied) \in Nat
    BY <1>2, FS_CardinalityType
  <1>5. Cardinality(Occupied') <= Cardinality(Slot)
    BY <1>2, SlotsFinite, FS_Subset
  <1> QED
    BY <1>1, <1>3, <1>4, <1>5, SlotsFinite, KindRegistryAssumption, SMTT(30)

(* Emptying a slot takes one away.                                         *)
LEMMA OneLess ==
    ASSUME partition_map \in [Slot -> Object \cup {Null}],
           NEW i \in Slot, partition_map[i] # Null,
           partition_map' = [partition_map EXCEPT ![i] = Null]
    PROVE  /\ Occupied' = Occupied \ {i}
           /\ Cardinality(Occupied') = Cardinality(Occupied) - 1
           /\ Cardinality(Occupied) \in Nat
           /\ Cardinality(Occupied') \in Nat
  <1>1. Occupied' = Occupied \ {i} /\ i \in Occupied
    BY DEF Occupied
  <1>2. IsFiniteSet(Occupied) /\ IsFiniteSet(Occupied')
    BY SlotsFinite, FS_Subset DEF Occupied
  <1>3. Cardinality(Occupied \ {i}) = Cardinality(Occupied) - 1
    BY <1>1, <1>2, FS_RemoveElement
  <1>4. Cardinality(Occupied) \in Nat /\ Cardinality(Occupied') \in Nat
    BY <1>2, FS_CardinalityType
  <1> QED
    BY <1>1, <1>3, <1>4

(***************************************************************************)
(* What memkind_create and memkind_destroy_kind do to the registry keeps   *)
(* it well typed and counted.                                              *)
(***************************************************************************)
RegistryType ==
    /\ partition_map \in [Slot -> Object \cup {Null}]
    /\ num_kind \in NumStatic .. MaxKind
    /\ heap \in [Object -> ObjectRecord]

LEMMA RegisterKeeps ==
    ASSUME RegistryType, CountsSlots,
           NEW n \in Name, NEW o \in Object, Register(n, o)
    PROVE  RegistryType' /\ CountsSlots'
  <1>1. PICK i \in Slot : FirstHole(i) /\ Publish(i, n, o, num_kind)
    BY DEF Register
  <1>2. /\ partition_map[i] = Null
        /\ partition_map' = [partition_map EXCEPT ![i] = o]
        /\ heap' = [heap EXCEPT ![o] = [live |-> TRUE, name |-> n,
                                        partition |-> num_kind, fd |-> Null]]
    BY <1>1 DEF FirstHole, Publish
  <1>3. /\ Cardinality(Occupied') = Cardinality(Occupied) + 1
        /\ Cardinality(Occupied) \in Nat
        /\ Cardinality(Occupied') \in 0 .. (MaxKind - NumStatic)
    BY <1>2, OneMore DEF RegistryType
  <1>4. num_kind' = num_kind + 1 /\ num_kind # MaxKind
    BY DEF Register
  <1>5. CountsSlots' /\ num_kind' \in NumStatic .. MaxKind
    BY <1>3, <1>4, KindRegistryAssumption, SMT DEF CountsSlots
  <1>6. num_kind \in Slot
    BY <1>4, KindRegistryAssumption, SMT DEF RegistryType, Slot
  <1>7. [live |-> TRUE, name |-> n, partition |-> num_kind, fd |-> Null] \in ObjectRecord
    BY <1>6, Records
  <1>8. heap' \in [Object -> ObjectRecord]
    BY <1>2, <1>7 DEF RegistryType
  <1>9. partition_map' \in [Slot -> Object \cup {Null}]
    BY <1>2 DEF RegistryType
  <1> QED
    BY <1>5, <1>8, <1>9 DEF RegistryType

LEMMA RemoveKeeps ==
    ASSUME RegistryType, CountsSlots, NEW o \in Object, RemoveByName(o)
    PROVE  RegistryType' /\ CountsSlots'
  <1>1. CASE UNCHANGED <<partition_map, num_kind, heap>>
    BY <1>1 DEF RegistryType, CountsSlots, Occupied
  <1>2. ASSUME NEW i \in Slot, MayMatch(i, heap[o].name), Unlink(i, o),
               num_kind' = num_kind - 1
        PROVE  RegistryType' /\ CountsSlots'
    <2>1. /\ partition_map[i] # Null
          /\ partition_map' = [partition_map EXCEPT ![i] = Null]
          /\ heap' = [heap EXCEPT ![o] = NoObject]
      BY <1>2 DEF MayMatch, Unlink
    <2>2. /\ Cardinality(Occupied') = Cardinality(Occupied) - 1
          /\ Cardinality(Occupied) \in Nat
          /\ Cardinality(Occupied') \in Nat
      BY <2>1, OneLess DEF RegistryType
    <2>3. CountsSlots'
      BY <1>2, <2>2, KindRegistryAssumption, SMT DEF CountsSlots
    <2>4. num_kind' \in NumStatic .. MaxKind
      BY <1>2, <2>2, KindRegistryAssumption, SMT DEF CountsSlots, RegistryType
    <2>5. heap' \in [Object -> ObjectRecord]
      BY <2>1, Records DEF RegistryType
    <2>6. partition_map' \in [Slot -> Object \cup {Null}]
      BY <2>1 DEF RegistryType
    <2> QED
      BY <2>3, <2>4, <2>5, <2>6 DEF RegistryType
  <1> QED
    BY <1>1, <1>2 DEF RemoveByName

(* memkind_finalize takes as many off num_kind as it empties slots; when   *)
(* its loop runs to the end, all of them are empty.                        *)
LEMMA FinalizeUpToKeeps ==
    ASSUME RegistryType, CountsSlots, NEW end \in Slot \cup {MaxKind}, FinalizeUpTo(end)
    PROVE  /\ RegistryType' /\ CountsSlots'
           /\ end = MaxKind => Occupied' = {}
  <1> DEFINE removed == {i \in Occupied : i < end}
  <1>1. /\ partition_map' = [i \in Slot |-> IF i \in removed THEN Null ELSE partition_map[i]]
        /\ num_kind' = num_kind - Cardinality(removed)
    BY DEF FinalizeUpTo
  <1>2. removed \subseteq Occupied /\ Occupied \subseteq Slot
    BY DEF Occupied
  <1>3. Occupied' = Occupied \ removed
    BY <1>1, <1>2 DEF Occupied
  <1>4. IsFiniteSet(Occupied) /\ IsFiniteSet(removed) /\ IsFiniteSet(Occupied')
    BY <1>2, <1>3, SlotsFinite, FS_Subset
  <1>5. Occupied \cap removed = removed
    BY <1>2
  <1>6. Cardinality(Occupied') = Cardinality(Occupied) - Cardinality(removed)
    BY <1>3, <1>4, <1>5, FS_Difference
  <1>7. /\ Cardinality(Occupied) \in Nat /\ Cardinality(removed) \in Nat
        /\ Cardinality(Occupied') \in Nat
    BY <1>4, FS_CardinalityType
  <1> HIDE DEF removed
  <1>8. CountsSlots' /\ num_kind' \in NumStatic .. MaxKind
    BY <1>1, <1>6, <1>7, KindRegistryAssumption, SMT DEF CountsSlots, RegistryType
  <1>9. heap' \in [Object -> ObjectRecord]
    <2>1. PICK gone : heap' = [o \in Object |-> IF o \in gone THEN NoObject ELSE heap[o]]
      BY DEF FinalizeUpTo
    <2> QED
      BY <2>1, Records DEF RegistryType
  <1>10. partition_map' \in [Slot -> Object \cup {Null}]
    BY <1>1 DEF RegistryType
  <1>11. end = MaxKind => Occupied' = {}
    <2>1. \A i \in Slot : i < MaxKind
      BY KindRegistryAssumption, SMT DEF Slot
    <2> QED
      BY <1>2, <1>3, <2>1 DEF removed
  <1> QED
    BY <1>8, <1>9, <1>10, <1>11 DEF RegistryType

LEMMA FinalizeKeeps ==
    ASSUME RegistryType, CountsSlots, Finalize
    PROVE  /\ RegistryType' /\ CountsSlots'
           /\ finalized' \in {"done", "stopped"}
           /\ finalized' = "done" => Occupied' = {}
           /\ finalized' = "stopped" => \E i \in Slot : Stops(i)
  BY FinalizeUpToKeeps DEF Finalize

(* Updates of the call of a thread keep its type.                          *)
LEMMA CallUpdates ==
    ASSUME NEW c \in [Thread -> CallRecord], NEW t \in Thread
    PROVE  /\ [c EXCEPT ![t] = NoCall] \in [Thread -> CallRecord]
           /\ \A f \in Fd : [c EXCEPT ![t] = [NoCall EXCEPT !.pc = "opened", !.fd = f]]
                               \in [Thread -> CallRecord]
           /\ \A e \in {"TOOMANY", "INVALID", "FAILED"} :
                 [c EXCEPT ![t].pc = "failed", ![t].err = e] \in [Thread -> CallRecord]
           /\ \A o \in Object :
                 [c EXCEPT ![t].pc = "published", ![t].kind = o] \in [Thread -> CallRecord]
  <1>1. NoCall \in CallRecord
    BY DEF CallRecord, NoCall
  <1>2. \A f \in Fd : [NoCall EXCEPT !.pc = "opened", !.fd = f] \in CallRecord
    BY DEF CallRecord, NoCall
  <1>3. ASSUME NEW e \in {"TOOMANY", "INVALID", "FAILED"}
        PROVE  [c EXCEPT ![t].pc = "failed", ![t].err = e] \in [Thread -> CallRecord]
    <2>1. c[t] \in CallRecord
      OBVIOUS
    <2>2. [c[t] EXCEPT !.pc = "failed", !.err = e] \in CallRecord
      BY <2>1 DEF CallRecord
    <2> QED
      BY <2>2
  <1>4. ASSUME NEW o \in Object
        PROVE  [c EXCEPT ![t].pc = "published", ![t].kind = o] \in [Thread -> CallRecord]
    <2>1. c[t] \in CallRecord
      OBVIOUS
    <2>2. [c[t] EXCEPT !.pc = "published", !.kind = o] \in CallRecord
      BY <2>1 DEF CallRecord
    <2> QED
      BY <2>2
  <1> QED
    BY <1>1, <1>2, <1>3, <1>4

CallsComplete == \A t \in Thread : /\ call[t].pc = "published" => call[t].kind \in Object
                                   /\ call[t].pc = "opened" => call[t].fd \in Fd

(* The remaining conjuncts of TypeOK.                                      *)
OtherTypes ==
    /\ open \subseteq Fd
    /\ call \in [Thread -> CallRecord]
    /\ CallsComplete
    /\ held \subseteq Object
    /\ g_alloc_size \in [Slot -> Int]
    /\ allocated \in [Object -> 0 .. MaxAlloc]
    /\ finalized \in {"no", "done", "stopped"}
    /\ program \in ProgramRecord

LEMMA TypeParts == TypeOK <=> RegistryType /\ OtherTypes
  BY DEF TypeOK, RegistryType, OtherTypes, CallsComplete

(* memkind_create_pmem keeps the types and the count.                      *)
LEMMA PmemCallKeeps ==
    ASSUME RegistryType, OtherTypes, CountsSlots, NEW t \in Thread,
           OpenTmpfile(t) \/ CreatePmem(t) \/ CloseTmpfile(t) \/ InitPriv(t),
           UNCHANGED <<finalized, program>>
    PROVE  RegistryType' /\ OtherTypes' /\ CountsSlots'
  <1>1. CASE OpenTmpfile(t)
    <2>1. PICK f \in Fd : /\ open' = open \cup {f}
                          /\ call' = [call EXCEPT ![t] = [NoCall EXCEPT !.pc = "opened", !.fd = f]]
      BY <1>1 DEF OpenTmpfile, OtherTypes, ProgramRecord
    <2>2. call' \in [Thread -> CallRecord]
      BY <2>1, CallUpdates DEF OtherTypes
    <2>3. CallsComplete'
      BY <2>1 DEF OtherTypes, CallsComplete, CallRecord, NoCall
    <2> QED
      BY <1>1, <2>1, <2>2, <2>3 DEF OpenTmpfile, RegistryType, OtherTypes, CountsSlots, Occupied
  <1>2. CASE CreatePmem(t)
    <2>1. call[t].pc = "opened" /\ UNCHANGED <<open, held, g_alloc_size, allocated>>
      BY <1>2 DEF CreatePmem
    <2>2. ASSUME NEW e \in {"TOOMANY", "INVALID", "FAILED"},
                 call' = [call EXCEPT ![t].pc = "failed", ![t].err = e],
                 UNCHANGED <<partition_map, num_kind, heap>>
          PROVE  RegistryType' /\ OtherTypes' /\ CountsSlots'
      <3>1. call' \in [Thread -> CallRecord]
        BY <2>2, CallUpdates DEF OtherTypes
      <3>2. CallsComplete'
        BY <2>2, SMT DEF OtherTypes, CallsComplete, CallRecord
      <3> QED
        BY <2>1, <2>2, <3>1, <3>2 DEF RegistryType, OtherTypes, CountsSlots, Occupied
    <2>3. ASSUME NEW o \in Object, Register(<<"pmem", call[t].fd>>, o),
                 call' = [call EXCEPT ![t].pc = "published", ![t].kind = o]
          PROVE  RegistryType' /\ OtherTypes' /\ CountsSlots'
      <3>1. call' \in [Thread -> CallRecord]
        BY <2>3, CallUpdates DEF OtherTypes
      <3>2. CallsComplete'
        BY <2>3, SMT DEF OtherTypes, CallsComplete, CallRecord
      <3>3. <<"pmem", call[t].fd>> \in Name
        BY <2>1 DEF OtherTypes, CallsComplete, Name
      <3>4. RegistryType' /\ CountsSlots'
        BY <2>3, <3>3, RegisterKeeps
      <3> QED
        BY <2>1, <3>1, <3>2, <3>4 DEF OtherTypes
    <2> QED
      BY <1>2, <2>2, <2>3 DEF CreatePmem
  <1>3. CASE CloseTmpfile(t)
    <2>1. call' = [call EXCEPT ![t] = NoCall] /\ open' = open \ {call[t].fd}
      BY <1>3 DEF CloseTmpfile
    <2>2. call' \in [Thread -> CallRecord]
      BY <2>1, CallUpdates DEF OtherTypes
    <2>3. CallsComplete'
      BY <2>1 DEF OtherTypes, CallsComplete, CallRecord, NoCall
    <2> QED
      BY <1>3, <2>1, <2>2, <2>3 DEF CloseTmpfile, RegistryType, OtherTypes, CountsSlots, Occupied
  <1>4. CASE InitPriv(t)
    <2>1. /\ call[t].kind \in Object /\ call[t].fd \in Fd \cup {Null}
          /\ heap' = [heap EXCEPT ![call[t].kind].fd = call[t].fd]
          /\ call' = [call EXCEPT ![t] = NoCall]
          /\ held' \in {held, held \cup {call[t].kind}}
          /\ open' \in {open, open \ {call[t].fd}}
          /\ UNCHANGED <<partition_map, num_kind, g_alloc_size, allocated>>
      BY <1>4 DEF InitPriv, OtherTypes, CallsComplete, CallRecord
    <2>2. call' \in [Thread -> CallRecord]
      BY <2>1, CallUpdates DEF OtherTypes
    <2>3. CallsComplete'
      BY <2>1 DEF OtherTypes, CallsComplete, CallRecord, NoCall
    <2>4. heap' \in [Object -> ObjectRecord]
      BY <2>1, Records DEF RegistryType
    <2> QED
      BY <2>1, <2>2, <2>3, <2>4 DEF RegistryType, OtherTypes, CountsSlots, Occupied
  <1> QED
    BY <1>1, <1>2, <1>3, <1>4

(* And so do the calls on a kind and memkind_create_fixed.                 *)
LEMMA FixedCallKeeps ==
    ASSUME RegistryType, OtherTypes, CountsSlots, NEW t \in Thread, NEW a \in Addr,
           CreateFixed(t, a), UNCHANGED <<finalized, program>>
    PROVE  RegistryType' /\ OtherTypes' /\ CountsSlots'
  <1>1. call[t].pc = "idle" /\ UNCHANGED <<open, held, g_alloc_size, allocated>>
    BY DEF CreateFixed
  <1>2. CASE UNCHANGED <<partition_map, num_kind, heap, call>>
    BY <1>1, <1>2 DEF RegistryType, OtherTypes, CountsSlots, Occupied, CallsComplete
  <1>3. ASSUME NEW o \in Object, Register(<<"fixed", a>>, o),
               call' = [call EXCEPT ![t].pc = "published", ![t].kind = o]
        PROVE  RegistryType' /\ OtherTypes' /\ CountsSlots'
    <2>1. call' \in [Thread -> CallRecord]
      BY <1>3, CallUpdates DEF OtherTypes
    <2>2. CallsComplete'
      BY <1>3, SMT DEF OtherTypes, CallsComplete, CallRecord
    <2>3. <<"fixed", a>> \in Name
      BY DEF Name
    <2>4. RegistryType' /\ CountsSlots'
      BY <1>3, <2>3, RegisterKeeps
    <2> QED
      BY <1>1, <2>1, <2>2, <2>4 DEF OtherTypes
  <1> QED
    BY <1>2, <1>3 DEF CreateFixed

LEMMA KindCallKeeps ==
    ASSUME RegistryType, OtherTypes, CountsSlots, NEW o \in Object,
           RecreateFile(o) \/ Destroy(o) \/ MemtierMalloc(o) \/ MemtierFree(o),
           UNCHANGED <<finalized, program>>
    PROVE  RegistryType' /\ OtherTypes' /\ CountsSlots'
  <1>1. heap[o].partition \in Slot
    BY DEF RegistryType, ObjectRecord
  <1>2. CASE RecreateFile(o)
    <2>1. PICK f \in Fd : /\ open' \subseteq open \cup {f}
                          /\ heap' \in {heap, [heap EXCEPT ![o].fd = f]}
      BY <1>2 DEF RecreateFile, OtherTypes, ProgramRecord
    <2>2. heap' \in [Object -> ObjectRecord]
      BY <2>1, Records, SMT DEF RegistryType
    <2> QED
      BY <1>2, <2>1, <2>2
      DEF RecreateFile, RegistryType, OtherTypes, CountsSlots, Occupied, CallsComplete
  <1>3. CASE Destroy(o)
    <2>1. RegistryType' /\ CountsSlots'
      BY <1>3, RemoveKeeps DEF Destroy, OpsDestroy
    <2>2. /\ held' = held \ {o}
          /\ open' = open \ {heap[o].fd}
          /\ g_alloc_size' = [g_alloc_size EXCEPT ![heap[o].partition] = 0]
          /\ allocated' = [allocated EXCEPT ![o] = 0]
          /\ UNCHANGED call
      BY <1>3 DEF Destroy, OpsDestroy
    <2>3. allocated' \in [Object -> 0 .. MaxAlloc]
      BY <2>2, KindRegistryAssumption, SMT DEF OtherTypes
    <2>4. g_alloc_size' \in [Slot -> Int]
      <3>1. PICK p \in Slot : g_alloc_size' = [g_alloc_size EXCEPT ![p] = 0]
        BY <1>1, <2>2
      <3> QED
        BY <3>1, SMT DEF OtherTypes
    <2>5. CallsComplete' /\ call' \in [Thread -> CallRecord]
      BY <2>2 DEF OtherTypes, CallsComplete
    <2> QED
      BY <2>1, <2>2, <2>3, <2>4, <2>5 DEF OtherTypes
  <1>4. CASE MemtierMalloc(o) \/ MemtierFree(o)
    <2>1. /\ UNCHANGED <<partition_map, num_kind, heap, open, call, held>>
          /\ g_alloc_size' \in [Slot -> Int]
      BY <1>1, <1>4, SMT DEF MemtierMalloc, MemtierFree, OtherTypes
    <2>2. allocated' \in [Object -> 0 .. MaxAlloc]
      <3>1. program.units \in 0 .. MaxAlloc
        BY DEF OtherTypes, ProgramRecord
      <3> QED
        BY <1>4, <3>1, KindRegistryAssumption, SMT DEF MemtierMalloc, MemtierFree, OtherTypes
    <2> QED
      BY <2>1, <2>2 DEF RegistryType, OtherTypes, CountsSlots, Occupied, CallsComplete
  <1> QED
    BY <1>2, <1>3, <1>4

(* The types and the count are inductive.                                  *)
LEMMA CountedStep ==
    ASSUME RegistryType, OtherTypes, CountsSlots, [Next]_vars
    PROVE  RegistryType' /\ OtherTypes' /\ CountsSlots'
  <1>1. CASE UNCHANGED vars
    BY <1>1 DEF vars, RegistryType, OtherTypes, CountsSlots, Occupied, CallsComplete
  <1>2. CASE Step /\ UNCHANGED <<finalized, program>>
    <2>1. program.areas \subseteq Addr
      BY DEF OtherTypes, ProgramRecord
    <2> QED
      BY <1>2, <2>1, PmemCallKeeps, FixedCallKeeps, KindCallKeeps DEF Step
  <1>3. CASE Finalize /\ UNCHANGED program
    <2>1. RegistryType' /\ CountsSlots' /\ finalized' \in {"no", "done", "stopped"}
      BY <1>3, FinalizeKeeps
    <2>2. held' = {} /\ UNCHANGED <<call, program>> /\ allocated' = [o \in Object |-> 0]
      BY <1>3 DEF Finalize
    <2>3. open' \subseteq open /\ g_alloc_size' \in [Slot -> Int]
      <3>1. PICK end : FinalizeUpTo(end)
        BY <1>3 DEF Finalize
      <3>2. open' \subseteq open
        BY <3>1 DEF FinalizeUpTo
      <3>3. PICK S : g_alloc_size' = [p \in Slot |-> IF p \in S THEN 0 ELSE g_alloc_size[p]]
        BY <3>1 DEF FinalizeUpTo
      <3> QED
        BY <3>2, <3>3, SMT DEF OtherTypes
    <2>4. allocated' \in [Object -> 0 .. MaxAlloc]
      BY <2>2, KindRegistryAssumption, SMT
    <2> QED
      BY <2>1, <2>2, <2>3, <2>4 DEF OtherTypes, CallsComplete
  <1> QED
    BY <1>1, <1>2, <1>3 DEF Next

LEMMA CountedInit ==
    ASSUME Init
    PROVE  RegistryType /\ OtherTypes /\ CountsSlots
  <1>1. Occupied = {}
    BY DEF Init, Occupied
  <1>2. Cardinality(Occupied) = 0
    BY <1>1, FS_EmptySet
  <1>3. partition_map \in [Slot -> Object \cup {Null}] /\ heap \in [Object -> ObjectRecord]
    BY Records DEF Init
  <1>4. num_kind \in NumStatic .. MaxKind /\ CountsSlots
    BY <1>2, KindRegistryAssumption, SMT DEF Init, CountsSlots
  <1>5. call \in [Thread -> CallRecord] /\ CallsComplete
    BY Records DEF Init, CallsComplete
  <1>6. allocated \in [Object -> 0 .. MaxAlloc] /\ g_alloc_size \in [Slot -> Int]
    BY KindRegistryAssumption, SMT DEF Init
  <1> QED
    BY <1>3, <1>4, <1>5, <1>6, KindRegistryAssumption DEF Init, RegistryType, OtherTypes

(* For any number of threads, and whatever fails, the registry keeps its   *)
(* types: no partition is outside of memtier's counters.                   *)
THEOREM TypeCorrect == Spec => []TypeOK
  <1>1. Init => RegistryType /\ OtherTypes /\ CountsSlots
    BY CountedInit
  <1>2. RegistryType /\ OtherTypes /\ CountsSlots /\ [Next]_vars
          => (RegistryType /\ OtherTypes /\ CountsSlots)'
    BY CountedStep
  <1> QED
    BY <1>1, <1>2, TypeParts, PTL DEF Spec

(* num_kind counts the occupied slots of the registry, so a search by      *)
(* memkind_create always finds an empty one.                               *)
THEOREM CountsSlotsHolds == Spec => []CountsSlots
  <1>1. Init => RegistryType /\ OtherTypes /\ CountsSlots
    BY CountedInit
  <1>2. RegistryType /\ OtherTypes /\ CountsSlots /\ [Next]_vars
          => (RegistryType /\ OtherTypes /\ CountsSlots)'
    BY CountedStep
  <1> QED
    BY <1>1, <1>2, PTL DEF Spec

(* memkind_finalize leaves what its assertion says when its loop runs to   *)
(* the end, whatever failed before and wherever the exit interrupts other  *)
(* threads: num_kind is back at the number of static kinds and no slot     *)
(* points to a kind that was freed.                                        *)
THEOREM FinalizedEmptyHolds == Spec => []FinalizedEmpty
  <1> DEFINE Emptied == finalized = "done" => Occupied = {}
  <1>1. Init => RegistryType /\ OtherTypes /\ CountsSlots /\ Emptied
    BY CountedInit DEF Init
  <1>2. RegistryType /\ OtherTypes /\ CountsSlots /\ Emptied /\ [Next]_vars
          => (RegistryType /\ OtherTypes /\ CountsSlots /\ Emptied)'
    <2>1. SUFFICES ASSUME RegistryType, OtherTypes, CountsSlots, Emptied, [Next]_vars
                   PROVE  (RegistryType /\ OtherTypes /\ CountsSlots /\ Emptied)'
      OBVIOUS
    <2>2. (RegistryType /\ OtherTypes /\ CountsSlots)'
      BY <2>1, CountedStep
    <2>3. CASE UNCHANGED vars
      BY <2>1, <2>2, <2>3 DEF vars, Occupied
    <2>4. CASE finalized = "no" /\ Step /\ UNCHANGED finalized
      BY <2>2, <2>4
    <2>5. CASE Finalize
      BY <2>1, <2>2, <2>5, FinalizeKeeps
    <2> QED
      BY <2>1, <2>3, <2>4, <2>5 DEF Next
  <1>3. CountsSlots /\ Emptied => FinalizedEmpty
    BY FS_EmptySet, KindRegistryAssumption, SMT DEF CountsSlots, FinalizedEmpty
  <1> QED
    BY <1>1, <1>2, <1>3, PTL DEF Spec

-----------------------------------------------------------------------------
(***************************************************************************)
(* Orderly programs: kinds on files only, whose files never outgrow their  *)
(* file system and whose directory name can be copied.  Then names, slots  *)
(* and descriptors agree, for any number of threads, kinds and descriptors.*)
(***************************************************************************)
(* What a live kind is called: by the number of a descriptor that is open, *)
(* its own, or that of the call that is creating it.                       *)
Names ==
    /\ \A o \in Object : heap[o].live => \E f \in open : heap[o].name = <<"pmem", f>>
    /\ \A o, p \in Object : heap[o].live /\ heap[p].live /\ heap[o].name = heap[p].name
                              => o = p
    /\ \A o \in Object : heap[o].live =>
          \/ heap[o].fd # Null /\ heap[o].name = <<"pmem", heap[o].fd>>
          \/ heap[o].fd = Null /\ Created(o)

(* What a call owns: its descriptor, and the kind it has published.        *)
CallIdle == \A t \in Thread : (call[t].pc = "idle" <=> call[t].fd = Null)

CallOpen == \A t \in Thread : call[t].fd # Null => call[t].fd \in open

CallAlone == \A s, t \in Thread : call[s].fd # Null /\ call[s].fd = call[t].fd => s = t

CallNew ==
    \A t \in Thread : call[t].pc \in {"opened", "failed"} =>
       \A o \in Object : heap[o].live => heap[o].name # <<"pmem", call[t].fd>>

CallKind ==
    \A t \in Thread : call[t].pc = "published" =>
       /\ heap[call[t].kind].live
       /\ heap[call[t].kind].fd = Null
       /\ heap[call[t].kind].name = <<"pmem", call[t].fd>>

Calls == CallIdle /\ CallOpen /\ CallAlone /\ CallNew /\ CallKind

(* No descriptor is forgotten.                                             *)
Opened ==
    \A f \in open : \/ \E o \in Object : heap[o].live /\ heap[o].name = <<"pmem", f>>
                    \/ \E t \in Thread : call[t].fd = f

(* The live kinds are those of the registry.                               *)
Slots ==
    /\ \A i \in Slot : partition_map[i] # Null => heap[partition_map[i]].live
    /\ \A i, j \in Slot : partition_map[i] # Null /\ partition_map[i] = partition_map[j]
                            => i = j
    /\ \A o \in Object : heap[o].live => \E i \in Slot : partition_map[i] = o
    /\ \A o \in held : heap[o].live /\ heap[o].fd # Null

Types == RegistryType /\ OtherTypes

PInv ==
    /\ finalized = "no" => Names /\ Calls /\ Opened /\ Slots
    /\ finalized # "no" => Occupied = {}
    /\ FreshNames

(* The invariant has the properties the runs check as consequences.        *)
LEMMA PInvImplies ==
    ASSUME Types, PInv
    PROVE  UniqueNames /\ SlotsLive /\ FilesOwned
  <1>1. CASE finalized # "no"
    BY <1>1 DEF PInv, UniqueNames, SlotsLive, FilesOwned
  <1>2. CASE finalized = "no"
    <2>1. Names /\ Calls /\ Opened /\ Slots
      BY <1>2 DEF PInv
    <2>2. \A i \in Occupied : i \in Slot /\ partition_map[i] \in Object /\ partition_map[i] # Null
      BY DEF Occupied, Types, RegistryType
    <2>3. UniqueNames
      BY <2>1, <2>2, SMT DEF UniqueNames, Names, Slots
    <2>4. SlotsLive
      <3>1. \A o \in Object : Created(o) => heap[o].live
        BY <2>1 DEF Created, Calls, CallIdle, CallOpen, CallAlone, CallNew, CallKind
      <3> QED
        BY <2>1, <2>2, <3>1 DEF SlotsLive, Slots
    <2>5. FilesOwned
      <3>1. ASSUME NEW w \in Owners
            PROVE  /\ FdOf(w) \in open
                   /\ w[1] \in {"kind", "call"}
                   /\ w[1] = "kind" => /\ w[2] \in Object /\ w = <<"kind", w[2]>>
                                       /\ heap[w[2]].live /\ heap[w[2]].fd # Null
                                       /\ FdOf(w) = heap[w[2]].fd
                   /\ w[1] = "call" => /\ w[2] \in Thread /\ w = <<"call", w[2]>>
                                       /\ call[w[2]].fd # Null
                                       /\ FdOf(w) = call[w[2]].fd
        <4>1. ASSUME NEW o \in Object, heap[o].live, heap[o].fd # Null
              PROVE  heap[o].fd \in open
          BY <2>1, <4>1, SMT DEF Names
        <4>2. ASSUME NEW t \in Thread, call[t].fd # Null
              PROVE  call[t].fd \in open
          BY <2>1, <4>2 DEF Calls, CallIdle, CallOpen, CallAlone, CallNew, CallKind
        <4> QED
          BY <4>1, <4>2, SMT DEF Owners, FdOf
      <3>2. ASSUME NEW f \in open
            PROVE  \E w \in Owners : FdOf(w) = f
        <4>1. CASE \E t \in Thread : call[t].fd = f
          <5>1. PICK t \in Thread : call[t].fd = f
            BY <4>1
          <5>2. f # Null
            BY KindRegistryAssumption DEF Types, OtherTypes
          <5>3. <<"call", t>> \in Owners /\ FdOf(<<"call", t>>) = f
            BY <5>1, <5>2 DEF Owners, FdOf
          <5> QED
            BY <5>3
        <4>2. CASE ~ \E t \in Thread : call[t].fd = f
          <5>1. PICK o \in Object : heap[o].live /\ heap[o].name = <<"pmem", f>>
            BY <2>1, <4>2 DEF Opened
          <5>2. heap[o].fd # Null /\ heap[o].name = <<"pmem", heap[o].fd>>
            BY <2>1, <4>2, <5>1, SMT DEF Names, Calls, CallIdle, CallOpen, CallAlone, CallNew, CallKind, Created
          <5>3. heap[o].fd = f
            BY <5>1, <5>2, SMTT(30)
          <5>4. <<"kind", o>> \in Owners /\ FdOf(<<"kind", o>>) = f
            BY <5>1, <5>2, <5>3 DEF Owners, FdOf
          <5> QED
            BY <5>4
        <4> QED
          BY <4>1, <4>2
      <3>3. ASSUME NEW o \in Object, NEW t \in Thread, heap[o].live, heap[o].fd # Null,
                   call[t].fd = heap[o].fd
            PROVE  FALSE
        <4>1. heap[o].name = <<"pmem", call[t].fd>>
          BY <2>1, <3>3 DEF Names
        <4>2. call[t].pc \in {"opened", "failed", "published"}
          BY <2>1, <3>3 DEF Calls, CallIdle, CallOpen, CallAlone, CallNew, CallKind, Types, OtherTypes, CallRecord
        <4>3. call[t].pc = "published" /\ call[t].kind \in Object
          BY <2>1, <3>3, <4>1, <4>2 DEF Calls, CallIdle, CallOpen, CallAlone, CallNew, CallKind, Types, OtherTypes, CallsComplete
        <4>4. call[t].kind = o /\ heap[call[t].kind].fd = Null
          BY <2>1, <3>3, <4>1, <4>3 DEF Calls, CallIdle, CallOpen, CallAlone, CallNew, CallKind, Names
        <4> QED
          BY <3>3, <4>4
      <3>4. ASSUME NEW o \in Object, NEW p \in Object, heap[o].live, heap[p].live,
                   heap[o].fd # Null, heap[o].fd = heap[p].fd
            PROVE  o = p
        BY <2>1, <3>4 DEF Names
      <3>5. ASSUME NEW v \in Owners, NEW w \in Owners, FdOf(v) = FdOf(w)
            PROVE  v = w
        <4>1. CASE v[1] = "kind" /\ w[1] = "kind"
          BY <3>1, <3>4, <3>5, <4>1, SMTT(30)
        <4>2. CASE v[1] = "call" /\ w[1] = "call"
          BY <3>1, <3>5, <4>2, <2>1, SMT DEF Calls, CallIdle, CallOpen, CallAlone, CallNew, CallKind
        <4>3. CASE v[1] # w[1]
          BY <3>1, <3>3, <3>5, <4>3
        <4> QED
          BY <3>1, <4>1, <4>2, <4>3
      <3>6. {FdOf(w) : w \in Owners} = open
        BY <3>1, <3>2
      <3> QED
        BY <3>5, <3>6 DEF FilesOwned
    <2> QED
      BY <2>3, <2>4, <2>5
  <1> QED
    BY <1>1, <1>2

(* The invariant while the program runs.                                   *)
RInv == Names /\ Calls /\ Opened /\ Slots

(* The call of thread t becomes one with these fields, the others stay.    *)
CallMoves(t, pc, fd, kind) ==
    /\ call'[t].pc = pc /\ call'[t].fd = fd /\ call'[t].kind = kind
    /\ \A s \in Thread : s # t => call'[s] = call[s]

LEMMA OpenStep ==
    ASSUME Types, RInv, NEW t \in Thread, OpenTmpfile(t)
    PROVE  RInv'
  <1>1. PICK f \in Fd \ open :
           /\ open' = open \cup {f}
           /\ call' = [call EXCEPT ![t] = [NoCall EXCEPT !.pc = "opened", !.fd = f]]
    BY DEF OpenTmpfile, Types, OtherTypes, ProgramRecord
  <1>2. call[t].pc = "idle" /\ UNCHANGED <<partition_map, heap, held>>
    BY DEF OpenTmpfile
  <1>3. /\ f # Null
        /\ call'[t].pc = "opened" /\ call'[t].fd = f
        /\ \A s \in Thread : s # t => call'[s] = call[s]
        /\ call[t].fd = Null
    BY <1>1, <1>2, KindRegistryAssumption, SMT DEF Types, OtherTypes, NoCall, RInv, Calls, CallIdle, CallOpen, CallAlone, CallNew, CallKind
  <1>4. \A o \in Object : Created(o)' <=> Created(o)
    BY <1>2, <1>3 DEF Created
  <1>5. Names'
    BY <1>1, <1>2, <1>4 DEF RInv, Names
  <1>6. \A o \in Object : heap[o].live => heap[o].name # <<"pmem", f>>
    BY <1>1, SMTT(30) DEF RInv, Names
  <1>7. Calls'
    <2>1. CallIdle' /\ CallOpen'
      BY <1>1, <1>3, SMTT(30) DEF RInv, Calls, CallIdle, CallOpen
    <2>2. CallAlone'
      BY <1>1, <1>3, SMT DEF RInv, Calls, CallAlone, CallOpen
    <2>3. CallNew'
      BY <1>2, <1>3, <1>6 DEF RInv, Calls, CallNew
    <2>4. CallKind'
      BY <1>2, <1>3 DEF RInv, Calls, CallKind
    <2> QED
      BY <2>1, <2>2, <2>3, <2>4 DEF Calls
  <1>8. Opened'
    <2>1. SUFFICES ASSUME NEW g \in open', ~ \E s \in Thread : call'[s].fd = g
                   PROVE  \E o \in Object : heap'[o].live /\ heap'[o].name = <<"pmem", g>>
      BY DEF Opened
    <2>2. g \in open /\ ~ \E s \in Thread : call[s].fd = g
      BY <1>1, <1>3, <2>1, KindRegistryAssumption DEF Types, OtherTypes
    <2> QED
      BY <1>2, <2>2 DEF RInv, Opened
  <1>9. Slots'
    BY <1>2 DEF RInv, Slots
  <1> QED
    BY <1>5, <1>7, <1>8, <1>9 DEF RInv

LEMMA CreateErrorStep ==
    ASSUME Types, RInv, NEW t \in Thread, call[t].pc = "opened",
           NEW e \in {"TOOMANY", "INVALID", "FAILED"},
           CreateError(<<"pmem", call[t].fd>>, e),
           CallMoves(t, "failed", call[t].fd, call[t].kind),
           partition_map' = partition_map, heap' = heap, open' = open, held' = held
    PROVE  RInv' /\ e # "INVALID"
  <1>1. e # "INVALID"
    <2>1. SUFFICES ASSUME NEW i \in Slot, MayMatch(i, <<"pmem", call[t].fd>>)
                   PROVE  FALSE
      BY DEF CreateError
    <2>2. partition_map[i] \in Object /\ partition_map[i] # Null
      BY <2>1 DEF MayMatch, Types, RegistryType
    <2>3. heap[partition_map[i]].live /\ heap[partition_map[i]].name = <<"pmem", call[t].fd>>
      BY <2>1, <2>2 DEF MayMatch, RInv, Slots
    <2> QED
      BY <2>2, <2>3 DEF RInv, Calls, CallIdle, CallOpen, CallAlone, CallNew, CallKind
  <1>2. /\ call'[t].pc = "failed" /\ call'[t].fd = call[t].fd
        /\ \A s \in Thread : s # t => call'[s] = call[s]
    BY DEF CallMoves
  <1>3. \A o \in Object : Created(o)' <=> Created(o)
    BY <1>2 DEF Created
  <1>4. Names'
    BY <1>3 DEF RInv, Names
  <1>5. Calls'
    <2>1. \A s \in Thread :
             /\ call'[s].fd = call[s].fd
             /\ call'[s].pc = "idle" <=> call[s].pc = "idle"
             /\ call'[s].pc \in {"opened", "failed"} => call[s].pc \in {"opened", "failed"}
      BY <1>2
    <2>2. CallIdle' /\ CallOpen'
      BY <2>1 DEF RInv, Calls, CallIdle, CallOpen
    <2>3. CallAlone'
      BY <2>1 DEF RInv, Calls, CallAlone
    <2>4. CallNew'
      BY <2>1 DEF RInv, Calls, CallNew
    <2>5. CallKind'
      BY <1>2, <2>1, SMTT(30) DEF RInv, Calls, CallKind
    <2> QED
      BY <2>2, <2>3, <2>4, <2>5 DEF Calls
  <1>6. Opened'
    <2>1. SUFFICES ASSUME NEW g \in open', ~ \E s \in Thread : call'[s].fd = g
                   PROVE  \E o \in Object : heap'[o].live /\ heap'[o].name = <<"pmem", g>>
      BY DEF Opened
    <2>2. g \in open /\ ~ \E s \in Thread : call[s].fd = g
      BY <1>2, <2>1
    <2> QED
      BY <2>2 DEF RInv, Opened
  <1>7. Slots'
    BY DEF RInv, Slots
  <1> QED
    BY <1>1, <1>4, <1>5, <1>6, <1>7 DEF RInv

LEMMA RegisterStep ==
    ASSUME Types, RInv, NEW t \in Thread, call[t].pc = "opened",
           NEW o \in Object, Register(<<"pmem", call[t].fd>>, o),
           CallMoves(t, "published", call[t].fd, o),
           open' = open, held' = held
    PROVE  RInv'
  <1>1. PICK i \in Slot : FirstHole(i) /\ Publish(i, <<"pmem", call[t].fd>>, o, num_kind)
    BY DEF Register
  <1>2. /\ partition_map[i] = Null
        /\ partition_map' = [partition_map EXCEPT ![i] = o]
        /\ ~heap[o].live
    BY <1>1 DEF Register, FirstHole, Publish
  <1>3. /\ heap'[o].live /\ heap'[o].name = <<"pmem", call[t].fd>> /\ heap'[o].fd = Null
        /\ \A p \in Object : p # o => heap'[p] = heap[p]
    BY <1>1 DEF Publish, Types, RegistryType
  <1>4. /\ call'[t].pc = "published" /\ call'[t].fd = call[t].fd /\ call'[t].kind = o
        /\ \A s \in Thread : s # t => call'[s] = call[s]
    BY DEF CallMoves
  <1>5. partition_map'[i] = o /\ \A j \in Slot : j # i => partition_map'[j] = partition_map[j]
    BY <1>2 DEF Types, RegistryType
  <1>6. Created(o)' /\ \A p \in Object : p # o => (Created(p) => Created(p)')
    BY <1>4 DEF Created
  <1>7. call[t].fd \in open /\ \A p \in Object : heap[p].live => heap[p].name # <<"pmem", call[t].fd>>
    BY DEF RInv, Calls, CallIdle, CallOpen, CallAlone, CallNew, CallKind
  <1>8. Names'
    BY <1>2, <1>3, <1>6, <1>7, SMTT(30) DEF RInv, Names
  <1>9. \A s \in Thread : call[s].pc = "published" => call[s].kind \in Object /\ call[s].kind # o
    BY <1>2 DEF RInv, Calls, CallIdle, CallOpen, CallAlone, CallNew, CallKind, Types, OtherTypes, CallsComplete
  <1>10. Calls'
    <2>1. \A s \in Thread : s # t => call[s].fd # call[t].fd
      BY <1>7, KindRegistryAssumption, SMT DEF RInv, Calls, CallIdle, CallOpen, CallAlone, CallNew, CallKind, Types, OtherTypes
    <2>2. \A s \in Thread :
             /\ call'[s].fd = call[s].fd
             /\ call'[s].pc = "idle" <=> call[s].pc = "idle"
             /\ call'[s].pc \in {"opened", "failed"}
                  => s # t /\ call[s].pc \in {"opened", "failed"}
             /\ call'[s].pc = "published" => s = t \/ call[s].pc = "published"
      BY <1>4
    <2>3. CallIdle' /\ CallOpen'
      BY <2>2 DEF RInv, Calls, CallIdle, CallOpen
    <2>4. CallAlone'
      BY <2>2 DEF RInv, Calls, CallAlone
    <2>5. CallNew'
      <3>1. SUFFICES ASSUME NEW s \in Thread, call'[s].pc \in {"opened", "failed"},
                            NEW p \in Object, heap'[p].live
                     PROVE  heap'[p].name # <<"pmem", call'[s].fd>>
        BY DEF CallNew
      <3>2. s # t /\ call[s].pc \in {"opened", "failed"} /\ call'[s].fd = call[s].fd
        BY <2>2, <3>1
      <3>3. CASE p = o
        BY <1>3, <2>1, <3>2, <3>3, SMT
      <3>4. CASE p # o
        BY <1>3, <3>1, <3>2, <3>4 DEF RInv, Calls, CallNew
      <3> QED
        BY <3>3, <3>4
    <2>6. CallKind'
      <3>1. SUFFICES ASSUME NEW s \in Thread, call'[s].pc = "published"
                     PROVE  /\ heap'[call'[s].kind].live
                            /\ heap'[call'[s].kind].fd = Null
                            /\ heap'[call'[s].kind].name = <<"pmem", call'[s].fd>>
        BY DEF CallKind
      <3>2. CASE s = t
        BY <1>3, <1>4, <3>2
      <3>3. CASE s # t
        <4>1. call[s].pc = "published" /\ call'[s] = call[s]
          BY <1>4, <2>2, <3>1, <3>3
        <4>2. heap'[call[s].kind] = heap[call[s].kind]
          BY <1>3, <1>9, <4>1
        <4> QED
          BY <4>1, <4>2, SMT DEF RInv, Calls, CallKind
      <3> QED
        BY <3>2, <3>3
    <2> QED
      BY <2>3, <2>4, <2>5, <2>6 DEF Calls
  <1>11. Opened'
    <2>1. SUFFICES ASSUME NEW g \in open', ~ \E s \in Thread : call'[s].fd = g
                   PROVE  \E p \in Object : heap'[p].live /\ heap'[p].name = <<"pmem", g>>
      BY DEF Opened
    <2>2. g \in open /\ ~ \E s \in Thread : call[s].fd = g
      BY <1>4, <2>1
    <2>3. PICK p \in Object : heap[p].live /\ heap[p].name = <<"pmem", g>>
      BY <2>2 DEF RInv, Opened
    <2> QED
      BY <1>2, <1>3, <2>3
  <1>12. \A p \in held : p # o /\ p \in Object
    BY <1>2 DEF RInv, Slots, Types, OtherTypes
  <1>13. \A j \in Slot : partition_map[j] # Null => partition_map[j] \in Object /\ partition_map[j] # o
    BY <1>2 DEF RInv, Slots, Types, RegistryType
  <1>14. Slots'
    BY <1>2, <1>3, <1>5, <1>12, <1>13, KindRegistryAssumption, SMT DEF RInv, Slots
  <1> QED
    BY <1>8, <1>10, <1>11, <1>14 DEF RInv

LEMMA CloseStep ==
    ASSUME Types, RInv, NEW t \in Thread, call[t].pc = "failed",
           CallMoves(t, "idle", Null, Null), open' = open \ {call[t].fd},
           partition_map' = partition_map, heap' = heap, held' = held
    PROVE  RInv'
  <1>1. /\ call'[t].pc = "idle" /\ call'[t].fd = Null
        /\ \A s \in Thread : s # t => call'[s] = call[s]
    BY DEF CallMoves
  <1>2. call[t].fd # Null /\ \A o \in Object : heap[o].live => heap[o].name # <<"pmem", call[t].fd>>
    BY DEF RInv, Calls, CallNew, CallIdle
  <1>3. \A o \in Object : Created(o) => Created(o)'
    BY <1>1 DEF Created
  <1>4. Names'
    BY <1>2, <1>3 DEF RInv, Names
  <1>5. \A s \in Thread : s # t => call[s].fd # call[t].fd
    BY <1>2 DEF RInv, Calls, CallAlone
  <1>6. Calls'
    <2>1. CallIdle' /\ CallAlone'
      BY <1>1 DEF RInv, Calls, CallIdle, CallAlone
    <2>2. CallOpen'
      BY <1>1, <1>5 DEF RInv, Calls, CallOpen
    <2>3. \A s \in Thread : call'[s].pc # "idle" => call'[s] = call[s]
      BY <1>1
    <2>4. CallNew'
      BY <2>3 DEF RInv, Calls, CallNew
    <2>5. CallKind'
      BY <2>3 DEF RInv, Calls, CallKind
    <2> QED
      BY <2>1, <2>2, <2>4, <2>5 DEF Calls
  <1>7. Opened'
    <2>1. SUFFICES ASSUME NEW g \in open', ~ \E s \in Thread : call'[s].fd = g
                   PROVE  \E o \in Object : heap'[o].live /\ heap'[o].name = <<"pmem", g>>
      BY DEF Opened
    <2>2. g \in open /\ ~ \E s \in Thread : call[s].fd = g
      BY <1>1, <2>1
    <2> QED
      BY <2>2 DEF RInv, Opened
  <1>8. Slots'
    BY DEF RInv, Slots
  <1> QED
    BY <1>4, <1>6, <1>7, <1>8 DEF RInv

LEMMA InitPrivStep ==
    ASSUME Types, RInv, NEW t \in Thread, NEW k \in Object,
           call[t].pc = "published", call[t].kind = k,
           heap' = [heap EXCEPT ![k].fd = call[t].fd],
           CallMoves(t, "idle", Null, Null), open' = open,
           partition_map' = partition_map, held' \in {held, held \cup {k}}
    PROVE  RInv'
  <1>1. /\ call'[t].pc = "idle" /\ call'[t].fd = Null
        /\ \A s \in Thread : s # t => call'[s] = call[s]
    BY DEF CallMoves
  <1>2. /\ heap[k].live /\ heap[k].fd = Null /\ heap[k].name = <<"pmem", call[t].fd>>
        /\ call[t].fd # Null
    BY DEF RInv, Calls, CallKind, CallIdle
  <1>3. /\ heap'[k].live /\ heap'[k].fd = call[t].fd /\ heap'[k].name = <<"pmem", call[t].fd>>
        /\ \A o \in Object : o # k => heap'[o] = heap[o]
        /\ \A o \in Object : heap'[o].live = heap[o].live /\ heap'[o].name = heap[o].name
    BY <1>2 DEF Types, RegistryType, ObjectRecord
  <1>4. \A o \in Object : o # k => (Created(o) => Created(o)')
    BY <1>1 DEF Created
  <1>5. Names'
    <2>1. \A o \in Object : heap'[o].live => \E f \in open' : heap'[o].name = <<"pmem", f>>
      BY <1>3, SMT DEF RInv, Names
    <2>2. \A o, p \in Object : heap'[o].live /\ heap'[p].live /\ heap'[o].name = heap'[p].name
                                 => o = p
      BY <1>3, SMTT(30) DEF RInv, Names
    <2>3. ASSUME NEW o \in Object, heap'[o].live
          PROVE  \/ heap'[o].fd # Null /\ heap'[o].name = <<"pmem", heap'[o].fd>>
                 \/ heap'[o].fd = Null /\ Created(o)'
      <3>1. CASE o = k
        BY <1>2, <1>3, <3>1
      <3>2. CASE o # k
        BY <1>3, <1>4, <2>3, <3>2, SMT DEF RInv, Names
      <3> QED
        BY <3>1, <3>2
    <2> QED
      BY <2>1, <2>2, <2>3 DEF Names
  <1>6. Calls'
    <2>1. CallIdle' /\ CallOpen' /\ CallAlone'
      BY <1>1, SMTT(30) DEF RInv, Calls, CallIdle, CallOpen, CallAlone
    <2>2. CallNew'
      BY <1>1, <1>3, SMTT(30) DEF RInv, Calls, CallNew
    <2>3. CallKind'
      <3>1. SUFFICES ASSUME NEW s \in Thread, call'[s].pc = "published"
                     PROVE  /\ heap'[call'[s].kind].live
                            /\ heap'[call'[s].kind].fd = Null
                            /\ heap'[call'[s].kind].name = <<"pmem", call'[s].fd>>
        BY DEF CallKind
      <3>2. s # t /\ call'[s] = call[s] /\ call[s].pc = "published"
        BY <1>1, <3>1
      <3>3. /\ call[s].kind \in Object
            /\ heap[call[s].kind].live /\ heap[call[s].kind].fd = Null
            /\ heap[call[s].kind].name = <<"pmem", call[s].fd>>
        BY <3>2 DEF RInv, Calls, CallKind, Types, OtherTypes, CallsComplete
      <3>4. call[s].kind # k
        BY <1>2, <3>2, <3>3, SMT DEF RInv, Calls, CallAlone
      <3> QED
        BY <1>3, <3>2, <3>3, <3>4, SMT
    <2> QED
      BY <2>1, <2>2, <2>3 DEF Calls
  <1>7. Opened'
    <2>1. SUFFICES ASSUME NEW g \in open', ~ \E s \in Thread : call'[s].fd = g
                   PROVE  \E o \in Object : heap'[o].live /\ heap'[o].name = <<"pmem", g>>
      BY DEF Opened
    <2>2. CASE g = call[t].fd
      BY <1>3, <2>2
    <2>3. CASE g # call[t].fd
      <3>1. g \in open /\ ~ \E s \in Thread : call[s].fd = g
        BY <1>1, <2>1, <2>3
      <3>2. PICK o \in Object : heap[o].live /\ heap[o].name = <<"pmem", g>>
        BY <3>1 DEF RInv, Opened
      <3> QED
        BY <1>3, <3>2
    <2> QED
      BY <2>2, <2>3
  <1>8. Slots'
    <2>1. \A o \in held' : o = k \/ (o \in held /\ o \in Object)
      BY DEF Types, OtherTypes
    <2>2. \A o \in held' : heap'[o].live /\ heap'[o].fd # Null
      BY <1>2, <1>3, <2>1, SMT DEF RInv, Slots
    <2>3. \A i \in Slot : partition_map[i] # Null => partition_map[i] \in Object
      BY DEF Types, RegistryType
    <2> QED
      BY <1>3, <2>2, <2>3, SMT DEF RInv, Slots
  <1> QED
    BY <1>5, <1>6, <1>7, <1>8 DEF RInv

LEMMA DestroyStep ==
    ASSUME Types, RInv, NEW o \in Object, o \in held, RemoveByName(o),
           held' = held \ {o}, open' = open \ {heap[o].fd}, call' = call
    PROVE  RInv'
  <1>1. heap[o].live /\ heap[o].fd # Null /\ heap[o].name = <<"pmem", heap[o].fd>>
    BY DEF RInv, Slots, Names
  <1>2. PICK k \in Slot : partition_map[k] = o
    BY <1>1 DEF RInv, Slots
  <1>3. MustMatch(k, heap[o].name)
    BY <1>1, <1>2, KindRegistryAssumption DEF MustMatch
  <1>4. PICK i \in Slot : MayMatch(i, heap[o].name) /\ Unlink(i, o)
    BY <1>3 DEF RemoveByName
  <1>5. partition_map[i] = o
    <2>1. partition_map[i] \in Object /\ partition_map[i] # Null
      BY <1>4 DEF MayMatch, Types, RegistryType
    <2>2. heap[partition_map[i]].live /\ heap[partition_map[i]].name = heap[o].name
      BY <1>4, <2>1 DEF MayMatch, RInv, Slots
    <2> QED
      BY <1>1, <2>1, <2>2 DEF RInv, Names
  <1>6. partition_map'[i] = Null /\ \A j \in Slot : j # i => partition_map'[j] = partition_map[j]
    BY <1>4 DEF Unlink, Types, RegistryType
  <1>7. ~heap'[o].live /\ \A p \in Object : p # o => heap'[p] = heap[p]
    BY <1>4 DEF Unlink, Types, RegistryType, NoObject
  <1>8. \A p \in Object : heap'[p].live <=> p # o /\ heap[p].live
    BY <1>7
  <1>9. \A p \in Object : Created(p)' = Created(p)
    BY DEF Created
  <1>10. \A p \in Object : p # o /\ heap[p].live => heap[p].name # <<"pmem", heap[o].fd>>
    BY <1>1 DEF RInv, Names
  <1>11. Names'
    BY <1>7, <1>8, <1>9, <1>10, SMT DEF RInv, Names
  <1>12. \A t \in Thread : call[t].fd # heap[o].fd
    <2>1. SUFFICES ASSUME NEW t \in Thread, call[t].fd = heap[o].fd
                   PROVE  FALSE
      OBVIOUS
    <2>2. call[t].pc \in {"opened", "failed", "published"}
      BY <1>1, <2>1 DEF RInv, Calls, CallIdle, Types, OtherTypes, CallRecord
    <2>3. call[t].pc = "published"
      BY <1>1, <2>1, <2>2 DEF RInv, Calls, CallNew
    <2>4. call[t].kind \in Object /\ heap[call[t].kind].live /\ heap[call[t].kind].fd = Null
          /\ heap[call[t].kind].name = <<"pmem", call[t].fd>>
      BY <2>3 DEF RInv, Calls, CallKind, Types, OtherTypes, CallsComplete
    <2>5. call[t].kind = o
      BY <1>1, <2>1, <2>4 DEF RInv, Names
    <2> QED
      BY <1>1, <2>4, <2>5
  <1>13. Calls'
    <2>1. CallIdle' /\ CallAlone'
      BY DEF RInv, Calls, CallIdle, CallAlone
    <2>2. CallOpen'
      BY <1>12 DEF RInv, Calls, CallOpen
    <2>3. CallNew'
      BY <1>7, <1>8 DEF RInv, Calls, CallNew
    <2>4. ASSUME NEW t \in Thread, call[t].pc = "published"
          PROVE  call[t].kind # o /\ heap'[call[t].kind] = heap[call[t].kind]
      BY <1>1, <1>7, <2>4 DEF RInv, Calls, CallKind, Types, OtherTypes, CallsComplete
    <2>5. CallKind'
      BY <2>4 DEF RInv, Calls, CallKind
    <2> QED
      BY <2>1, <2>2, <2>3, <2>5 DEF Calls
  <1>14. Opened'
    <2>1. SUFFICES ASSUME NEW g \in open', ~ \E s \in Thread : call[s].fd = g
                   PROVE  \E p \in Object : heap'[p].live /\ heap'[p].name = <<"pmem", g>>
      BY DEF Opened
    <2>2. PICK p \in Object : heap[p].live /\ heap[p].name = <<"pmem", g>>
      BY <2>1 DEF RInv, Opened
    <2>3. p # o
      BY <1>1, <2>1, <2>2, SMT
    <2> QED
      BY <1>7, <2>2, <2>3
  <1>15. Slots'
    <2>1. \A j \in Slot : partition_map'[j] # Null =>
             j # i /\ partition_map'[j] = partition_map[j] /\ partition_map[j] \in Object
      BY <1>6 DEF Types, RegistryType
    <2>2. \A j \in Slot : j # i => partition_map[j] # o
      BY <1>5, KindRegistryAssumption DEF RInv, Slots
    <2>3. \A j \in Slot : partition_map'[j] # Null => heap'[partition_map'[j]].live
      BY <1>8, <2>1, <2>2 DEF RInv, Slots
    <2>4. \A j, l \in Slot : partition_map'[j] # Null /\ partition_map'[j] = partition_map'[l]
                               => j = l
      BY <2>1 DEF RInv, Slots
    <2>5. ASSUME NEW p \in Object, heap'[p].live
          PROVE  \E j \in Slot : partition_map'[j] = p
      <3>1. p # o /\ heap[p].live
        BY <1>8, <2>5
      <3>2. PICK j \in Slot : partition_map[j] = p
        BY <3>1 DEF RInv, Slots
      <3> QED
        BY <1>5, <1>6, <3>1, <3>2
    <2>6. \A p \in held' : heap'[p].live /\ heap'[p].fd # Null
      BY <1>7 DEF RInv, Slots, Types, OtherTypes
    <2> QED
      BY <2>3, <2>4, <2>5, <2>6 DEF Slots
  <1> QED
    BY <1>11, <1>13, <1>14, <1>15 DEF RInv

(* Steps that leave these variables alone leave the invariant alone.       *)
LEMMA RegistryUnchanged ==
    ASSUME UNCHANGED <<partition_map, heap, open, call, held>>
    PROVE  /\ Names => Names'
           /\ Calls => Calls'
           /\ Opened => Opened'
           /\ Slots => Slots'
           /\ FreshNames => FreshNames'
  <1>1. Names => Names'
    BY DEF Names, Created
  <1>2. Calls => Calls'
    BY DEF Calls, CallIdle, CallOpen, CallAlone, CallNew, CallKind
  <1>3. Opened => Opened'
    BY DEF Opened
  <1>4. Slots => Slots'
    BY DEF Slots
  <1>5. FreshNames => FreshNames'
    BY DEF FreshNames
  <1> QED
    BY <1>1, <1>2, <1>3, <1>4, <1>5

(* The invariant is inductive.                                             *)
LEMMA PInvStep ==
    ASSUME Orderly, Types, CountsSlots, PInv, [Next]_vars
    PROVE  PInv'
  <1>1. CASE UNCHANGED vars
    <2>1. UNCHANGED <<partition_map, heap, open, call, held>>
      BY <1>1 DEF vars
    <2>2. Occupied' = Occupied /\ finalized' = finalized
      BY <1>1 DEF vars, Occupied
    <2> QED
      BY <2>1, <2>2, RegistryUnchanged DEF PInv
  <1>2. CASE finalized = "no" /\ Step /\ UNCHANGED finalized
    <2>1. RInv /\ FreshNames
      BY <1>2 DEF PInv, RInv
    <2>2. SUFFICES RInv' /\ FreshNames'
      BY <1>2 DEF PInv, RInv
    <2>3. call \in [Thread -> CallRecord]
      BY DEF Types, OtherTypes
    <2>4. ASSUME NEW t \in Thread, OpenTmpfile(t)
          PROVE  RInv' /\ FreshNames'
      <3>1. RInv'
        BY <2>1, <2>4, OpenStep
      <3>2. FreshNames'
        BY <2>1, <2>3, <2>4 DEF OpenTmpfile, FreshNames, NoCall
      <3> QED
        BY <3>1, <3>2
    <2>5. ASSUME NEW t \in Thread, CreatePmem(t)
          PROVE  RInv' /\ FreshNames'
      <3>1. call[t].pc = "opened" /\ open' = open /\ held' = held
        BY <2>5 DEF CreatePmem
      <3>2. ASSUME NEW e \in {"TOOMANY", "INVALID", "FAILED"},
                   CreateError(<<"pmem", call[t].fd>>, e),
                   call' = [call EXCEPT ![t].pc = "failed", ![t].err = e],
                   UNCHANGED <<partition_map, num_kind, heap>>
            PROVE  RInv' /\ FreshNames'
        <4>1. CallMoves(t, "failed", call[t].fd, call[t].kind)
          BY <2>3, <3>2 DEF CallMoves, CallRecord
        <4>2. RInv' /\ e # "INVALID"
          BY <2>1, <3>1, <3>2, <4>1, CreateErrorStep
        <4>3. FreshNames'
          BY <2>1, <2>3, <3>2, <4>2 DEF FreshNames, CallRecord
        <4> QED
          BY <4>2, <4>3
      <3>3. ASSUME NEW o \in Object, Register(<<"pmem", call[t].fd>>, o),
                   call' = [call EXCEPT ![t].pc = "published", ![t].kind = o]
            PROVE  RInv' /\ FreshNames'
        <4>1. CallMoves(t, "published", call[t].fd, o)
          BY <2>3, <3>3 DEF CallMoves, CallRecord
        <4>2. RInv'
          BY <2>1, <3>1, <3>3, <4>1, RegisterStep
        <4>3. FreshNames'
          BY <2>1, <2>3, <3>3 DEF FreshNames, CallRecord
        <4> QED
          BY <4>2, <4>3
      <3> QED
        BY <2>5, <3>2, <3>3 DEF CreatePmem
    <2>6. ASSUME NEW t \in Thread, call' = [call EXCEPT ![t] = NoCall]
          PROVE  CallMoves(t, "idle", Null, Null) /\ FreshNames'
      BY <2>1, <2>3, <2>6 DEF CallMoves, NoCall, FreshNames
    <2>7. ASSUME NEW t \in Thread, CloseTmpfile(t)
          PROVE  RInv' /\ FreshNames'
      <3>1. /\ call[t].pc = "failed" /\ call' = [call EXCEPT ![t] = NoCall]
            /\ open' = open \ {call[t].fd}
            /\ partition_map' = partition_map /\ heap' = heap /\ held' = held
        BY <2>7 DEF CloseTmpfile
      <3>2. CallMoves(t, "idle", Null, Null) /\ FreshNames'
        BY <2>6, <3>1
      <3> QED
        BY <2>1, <3>1, <3>2, CloseStep
    <2>8. ASSUME NEW t \in Thread, InitPriv(t)
          PROVE  RInv' /\ FreshNames'
      <3>1. PICK k \in Object : call[t].kind = k
        BY <2>8 DEF InitPriv, Types, OtherTypes, CallsComplete
      <3>2. /\ call[t].pc = "published" /\ call' = [call EXCEPT ![t] = NoCall]
            /\ heap' = [heap EXCEPT ![k].fd = call[t].fd]
            /\ partition_map' = partition_map
        BY <2>8, <3>1 DEF InitPriv
      <3>3. open' = open /\ held' \in {held, held \cup {k}}
        BY <2>8, <3>1 DEF InitPriv, Orderly
      <3>4. CallMoves(t, "idle", Null, Null) /\ FreshNames'
        BY <2>6, <3>2
      <3> QED
        BY <2>1, <3>1, <3>2, <3>3, <3>4, InitPrivStep
    <2>9. ASSUME NEW o \in Object, Destroy(o)
          PROVE  RInv' /\ FreshNames'
      <3>1. /\ o \in held /\ RemoveByName(o) /\ held' = held \ {o}
            /\ open' = open \ {heap[o].fd} /\ call' = call
        BY <2>9 DEF Destroy, OpsDestroy
      <3>2. RInv'
        BY <2>1, <3>1, DestroyStep
      <3> QED
        BY <2>1, <3>1, <3>2 DEF FreshNames
    <2>10. ASSUME NEW o \in Object, MemtierMalloc(o) \/ MemtierFree(o)
           PROVE  RInv' /\ FreshNames'
      <3>1. UNCHANGED <<partition_map, heap, open, call, held>>
        BY <2>10 DEF MemtierMalloc, MemtierFree
      <3> QED
        BY <2>1, <3>1, RegistryUnchanged DEF RInv
    <2>11. \A o \in Object : ~RecreateFile(o)
      BY DEF RecreateFile, Orderly
    <2>12. \A t \in Thread, a \in program.areas : ~CreateFixed(t, a)
      BY DEF Orderly
    <2> QED
      BY <1>2, <2>4, <2>5, <2>7, <2>8, <2>9, <2>10, <2>11, <2>12 DEF Step
  <1>3. CASE Finalize
    <2>1. Occupied' = {} /\ finalized' # "no"
      BY <1>3, FinalizeKeeps DEF Types, Stops, Orderly
    <2>2. call' = call
      BY <1>3 DEF Finalize
    <2> QED
      BY <2>1, <2>2 DEF PInv, FreshNames
  <1> QED
    BY <1>1, <1>2, <1>3 DEF Next

LEMMA PInvInit == Init => PInv
  <1>1. SUFFICES ASSUME Init
                 PROVE  PInv
    OBVIOUS
  <1>2. /\ \A o \in Object : heap[o] = NoObject /\ ~heap[o].live
        /\ \A t \in Thread : call[t].pc = "idle" /\ call[t].fd = Null /\ call[t].err = "none"
        /\ \A i \in Slot : partition_map[i] = Null
        /\ open = {} /\ held = {} /\ finalized = "no"
    BY <1>1 DEF Init, NoObject, NoCall
  <1> QED
    BY <1>2 DEF PInv, Names, Calls, CallIdle, CallOpen, CallAlone, CallNew, CallKind,
                Opened, Slots, FreshNames

(* For such a program the invariants above hold in every state.            *)
LEMMA OrderlyRegistry == Spec => [](Types /\ CountsSlots /\ (Orderly => PInv))
  <1>1. Init => Types /\ CountsSlots /\ (Orderly => PInv)
    BY CountedInit, PInvInit DEF Types
  <1>2. Types /\ CountsSlots /\ (Orderly => PInv) /\ [Next]_vars
          => (Types /\ CountsSlots /\ (Orderly => PInv))'
    <2>1. SUFFICES ASSUME Types, CountsSlots, Orderly => PInv, [Next]_vars
                   PROVE  (Types /\ CountsSlots /\ (Orderly => PInv))'
      OBVIOUS
    <2>2. program' = program
      BY <2>1 DEF Next, vars
    <2>3. Orderly' => Orderly
      BY <2>2 DEF Orderly
    <2> QED
      BY <2>1, <2>3, CountedStep, PInvStep DEF Types
  <1> QED
    BY <1>1, <1>2, PTL DEF Spec

(***************************************************************************)
(* In a program whose dynamic kinds are on files that never outgrow their  *)
(* file system, no two kinds have the same name and no creation is refused *)
(* for its name.  It holds for any number of threads that create and       *)
(* destroy kinds at the same time, and when the exit of the process        *)
(* interrupts them.                                                        *)
(***************************************************************************)
THEOREM NamesTellApartHolds == Spec => []NamesTellApart
  <1>1. Types /\ CountsSlots /\ (Orderly => PInv) => NamesTellApart
    BY PInvImplies DEF PInv, NamesTellApart
  <1> QED
    BY <1>1, OrderlyRegistry, PTL

(* In such a program every slot points to a live kind, no two slots to the *)
(* same one, and every kind that the program holds, or that a call of      *)
(* memkind_create_pmem is about to return, is in a slot.                   *)
THEOREM SlotsLiveHolds == Spec => []SlotsLive
  <1>1. Types /\ CountsSlots /\ (Orderly => PInv) => SlotsLive
    BY PInvImplies DEF SlotsLive
  <1> QED
    BY <1>1, OrderlyRegistry, PTL

(* In such a program every open descriptor is that of one kind or of one   *)
(* call: none leaks, and none is closed under a kind that uses it.         *)
THEOREM FilesOwnedHolds == Spec => []FilesOwned
  <1>1. Types /\ CountsSlots /\ (Orderly => PInv) => FilesOwned
    BY PInvImplies DEF FilesOwned
  <1> QED
    BY <1>1, OrderlyRegistry, PTL
=============================================================================
