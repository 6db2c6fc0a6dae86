--------------------------- MODULE PmemExtentsProofs ---------------------------
(***************************************************************************)
(* What a kind on a file keeps true, for any number of threads, addresses, *)
(* files and failing system calls: the invariants of PmemExtents.          *)
(***************************************************************************)
EXTENDS PmemExtents, FiniteSetTheorems, TLAPS

\* Zenon is the default prover; a step it does not find names SMT.
USE ZenonT(30)

Address == 0 .. LastPage
FilePage == (0 .. LastFile) \X (0 .. FileLimit - 1)
SystemCall == {"mmap", "madvise", "munmap"}
Call == [pc : {"idle", "count", "unmap"}, pages : SUBSET Address]

TypeInv ==
    /\ hog \in BOOLEAN /\ life \in {"alive", "destroyed", "closed"}
    /\ fd \in 0 .. LastFile /\ offset \in 0 .. FileLimit
    /\ current_size \in 0 .. Wrap - 1
    /\ DOMAIN mapping \subseteq Address
    /\ mapping \in [DOMAIN mapping -> FilePage]
    /\ backed \subseteq FilePage
    /\ call \in [Thread -> Call]
    /\ lost \subseteq DOMAIN mapping
    /\ failed \in Seq(SystemCall) /\ Len(failed) <= MaxFailures

\* What threads give back is mapped, and each of them has pages of its own.
CallInv ==
    /\ \A t \in Thread :
          /\ call[t].pages \subseteq DOMAIN mapping \ lost
          /\ call[t].pc = "idle" => call[t].pages = {}
          /\ hog \/ life = "closed" => call[t].pc = "idle"
    /\ \A t, u \in Thread : t # u => call[t].pages \cap call[u].pages = {}
    /\ lost # {} => "munmap" \in Failed

\* The open file is mapped below offset, and no later file is mapped.
BehindOffset ==
    \A a \in DOMAIN mapping :
        mapping[a][1] < fd \/ (mapping[a][1] = fd /\ mapping[a][2] < offset)

OneToOne == \A a, b \in DOMAIN mapping : mapping[a] = mapping[b] => a = b

\* The pages that current_size stands for.
Counted == DOMAIN mapping \ Pending("unmap")

\* Each failure of madvise adds at most all addresses to the count.
Excess == (LastPage + 1) * Len(failed)

CountInv ==
    "munmap" \notin Failed /\ (life = "alive" \/ ~hog) =>
        /\ Cardinality(Counted) <= current_size
        /\ current_size <= Cardinality(Counted) + Excess
        /\ Failed \subseteq {"mmap"} => current_size = Cardinality(Counted)

\* Space in the file system is counted before it is taken and until it is given back.
SpaceInv ==
    Failed \subseteq {"madvise"} =>
        Cardinality(backed) + Cardinality(Pending("count")) <= current_size

LimitInv == MaxSize # 0 /\ "munmap" \notin Failed => current_size <= MaxSize

MappingInv == TypeInv /\ CallInv /\ BehindOffset /\ OneToOne /\ LiveBacked
CountingInv == CountInv /\ SpaceInv /\ LimitInv /\ GivenBack

-----------------------------------------------------------------------------
LEMMA Constants ==
    /\ Size \subseteq Nat \ {0}
    /\ LastPage \in Nat /\ MaxSize \in Nat /\ FileLimit \in Nat /\ Capacity \in Nat
    /\ LastFile \in Nat /\ Wrap \in Nat \ {0} /\ MaxFailures \in Nat
  BY PmemExtentsAssumption

\* What size_t holds.
LEMMA Wraps ==
    /\ \A n \in Int : n % Wrap \in 0 .. Wrap - 1
    /\ \A n \in 0 .. Wrap - 1 : n % Wrap = n
  BY Constants, SMT

\* A system call that fails is remembered.
LEMMA FailsRemembered ==
    ASSUME failed \in Seq(SystemCall), NEW what \in SystemCall, Fails(what)
    PROVE  /\ failed' \in Seq(SystemCall)
           /\ Len(failed') = Len(failed) + 1 /\ Len(failed') <= MaxFailures
           /\ Failed' = Failed \cup {what}
<1>1. /\ failed' \in Seq(SystemCall)
      /\ Len(failed') = Len(failed) + 1 /\ Len(failed') <= MaxFailures
  BY Constants, SMT DEF Fails
<1>2. \A i \in 1 .. Len(failed) : failed'[i] = failed[i]
  BY SMT DEF Fails
<1>3. failed'[Len(failed) + 1] = what
  BY SMT DEF Fails
<1>4. Failed' = Failed \cup {what}
  BY <1>1, <1>2, <1>3, SMT DEF Failed, Range
<1> QED
  BY <1>1, <1>4

LEMMA FailedSame == ASSUME UNCHANGED failed PROVE Failed' = Failed
  BY DEF Failed, Range

\* Where memkind_pmem_mmap puts an extent.
LEMMA Placed ==
    ASSUME TypeInv, NEW size \in Size, NEW f \in 0 .. LastFile, NEW off \in 0 .. FileLimit,
           Place(f, off, size)
    PROVE  /\ off + size <= FileLimit
           /\ (f = fd /\ off = offset) \/ (f = fd + 1 /\ off = 0)
           /\ FilePages(f, off, size) \subseteq FilePage
<1>1. /\ off + size <= FileLimit
      /\ (f = fd /\ off = offset) \/ (f = fd + 1 /\ off = 0)
  BY DEF Place, RecreateFile, Fits
<1>2. size \in Nat /\ FileLimit \in Nat
  BY Constants
<1> QED
  BY <1>1, <1>2, SMT DEF FilePages, FilePage

LEMMA InitInv == Init => MappingInv
<1> SUFFICES ASSUME Init PROVE MappingInv
  OBVIOUS
<1>1. Failed = {}
  BY SMT DEF Init, Failed, Range
<1>2. DOMAIN mapping = {}
  BY SMT DEF Init
<1>3. TypeInv
  <2>1. mapping \in [DOMAIN mapping -> FilePage]
    BY <1>2, SMT DEF Init
  <2>2. call \in [Thread -> Call]
    BY DEF Init, Idle, Call
  <2> QED
    BY <1>2, <2>1, <2>2, Constants, SMT DEF Init, TypeInv
<1> QED
  BY <1>1, <1>2, <1>3 DEF MappingInv, CallInv, BehindOffset, OneToOne, LiveBacked, Init, Idle

-----------------------------------------------------------------------------
\* Kept takes nothing from the open file, nor from a file that is mapped.
LEMMA KeptMapped ==
    ASSUME NEW pages, NEW f, NEW maps, NEW a \in DOMAIN maps, maps[a] \in pages
    PROVE  maps[a] \in Kept(pages, f, maps)
  BY DEF Kept

LEMMA AllocInv ==
    ASSUME MappingInv, NEW size \in Size, ExtentAlloc(size)
    PROVE  MappingInv'
<1>0. PICK f \in 0 .. LastFile, off \in 0 .. FileLimit, a \in 0 .. LastPage - size + 1 :
          /\ Place(f, off, size)
          /\ MapAt(a, f, off, size)
          /\ fd' = f
          /\ offset' = off + size
          /\ current_size' = (current_size + size) % Wrap
          /\ backed' = Kept(backed \cup FilePages(f, off, size), f, mapping)
  BY DEF ExtentAlloc
<1> DEFINE new == a .. a + size - 1
<1>1. /\ TypeInv /\ CallInv /\ BehindOffset /\ OneToOne /\ LiveBacked
      /\ UNCHANGED <<hog, life, lost, call, failed>> /\ Failed' = Failed
  BY FailedSame DEF MappingInv, ExtentAlloc
<1>2. /\ size \in Nat \ {0} /\ LastPage \in Nat /\ LastFile \in Nat /\ FileLimit \in Nat
      /\ Wrap \in Nat \ {0}
  BY Constants
<1>3. /\ off + size <= FileLimit
      /\ (f = fd /\ off = offset) \/ (f = fd + 1 /\ off = 0)
      /\ FilePages(f, off, size) \subseteq FilePage
  BY <1>0, <1>1, Placed
<1>4. /\ DOMAIN mapping' = DOMAIN mapping \cup new
      /\ new \cap DOMAIN mapping = {}
      /\ \A b \in DOMAIN mapping : mapping'[b] = mapping[b]
      /\ \A b \in new : mapping'[b] = <<f, off + b - a>>
  BY <1>0 DEF MapAt
<1>5. new \subseteq Address
  BY <1>2, SMT DEF Address
<1>6. \A b \in new : <<f, off + b - a>> \in FilePages(f, off, size)
  BY <1>2, SMT DEF FilePages
<1>7. TypeInv'
  <2>1. mapping' \in [DOMAIN mapping' -> FilePage]
    <3>1. mapping' = [b \in DOMAIN mapping' |-> mapping'[b]]
      BY <1>0 DEF MapAt
    <3>2. \A b \in DOMAIN mapping' : mapping'[b] \in FilePage
      BY <1>1, <1>3, <1>4, <1>6 DEF TypeInv
    <3> QED
      BY <3>1, <3>2
  <2>2. backed' \subseteq FilePage
    BY <1>0, <1>1, <1>3 DEF TypeInv, Kept
  <2>3. current_size' \in 0 .. Wrap - 1
    <3>1. current_size + size \in Int
      BY <1>1, <1>2, SMT DEF TypeInv
    <3> QED
      BY <1>0, <3>1, Wraps
  <2>4. offset' \in 0 .. FileLimit
    BY <1>0, <1>2, <1>3, SMT
  <2> QED
    BY <1>0, <1>1, <1>4, <1>5, <2>1, <2>2, <2>3, <2>4 DEF TypeInv
<1>8. CallInv'
  BY <1>1, <1>4 DEF CallInv
<1>9. BehindOffset'
  <2>1. \A b \in DOMAIN mapping : mapping'[b][1] < fd' \/ (mapping'[b][1] = fd' /\ mapping'[b][2] < offset')
    <3> SUFFICES ASSUME NEW b \in DOMAIN mapping
                 PROVE  mapping[b][1] < fd' \/ (mapping[b][1] = fd' /\ mapping[b][2] < offset')
      BY <1>4
    <3>1. mapping[b][1] \in 0 .. LastFile /\ mapping[b][2] \in 0 .. FileLimit - 1
      BY <1>1 DEF TypeInv, FilePage
    <3>2. mapping[b][1] < fd \/ (mapping[b][1] = fd /\ mapping[b][2] < offset)
      BY <1>1 DEF BehindOffset
    <3>3. fd \in Nat /\ offset \in Nat
      BY <1>1, <1>2, SMT DEF TypeInv
    <3> QED
      BY <1>0, <1>2, <1>3, <3>1, <3>2, <3>3, SMT
  <2>2. \A b \in new : mapping'[b][1] = fd' /\ mapping'[b][2] < offset'
    BY <1>0, <1>2, <1>4, SMT
  <2> QED
    BY <1>4, <2>1, <2>2 DEF BehindOffset
<1>10. OneToOne'
  <2>1. \A b \in DOMAIN mapping, c \in new : mapping[b] # <<f, off + c - a>>
    <3> SUFFICES ASSUME NEW b \in DOMAIN mapping, NEW c \in new, mapping[b] = <<f, off + c - a>>
                 PROVE  FALSE
      OBVIOUS
    <3>1. mapping[b][1] = f /\ mapping[b][2] = off + c - a
      BY SMT
    <3>2. f < fd \/ (f = fd /\ off + c - a < offset)
      BY <1>1, <3>1 DEF BehindOffset
    <3>3. fd \in Nat /\ offset \in Nat
      BY <1>1, <1>2, SMT DEF TypeInv
    <3> QED
      BY <1>2, <1>3, <3>2, <3>3, SMT
  <2>2. \A b, c \in new : <<f, off + b - a>> = <<f, off + c - a>> => b = c
    BY <1>2, SMT
  <2> SUFFICES ASSUME NEW b \in DOMAIN mapping', NEW c \in DOMAIN mapping',
                      mapping'[b] = mapping'[c]
               PROVE  b = c
    BY DEF OneToOne
  <2> HIDE DEF new
  <2>3. CASE b \in DOMAIN mapping /\ c \in DOMAIN mapping
    BY <1>1, <1>4, <2>3 DEF OneToOne
  <2>4. CASE b \in new /\ c \in new
    BY <1>4, <2>2, <2>4
  <2> QED
    BY <1>4, <2>1, <2>3, <2>4
<1>11. LiveBacked'
  <2> SUFFICES ASSUME "munmap" \notin Failed, NEW b \in DOMAIN mapping', b \notin Busy
               PROVE  mapping'[b] \in backed'
    BY <1>1 DEF LiveBacked, Busy
  <2>1. CASE b \in DOMAIN mapping
    BY <1>0, <1>1, <1>4, <2>1, KeptMapped DEF LiveBacked
  <2>2. CASE b \in new
    <3>1. mapping'[b] = <<f, off + b - a>>
      BY <1>4, <2>2
    <3>2. mapping'[b] \in FilePages(f, off, size) /\ mapping'[b][1] = f
      BY <1>6, <2>2, <3>1, SMT
    <3> QED
      BY <1>0, <3>2 DEF Kept
  <2> QED
    BY <1>4, <2>1, <2>2
<1> QED
  BY <1>7, <1>8, <1>9, <1>10, <1>11 DEF MappingInv

LEMMA AllocFailsInv ==
    ASSUME MappingInv, NEW size \in Size, ExtentAllocFails(size)
    PROVE  MappingInv'
<1>0. PICK f \in 0 .. LastFile, off \in 0 .. FileLimit :
          /\ Place(f, off, size)
          /\ fd' = f
          /\ offset' = off
          /\ backed' = Kept(backed \cup FilePages(f, off, size), f, mapping)
  BY DEF ExtentAllocFails
<1>1. /\ TypeInv /\ CallInv /\ BehindOffset /\ OneToOne /\ LiveBacked
      /\ UNCHANGED <<hog, life, lost, current_size, mapping, call>> /\ Fails("mmap")
  BY DEF MappingInv, ExtentAllocFails
<1>2. /\ failed' \in Seq(SystemCall) /\ Len(failed') <= MaxFailures
      /\ Failed' = Failed \cup {"mmap"}
  BY <1>1, FailsRemembered DEF TypeInv, SystemCall
<1>3. /\ (f = fd /\ off = offset) \/ (f = fd + 1 /\ off = 0)
      /\ FilePages(f, off, size) \subseteq FilePage
  BY <1>0, <1>1, Placed
<1>4. TypeInv'
  <2>1. backed' \subseteq FilePage
    BY <1>0, <1>1, <1>3 DEF TypeInv, Kept
  <2> QED
    BY <1>0, <1>1, <1>2, <2>1 DEF TypeInv
<1>5. CallInv'
  BY <1>1, <1>2 DEF CallInv
<1>6. BehindOffset'
  <2> SUFFICES ASSUME NEW b \in DOMAIN mapping
               PROVE  mapping[b][1] < fd' \/ (mapping[b][1] = fd' /\ mapping[b][2] < offset')
    BY <1>1 DEF BehindOffset
  <2>1. mapping[b][1] \in 0 .. LastFile /\ mapping[b][2] \in 0 .. FileLimit - 1
    BY <1>1 DEF TypeInv, FilePage
  <2>2. mapping[b][1] < fd \/ (mapping[b][1] = fd /\ mapping[b][2] < offset)
    BY <1>1 DEF BehindOffset
  <2>3. fd \in Nat /\ offset \in Nat
    BY <1>1, Constants, SMT DEF TypeInv
  <2> QED
    BY <1>0, <1>3, <2>1, <2>2, <2>3, SMT
<1>7. OneToOne'
  BY <1>1 DEF OneToOne
<1>8. LiveBacked'
  BY <1>0, <1>1, <1>2, KeptMapped DEF LiveBacked, Busy
<1> QED
  BY <1>4, <1>5, <1>6, <1>7, <1>8 DEF MappingInv

\* What a thread that starts to give pages back owes: they are its own.
LEMMA PunchInv ==
    ASSUME MappingInv, NEW t \in Thread, NEW pages, Punch(t, pages)
    PROVE  MappingInv'
<1>1. /\ TypeInv /\ CallInv /\ BehindOffset /\ OneToOne /\ LiveBacked
      /\ UNCHANGED <<hog, life, lost, fd, offset, current_size, mapping>>
      /\ call[t].pc = "idle" /\ ~hog /\ life # "closed"
      /\ pages \subseteq DOMAIN mapping \ (Busy \cup lost)
  BY DEF MappingInv, Punch
<1>2. PICK pc \in {"count", "unmap"} : call' = [call EXCEPT ![t] = [pc |-> pc, pages |-> pages]]
  BY DEF Punch
<1>3. /\ failed' \in Seq(SystemCall) /\ Len(failed') <= MaxFailures
      /\ Failed \subseteq Failed'
  BY <1>1, FailsRemembered, FailedSame DEF TypeInv, SystemCall, Punch
<1>4. backed' \subseteq backed /\ backed \ {mapping[a] : a \in pages} \subseteq backed'
  BY DEF Punch
<1>5. /\ call'[t].pc = pc /\ call'[t].pages = pages
      /\ \A u \in Thread : u # t => call'[u] = call[u]
  BY <1>1, <1>2 DEF TypeInv
<1>6. TypeInv'
  <2>1. call' \in [Thread -> Call]
    BY <1>1, <1>2 DEF TypeInv, Call
  <2> QED
    BY <1>1, <1>3, <1>4, <2>1 DEF TypeInv
<1>7. CallInv'
  <2>1. \A u \in Thread : call[u].pages \cap pages = {}
    BY <1>1 DEF Busy
  <2> QED
    BY <1>1, <1>3, <1>5, <2>1 DEF CallInv
<1>8. BehindOffset' /\ OneToOne'
  BY <1>1 DEF BehindOffset, OneToOne
<1>9. LiveBacked'
  <2> SUFFICES ASSUME "munmap" \notin Failed', NEW a \in DOMAIN mapping, a \notin Busy'
               PROVE  mapping[a] \in backed'
    BY <1>1 DEF LiveBacked
  <2>1. a \notin pages
    BY <1>5 DEF Busy
  <2>2. a \notin Busy
    BY <1>1, <1>5, SMT DEF Busy, CallInv
  <2>3. mapping[a] \in backed
    BY <1>1, <1>3, <2>2 DEF LiveBacked
  <2>4. mapping[a] \notin {mapping[b] : b \in pages}
    BY <1>1, <2>1 DEF OneToOne
  <2> QED
    BY <1>4, <2>3, <2>4
<1> QED
  BY <1>6, <1>7, <1>8, <1>9 DEF MappingInv

LEMMA AddressesFinite ==
    ASSUME NEW S \in SUBSET Address
    PROVE  IsFiniteSet(S) /\ Cardinality(S) \in Nat /\ Cardinality(S) <= LastPage + 1
<1>1. IsFiniteSet(Address) /\ Cardinality(Address) = LastPage + 1
  <2>1. 0 \in Int /\ LastPage \in Int /\ ~(0 > LastPage)
    BY Constants, SMT
  <2>2. IsFiniteSet(0 .. LastPage)
        /\ Cardinality(0 .. LastPage) = IF 0 > LastPage THEN 0 ELSE LastPage - 0 + 1
    BY <2>1, FS_Interval
  <2> QED
    BY <2>1, <2>2, SMT DEF Address
<1>2. IsFiniteSet(S) /\ Cardinality(S) <= Cardinality(Address)
  BY <1>1, FS_Subset
<1> QED
  BY <1>1, <1>2, FS_CardinalityType

LEMMA CountKeepsInv ==
    ASSUME MappingInv, NEW t \in Thread, Count(t)
    PROVE  MappingInv'
<1>1. /\ TypeInv /\ CallInv /\ BehindOffset /\ OneToOne /\ LiveBacked
      /\ UNCHANGED <<hog, life, lost, fd, offset, mapping, backed, failed>> /\ Failed' = Failed
      /\ call[t].pc = "count"
      /\ current_size' = (current_size - Cardinality(call[t].pages)) % Wrap
      /\ call' = [call EXCEPT ![t].pc = "unmap"]
  BY FailedSame DEF MappingInv, Count
<1>2. /\ call' \in [Thread -> Call]
      /\ call'[t].pc = "unmap"
      /\ \A u \in Thread : call'[u].pages = call[u].pages
      /\ \A u \in Thread : u # t => call'[u] = call[u]
  BY <1>1 DEF TypeInv, Call
<1>3. current_size' \in 0 .. Wrap - 1
  <2>1. call[t].pages \in SUBSET Address
    BY <1>1 DEF TypeInv, Call
  <2>2. Cardinality(call[t].pages) \in Nat
    BY <2>1, AddressesFinite
  <2>3. current_size - Cardinality(call[t].pages) \in Int
    BY <1>1, <2>2, Constants, SMT DEF TypeInv
  <2> QED
    BY <1>1, <2>3, Wraps
<1>4. TypeInv'
  BY <1>1, <1>2, <1>3 DEF TypeInv
<1>5. CallInv'
  BY <1>1, <1>2 DEF CallInv
<1>6. Busy' = Busy
  BY <1>2 DEF Busy
<1> QED
  BY <1>1, <1>4, <1>5, <1>6 DEF MappingInv, BehindOffset, OneToOne, LiveBacked

\* Pages that leave the mapping: Unmap and ExtentDestroy, when munmap succeeds.
LEMMA Unmapped ==
    ASSUME TypeInv, BehindOffset, OneToOne, NEW gone \in SUBSET DOMAIN mapping,
           mapping' = [a \in DOMAIN mapping \ gone |-> mapping[a]],
           backed' = Kept(backed, fd, mapping'), UNCHANGED <<fd, offset>>
    PROVE  /\ DOMAIN mapping' = DOMAIN mapping \ gone
           /\ \A a \in DOMAIN mapping' : mapping'[a] = mapping[a]
           /\ mapping' \in [DOMAIN mapping' -> FilePage]
           /\ backed' \subseteq FilePage
           /\ \A a \in DOMAIN mapping' : mapping[a] \in backed => mapping'[a] \in backed'
           /\ BehindOffset' /\ OneToOne'
<1>1. /\ DOMAIN mapping' = DOMAIN mapping \ gone
      /\ \A a \in DOMAIN mapping' : mapping'[a] = mapping[a]
  OBVIOUS
<1>2. mapping' \in [DOMAIN mapping' -> FilePage]
  BY DEF TypeInv
<1>3. backed' \subseteq FilePage
  BY DEF TypeInv, Kept
<1>4. \A a \in DOMAIN mapping' : mapping[a] \in backed => mapping'[a] \in backed'
  BY <1>1, KeptMapped
<1>5. BehindOffset' /\ OneToOne'
  BY <1>1 DEF BehindOffset, OneToOne
<1> QED
  BY <1>1, <1>2, <1>3, <1>4, <1>5

LEMMA UnmapInv ==
    ASSUME MappingInv, NEW t \in Thread, Unmap(t)
    PROVE  MappingInv'
<1>1. /\ TypeInv /\ CallInv /\ BehindOffset /\ OneToOne /\ LiveBacked
      /\ UNCHANGED <<hog, life, lost, fd, offset, current_size>>
      /\ call' = [call EXCEPT ![t] = Idle] /\ backed' = Kept(backed, fd, mapping')
  BY DEF MappingInv, Unmap
<1>2. /\ call' \in [Thread -> Call]
      /\ call'[t].pc = "idle" /\ call'[t].pages = {}
      /\ \A u \in Thread : u # t => call'[u] = call[u]
  BY <1>1 DEF TypeInv, Call, Idle
<1>3. CASE mapping' = [a \in DOMAIN mapping \ call[t].pages |-> mapping[a]] /\ UNCHANGED failed
  <2>1. Failed' = Failed
    BY <1>3, FailedSame
  <2>2. call[t].pages \in SUBSET DOMAIN mapping
    BY <1>1 DEF CallInv
  <2>3. /\ DOMAIN mapping' = DOMAIN mapping \ call[t].pages
        /\ \A a \in DOMAIN mapping' : mapping'[a] = mapping[a]
        /\ mapping' \in [DOMAIN mapping' -> FilePage]
        /\ backed' \subseteq FilePage
        /\ \A a \in DOMAIN mapping' : mapping[a] \in backed => mapping'[a] \in backed'
        /\ BehindOffset' /\ OneToOne'
    BY <1>1, <1>3, <2>2, Unmapped
  <2>4. lost \subseteq DOMAIN mapping'
    BY <1>1, <2>3 DEF TypeInv, CallInv
  <2>5. TypeInv'
    BY <1>1, <1>2, <1>3, <2>3, <2>4 DEF TypeInv
  <2>6. CallInv'
    BY <1>1, <1>2, <2>1, <2>3 DEF CallInv
  <2>7. LiveBacked'
    <3> SUFFICES ASSUME "munmap" \notin Failed, NEW a \in DOMAIN mapping', a \notin Busy'
                 PROVE  mapping'[a] \in backed'
      BY <2>1 DEF LiveBacked
    <3>1. a \notin Busy
      BY <1>2, <2>3 DEF Busy
    <3> QED
      BY <1>1, <2>3, <3>1 DEF LiveBacked
  <2> QED
    BY <2>3, <2>5, <2>6, <2>7 DEF MappingInv
<1>4. CASE Fails("munmap") /\ UNCHANGED mapping
  <2>1. /\ failed' \in Seq(SystemCall) /\ Len(failed') <= MaxFailures
        /\ Failed' = Failed \cup {"munmap"}
    BY <1>1, <1>4, FailsRemembered DEF TypeInv, SystemCall
  <2>2. TypeInv'
    BY <1>1, <1>2, <1>4, <2>1 DEF TypeInv, Kept
  <2>3. CallInv'
    BY <1>1, <1>2, <1>4, <2>1 DEF CallInv
  <2> QED
    BY <1>1, <1>4, <2>1, <2>2, <2>3 DEF MappingInv, BehindOffset, OneToOne, LiveBacked
<1> QED
  BY <1>3, <1>4 DEF Unmap

LEMMA TouchInv ==
    ASSUME MappingInv, NEW a \in DOMAIN mapping, Touch(a)
    PROVE  MappingInv'
<1>1. /\ TypeInv /\ CallInv /\ BehindOffset /\ OneToOne /\ LiveBacked
      /\ UNCHANGED <<hog, life, lost, fd, offset, current_size, mapping, call, failed>>
      /\ Failed' = Failed /\ backed' = backed \cup {mapping[a]}
  BY FailedSame DEF MappingInv, Touch
<1>2. mapping[a] \in FilePage
  BY <1>1 DEF TypeInv
<1>3. TypeInv'
  BY <1>1, <1>2 DEF TypeInv
<1> QED
  BY <1>1, <1>3, SMT DEF MappingInv, CallInv, BehindOffset, OneToOne, LiveBacked, Busy

LEMMA DestroyBeginInv ==
    ASSUME MappingInv, DestroyBegin
    PROVE  MappingInv'
<1>1. /\ TypeInv /\ CallInv /\ BehindOffset /\ OneToOne /\ LiveBacked
      /\ UNCHANGED <<hog, fd, offset, current_size, mapping, backed, call, lost, failed>>
      /\ Failed' = Failed /\ life' = "destroyed"
  BY FailedSame DEF MappingInv, DestroyBegin
<1>2. TypeInv'
  BY <1>1 DEF TypeInv
<1> QED
  BY <1>1, <1>2, SMT DEF MappingInv, CallInv, BehindOffset, OneToOne, LiveBacked, Busy

LEMMA ExtentDestroyInv ==
    ASSUME MappingInv, NEW pages, ExtentDestroy(pages)
    PROVE  MappingInv'
<1>1. /\ TypeInv /\ CallInv /\ BehindOffset /\ OneToOne /\ LiveBacked
      /\ UNCHANGED <<hog, life, fd, offset, current_size, call>>
      /\ pages \subseteq DOMAIN mapping \ (Busy \cup lost)
      /\ backed' = Kept(backed, fd, mapping')
  BY DEF MappingInv, ExtentDestroy
<1>2. \A t \in Thread : call[t].pages \cap pages = {}
  BY <1>1 DEF Busy
<1>3. CASE mapping' = [a \in DOMAIN mapping \ pages |-> mapping[a]] /\ UNCHANGED <<lost, failed>>
  <2>1. Failed' = Failed
    BY <1>3, FailedSame
  <2>2. pages \in SUBSET DOMAIN mapping
    BY <1>1
  <2>3. /\ DOMAIN mapping' = DOMAIN mapping \ pages
        /\ \A a \in DOMAIN mapping' : mapping'[a] = mapping[a]
        /\ mapping' \in [DOMAIN mapping' -> FilePage]
        /\ backed' \subseteq FilePage
        /\ \A a \in DOMAIN mapping' : mapping[a] \in backed => mapping'[a] \in backed'
        /\ BehindOffset' /\ OneToOne'
    BY <1>1, <1>3, <2>2, Unmapped
  <2>4. lost' \subseteq DOMAIN mapping'
    BY <1>1, <1>3, <2>3 DEF TypeInv
  <2>5. TypeInv'
    BY <1>1, <1>3, <2>3, <2>4 DEF TypeInv
  <2>6. CallInv'
    BY <1>1, <1>2, <1>3, <2>1, <2>3 DEF CallInv
  <2>7. LiveBacked'
    BY <1>1, <2>1, <2>3, SMT DEF LiveBacked, Busy
  <2> QED
    BY <2>3, <2>5, <2>6, <2>7 DEF MappingInv
<1>4. CASE Fails("munmap") /\ lost' = lost \cup pages /\ UNCHANGED mapping
  <2>1. /\ failed' \in Seq(SystemCall) /\ Len(failed') <= MaxFailures
        /\ Failed' = Failed \cup {"munmap"}
    BY <1>1, <1>4, FailsRemembered DEF TypeInv, SystemCall
  <2>2. TypeInv'
    BY <1>1, <1>4, <2>1 DEF TypeInv, Kept
  <2>3. CallInv'
    BY <1>1, <1>2, <1>4, <2>1 DEF CallInv
  <2> QED
    BY <1>1, <1>4, <2>1, <2>2, <2>3 DEF MappingInv, BehindOffset, OneToOne, LiveBacked
<1> QED
  BY <1>3, <1>4 DEF ExtentDestroy

LEMMA DestroyEndInv ==
    ASSUME MappingInv, DestroyEnd
    PROVE  MappingInv'
<1>1. /\ TypeInv /\ CallInv /\ BehindOffset /\ OneToOne /\ LiveBacked
      /\ UNCHANGED <<hog, fd, offset, current_size, mapping, call, lost, failed>>
      /\ Failed' = Failed /\ life' = "closed" /\ \A t \in Thread : call[t] = Idle
      /\ backed' = Kept(backed, LastFile + 1, mapping)
  BY FailedSame DEF MappingInv, DestroyEnd
<1>2. TypeInv'
  BY <1>1 DEF TypeInv, Kept
<1>3. CallInv'
  BY <1>1, SMT DEF CallInv, Idle
<1>4. LiveBacked'
  BY <1>1, KeptMapped DEF LiveBacked, Busy
<1> QED
  BY <1>1, <1>2, <1>3, <1>4 DEF MappingInv, BehindOffset, OneToOne

LEMMA NextInv ==
    ASSUME MappingInv, [Next]_vars
    PROVE  MappingInv'
<1>1. CASE UNCHANGED vars
  BY <1>1, FailedSame, SMTT(30) DEF vars, MappingInv, TypeInv, CallInv, BehindOffset, OneToOne, LiveBacked, Busy
<1>2. CASE Next
  BY <1>2, AllocInv, AllocFailsInv, PunchInv, CountKeepsInv, UnmapInv, TouchInv,
     DestroyBeginInv, ExtentDestroyInv, DestroyEndInv DEF Next, Dalloc
<1> QED
  BY <1>1, <1>2

-----------------------------------------------------------------------------
LEMMA FilePagesFinite ==
    ASSUME NEW S \in SUBSET FilePage
    PROVE  IsFiniteSet(S) /\ Cardinality(S) \in Nat
<1>1. IsFiniteSet(0 .. LastFile) /\ IsFiniteSet(0 .. FileLimit - 1)
  <2>1. 0 \in Int /\ LastFile \in Int /\ FileLimit - 1 \in Int
    BY Constants, SMT
  <2> QED
    BY <2>1, FS_Interval
<1>2. IsFiniteSet(FilePage)
  BY <1>1, FS_Product DEF FilePage
<1>3. IsFiniteSet(S)
  BY <1>2, FS_Subset
<1> QED
  BY <1>3, FS_CardinalityType

LEMMA CardMinus ==
    ASSUME NEW S, IsFiniteSet(S), NEW T \in SUBSET S
    PROVE  /\ Cardinality(S) \in Nat /\ Cardinality(T) \in Nat
           /\ Cardinality(S \ T) = Cardinality(S) - Cardinality(T)
<1>1. S \cap T = T
  OBVIOUS
<1>2. IsFiniteSet(T)
  BY FS_Subset
<1>3. Cardinality(S \ T) = Cardinality(S) - Cardinality(S \cap T)
  BY FS_Difference
<1> QED
  BY <1>1, <1>2, <1>3, FS_CardinalityType

LEMMA CardPlus ==
    ASSUME NEW S, IsFiniteSet(S), NEW T, IsFiniteSet(T), S \cap T = {}
    PROVE  /\ Cardinality(S) \in Nat /\ Cardinality(T) \in Nat
           /\ Cardinality(S \cup T) = Cardinality(S) + Cardinality(T)
<1>1. Cardinality(S \cap T) = 0
  BY FS_EmptySet
<1>2. Cardinality(S) \in Nat /\ Cardinality(T) \in Nat
  BY FS_CardinalityType
<1>3. Cardinality(S \cup T) = Cardinality(S) + Cardinality(T) - Cardinality(S \cap T)
  BY FS_Union
<1> QED
  BY <1>1, <1>2, <1>3, SMT

LEMMA CardAtMost ==
    ASSUME NEW S, IsFiniteSet(S), NEW T, IsFiniteSet(T)
    PROVE  /\ Cardinality(S) \in Nat /\ Cardinality(T) \in Nat
           /\ Cardinality(S \cup T) \in Nat
           /\ Cardinality(S \cup T) <= Cardinality(S) + Cardinality(T)
<1>1. IsFiniteSet(S \cap T) /\ IsFiniteSet(S \cup T)
  BY FS_Intersection, FS_Union
<1>2. /\ Cardinality(S) \in Nat /\ Cardinality(T) \in Nat /\ Cardinality(S \cap T) \in Nat
      /\ Cardinality(S \cup T) \in Nat
  BY <1>1, FS_CardinalityType
<1>3. Cardinality(S \cup T) = Cardinality(S) + Cardinality(T) - Cardinality(S \cap T)
  BY FS_Union
<1> QED
  BY <1>2, <1>3, SMT

\* An extent has as many pages of the file as it has addresses.
LEMMA FilePagesSize ==
    ASSUME NEW f, NEW off \in Nat, NEW size \in Nat
    PROVE  /\ IsFiniteSet(FilePages(f, off, size))
           /\ Cardinality(FilePages(f, off, size)) <= size
<1> DEFINE g == [i \in 1 .. size |-> <<f, off + i - 1>>]
<1>1. g \in [1 .. size -> FilePages(f, off, size)]
  BY SMT DEF FilePages
<1>2. \A p \in FilePages(f, off, size) : \E i \in 1 .. size : g[i] = p
  <2> TAKE p \in FilePages(f, off, size)
  <2>1. p = <<f, p[2]>> /\ p[2] \in off .. off + size - 1
    BY SMT DEF FilePages
  <2>2. p[2] - off + 1 \in 1 .. size /\ off + (p[2] - off + 1) - 1 = p[2]
    BY <2>1, SMT
  <2>3. g[p[2] - off + 1] = p
    BY <2>1, <2>2
  <2> QED
    BY <2>2, <2>3
<1>3. g \in Surjection(1 .. size, FilePages(f, off, size))
  BY <1>1, <1>2 DEF Surjection
<1>4. IsFiniteSet(1 .. size) /\ Cardinality(1 .. size) = size
  BY FS_Interval, SMT
<1> QED
  BY <1>3, <1>4, FS_Surjection, SMT

\* Punching takes as many pages of files as it is given addresses.
LEMMA ImageSize ==
    ASSUME OneToOne, NEW pages \in SUBSET DOMAIN mapping, IsFiniteSet(pages)
    PROVE  Cardinality({mapping[a] : a \in pages}) = Cardinality(pages)
<1> DEFINE g == [a \in pages |-> mapping[a]]
           T == {mapping[a] : a \in pages}
<1>1. g \in [pages -> T]
  OBVIOUS
<1>2. \A a, b \in pages : g[a] = g[b] => a = b
  BY DEF OneToOne
<1>3. \A p \in T : \E a \in pages : g[a] = p
  OBVIOUS
<1>4. g \in Bijection(pages, T)
  BY <1>1, <1>2, <1>3 DEF Bijection, Injection, Surjection, IsInjective
<1> QED
  BY <1>4, FS_Bijection DEF ExistsBijection

-----------------------------------------------------------------------------
LEMMA InPending ==
    ASSUME NEW pc, NEW a
    PROVE  /\ a \in Pending(pc) <=> \E t \in Thread : call[t].pc = pc /\ a \in call[t].pages
           /\ a \in Pending(pc)' <=> \E t \in Thread : call'[t].pc = pc /\ a \in call'[t].pages
  BY DEF Pending

\* A thread moves from one part of pmem_extent_dalloc to another.
LEMMA PendingEnters ==
    ASSUME NEW t \in Thread, NEW q, NEW pages,
           \/ pages = call[t].pages
           \/ call[t].pages = {} /\ \A u \in Thread : pages \cap call[u].pages = {},
           call'[t].pc = q, call'[t].pages = pages,
           \A u \in Thread : u # t => call'[u] = call[u]
    PROVE  Pending(q)' = Pending(q) \cup pages
<1> SUFFICES ASSUME NEW a PROVE a \in Pending(q)' <=> a \in Pending(q) \cup pages
  OBVIOUS
<1> QED
  BY InPending, SMT

LEMMA PendingLeaves ==
    ASSUME CallInv, NEW t \in Thread, NEW q, call'[t].pc # q,
           \A u \in Thread : u # t => call'[u] = call[u]
    PROVE  Pending(q)' = Pending(q) \ call[t].pages
<1> SUFFICES ASSUME NEW a PROVE a \in Pending(q)' <=> a \in Pending(q) \ call[t].pages
  OBVIOUS
<1>1. a \in Pending(q)' => a \in Pending(q) \ call[t].pages
  BY InPending, SMT DEF CallInv
<1>2. a \in Pending(q) \ call[t].pages => a \in Pending(q)'
  BY InPending
<1> QED
  BY <1>1, <1>2

\* Room for one more count of all the addresses.
LEMMA ExcessBound ==
    ASSUME TypeInv
    PROVE  Excess \in Nat /\ LastPage + 1 + Excess < Wrap
<1>1. Len(failed) \in Nat /\ Len(failed) <= MaxFailures /\ MaxFailures \in Nat
  BY Constants, SMT DEF TypeInv
<1>2. LastPage + 1 \in Nat /\ Wrap \in Nat
  BY Constants, SMT
<1>3. \A n, m, k \in Nat : m <= k => n * m \in Nat /\ n + n * m <= n * (k + 1)
  BY SMT
<1>4. (LastPage + 1) * (MaxFailures + 1) < Wrap
  BY PmemExtentsAssumption
<1>5. /\ (LastPage + 1) * Len(failed) \in Nat
      /\ LastPage + 1 + (LastPage + 1) * Len(failed) <= (LastPage + 1) * (MaxFailures + 1)
  BY <1>1, <1>2, <1>3
<1>6. (LastPage + 1) * (MaxFailures + 1) \in Int
  BY <1>1, <1>2, SMT
<1> QED
  BY <1>2, <1>4, <1>5, <1>6, SMT DEF Excess

\* With one more failure.
LEMMA ExcessStep ==
    ASSUME TypeInv, Len(failed') = Len(failed) + 1
    PROVE  Excess' = Excess + LastPage + 1
<1>1. Len(failed) \in Nat /\ LastPage + 1 \in Nat
  BY Constants, SMTT(30) DEF TypeInv
<1>2. \A n, m \in Nat : n * (m + 1) = n * m + n
  BY SMT
<1>3. Excess' = (LastPage + 1) * (Len(failed) + 1)
  BY DEF Excess
<1>4. Excess' = (LastPage + 1) * Len(failed) + (LastPage + 1)
  BY <1>1, <1>2, <1>3
<1>5. (LastPage + 1) * Len(failed) \in Int
  BY <1>1, SMT
<1> QED
  BY <1>1, <1>4, <1>5, Constants, SMT DEF Excess

LEMMA CountedFinite ==
    ASSUME TypeInv
    PROVE  /\ Counted \in SUBSET Address /\ IsFiniteSet(Counted)
           /\ Cardinality(Counted) \in Nat
           /\ Cardinality(Counted) <= LastPage + 1
           /\ IsFiniteSet(backed) /\ Cardinality(backed) \in Nat
           /\ IsFiniteSet(Pending("count")) /\ Cardinality(Pending("count")) \in Nat
<1>1. Counted \in SUBSET Address
  BY DEF Counted, TypeInv
<1>2. Pending("count") \in SUBSET Address
  BY DEF Pending, TypeInv, Call
<1>3. backed \in SUBSET FilePage
  BY DEF TypeInv
<1> QED
  BY <1>1, <1>2, <1>3, AddressesFinite, FilePagesFinite

-----------------------------------------------------------------------------
LEMMA AllocCounts ==
    ASSUME MappingInv, CountingInv, NEW size \in Size, ExtentAlloc(size)
    PROVE  CountingInv'
<1>0. PICK f \in 0 .. LastFile, off \in 0 .. FileLimit, a \in 0 .. LastPage - size + 1 :
          /\ Place(f, off, size)
          /\ MapAt(a, f, off, size)
          /\ current_size' = (current_size + size) % Wrap
          /\ backed' = Kept(backed \cup FilePages(f, off, size), f, mapping)
  BY DEF ExtentAlloc
<1> DEFINE new == a .. a + size - 1
<1>1. /\ TypeInv /\ CallInv /\ CountInv /\ SpaceInv /\ LimitInv
      /\ life = "alive" /\ WithinMaxSize(size)
      /\ UNCHANGED <<hog, life, lost, call, failed>> /\ Failed' = Failed
  BY FailedSame DEF MappingInv, CountingInv, ExtentAlloc
<1>2. /\ size \in Nat \ {0} /\ LastPage \in Nat /\ FileLimit \in Nat /\ Wrap \in Nat
      /\ current_size \in Nat
  BY <1>1, Constants, SMT DEF TypeInv
<1>3. new \in SUBSET Address /\ IsFiniteSet(new) /\ Cardinality(new) = size
  <2>1. a \in Int /\ a + size - 1 \in Int /\ ~(a > a + size - 1)
    BY <1>2, SMT
  <2>2. Cardinality(new) = IF a > a + size - 1 THEN 0 ELSE (a + size - 1) - a + 1
    BY <2>1, FS_Interval
  <2>3. new \in SUBSET Address
    BY <1>2, SMT DEF Address
  <2> QED
    BY <1>2, <2>1, <2>2, <2>3, AddressesFinite, SMT
<1>4. DOMAIN mapping' = DOMAIN mapping \cup new /\ new \cap DOMAIN mapping = {}
  BY <1>0 DEF MapAt
<1>5. Pending("unmap")' = Pending("unmap") /\ Pending("count")' = Pending("count")
  BY <1>1 DEF Pending
<1>6. Pending("unmap") \subseteq DOMAIN mapping
  BY <1>1 DEF Pending, CallInv
<1>7. Counted' = Counted \cup new /\ Counted \cap new = {}
  BY <1>4, <1>5, <1>6 DEF Counted
<1>8. /\ Cardinality(Counted) \in Nat /\ IsFiniteSet(Counted) /\ Counted \in SUBSET Address
      /\ IsFiniteSet(backed) /\ Cardinality(backed) \in Nat
      /\ Cardinality(Pending("count")) \in Nat
  BY <1>1, CountedFinite
<1>9. Cardinality(Counted') = Cardinality(Counted) + size
  BY <1>3, <1>7, <1>8, CardPlus
<1>10. Cardinality(Counted) + size <= LastPage + 1
  BY <1>3, <1>7, <1>8, <1>9, AddressesFinite
<1>11. Excess' = Excess /\ Excess \in Nat /\ LastPage + 1 + Excess < Wrap
  BY <1>1, ExcessBound DEF Excess
<1>12. ASSUME "munmap" \notin Failed PROVE current_size' = current_size + size
  <2>1. current_size <= Cardinality(Counted) + Excess
    BY <1>1, <1>12 DEF CountInv
  <2>2. current_size + size \in 0 .. Wrap - 1
    BY <1>2, <1>8, <1>10, <1>11, <2>1, SMT
  <2> QED
    BY <1>0, <2>2, Wraps
<1>13. CountInv'
  BY <1>1, <1>2, <1>8, <1>9, <1>11, <1>12, SMTT(30) DEF CountInv
<1>14. SpaceInv'
  <2> SUFFICES ASSUME Failed \subseteq {"madvise"}
               PROVE  Cardinality(backed') + Cardinality(Pending("count")) <= current_size + size
    BY <1>1, <1>5, <1>12 DEF SpaceInv
  <2>1. off \in Nat
    BY <1>2, SMT
  <2>2. /\ IsFiniteSet(FilePages(f, off, size))
        /\ Cardinality(FilePages(f, off, size)) <= size
    BY <1>2, <2>1, FilePagesSize
  <2>3. /\ Cardinality(backed \cup FilePages(f, off, size)) \in Nat
        /\ Cardinality(FilePages(f, off, size)) \in Nat
        /\ Cardinality(backed \cup FilePages(f, off, size)) <=
             Cardinality(backed) + Cardinality(FilePages(f, off, size))
    BY <1>8, <2>2, CardAtMost
  <2>4. backed' \in SUBSET (backed \cup FilePages(f, off, size))
    BY <1>0 DEF Kept
  <2>5. IsFiniteSet(backed \cup FilePages(f, off, size))
    BY <1>8, <2>2, FS_Union
  <2>6. /\ Cardinality(backed') <= Cardinality(backed \cup FilePages(f, off, size))
        /\ Cardinality(backed') \in Nat
    BY <2>4, <2>5, FS_Subset, FS_CardinalityType
  <2>7. Cardinality(backed) + Cardinality(Pending("count")) <= current_size
    BY <1>1 DEF SpaceInv
  <2> QED
    BY <1>2, <1>8, <2>2, <2>3, <2>6, <2>7, SMT
<1>15. LimitInv'
  BY <1>0, <1>1 DEF LimitInv, WithinMaxSize
<1>16. GivenBack'
  BY <1>1 DEF GivenBack
<1> QED
  BY <1>13, <1>14, <1>15, <1>16 DEF CountingInv

LEMMA AllocFailsCounts ==
    ASSUME MappingInv, CountingInv, NEW size \in Size, ExtentAllocFails(size)
    PROVE  CountingInv'
<1>1. /\ TypeInv /\ CountInv /\ LimitInv
      /\ life = "alive" /\ Fails("mmap")
      /\ UNCHANGED <<hog, life, lost, current_size, mapping, call>>
  BY DEF MappingInv, CountingInv, ExtentAllocFails
<1>2. Failed' = Failed \cup {"mmap"} /\ Len(failed') = Len(failed) + 1
  BY <1>1, FailsRemembered DEF TypeInv, SystemCall
<1>3. Excess' = Excess + LastPage + 1 /\ Excess \in Nat /\ LastPage \in Nat
  BY <1>1, <1>2, ExcessStep, ExcessBound, Constants
<1>4. Counted' = Counted /\ Cardinality(Counted) \in Nat /\ current_size \in Nat
  BY <1>1, CountedFinite, Constants, SMT DEF Counted, Pending, TypeInv
<1>5. CountInv'
  BY <1>1, <1>2, <1>3, <1>4, SMT DEF CountInv
<1>6. SpaceInv' /\ LimitInv' /\ GivenBack'
  BY <1>1, <1>2 DEF SpaceInv, LimitInv, GivenBack
<1> QED
  BY <1>5, <1>6 DEF CountingInv

LEMMA PunchCounts ==
    ASSUME MappingInv, CountingInv, NEW t \in Thread, NEW pages, Punch(t, pages)
    PROVE  CountingInv'
<1>1. /\ TypeInv /\ CallInv /\ OneToOne /\ LiveBacked /\ CountInv /\ SpaceInv /\ LimitInv
      /\ UNCHANGED <<hog, life, lost, fd, offset, current_size, mapping>>
      /\ call[t].pc = "idle" /\ ~hog /\ life # "closed"
      /\ pages \subseteq DOMAIN mapping \ (Busy \cup lost)
  BY DEF MappingInv, CountingInv, Punch
<1>2. /\ call[t].pages = {}
      /\ \A u \in Thread : pages \cap call[u].pages = {}
  BY <1>1 DEF CallInv, Busy
<1>3. /\ pages \in SUBSET Address /\ pages \in SUBSET DOMAIN mapping
      /\ IsFiniteSet(pages) /\ Cardinality(pages) \in Nat /\ Cardinality(pages) <= LastPage + 1
  BY <1>1, AddressesFinite DEF TypeInv
<1>4. /\ Cardinality(Counted) \in Nat /\ IsFiniteSet(Counted)
      /\ IsFiniteSet(backed) /\ Cardinality(backed) \in Nat
      /\ IsFiniteSet(Pending("count")) /\ Cardinality(Pending("count")) \in Nat
      /\ current_size \in Nat /\ LastPage \in Nat /\ Excess \in Nat
  <2>1. current_size \in Nat /\ LastPage \in Nat
    BY <1>1, Constants, SMT DEF TypeInv
  <2> QED
    BY <1>1, <2>1, CountedFinite, ExcessBound
<1>5. CASE /\ backed' = backed \ {mapping[a] : a \in pages}
           /\ call' = [call EXCEPT ![t] = [pc |-> "count", pages |-> pages]]
           /\ UNCHANGED failed
  <2>1. /\ call'[t].pc = "count" /\ call'[t].pages = pages
        /\ \A u \in Thread : u # t => call'[u] = call[u]
    BY <1>1, <1>5 DEF TypeInv
  <2>2. Pending("count")' = Pending("count") \cup pages
    BY <1>2, <2>1, PendingEnters, SMT
  <2>3. Pending("unmap")' = Pending("unmap") \ call[t].pages
    BY <1>1, <2>1, PendingLeaves
  <2>4. Counted' = Counted
    BY <1>1, <1>2, <2>3 DEF Counted
  <2>5. Failed' = Failed /\ Excess' = Excess
    BY <1>5, FailedSame DEF Excess
  <2>6. CountInv'
    BY <1>1, <2>4, <2>5 DEF CountInv
  <2>7. SpaceInv'
    <3> SUFFICES ASSUME Failed \subseteq {"madvise"}
                 PROVE  Cardinality(backed') + Cardinality(Pending("count")') <= current_size
      BY <1>1, <2>5 DEF SpaceInv
    <3>1. Pending("count") \cap pages = {}
      BY <1>2, SMTT(30) DEF Pending
    <3>2. Cardinality(Pending("count")') = Cardinality(Pending("count")) + Cardinality(pages)
      BY <1>3, <1>4, <2>2, <3>1, CardPlus
    <3>3. {mapping[a] : a \in pages} \in SUBSET backed
      BY <1>1 DEF LiveBacked
    <3>4. Cardinality({mapping[a] : a \in pages}) = Cardinality(pages)
      BY <1>1, <1>3, ImageSize
    <3>5. Cardinality(backed') = Cardinality(backed) - Cardinality(pages)
      BY <1>4, <1>5, <3>3, <3>4, CardMinus
    <3> QED
      BY <1>1, <1>3, <1>4, <3>2, <3>5, SMT DEF SpaceInv
  <2> QED
    BY <1>1, <2>5, <2>6, <2>7 DEF CountingInv, LimitInv, GivenBack
<1>6. CASE /\ Fails("madvise")
           /\ call' = [call EXCEPT ![t] = [pc |-> "unmap", pages |-> pages]]
           /\ UNCHANGED backed
  <2>1. /\ call'[t].pc = "unmap" /\ call'[t].pages = pages
        /\ \A u \in Thread : u # t => call'[u] = call[u]
    BY <1>1, <1>6 DEF TypeInv
  <2>2. Pending("unmap")' = Pending("unmap") \cup pages
    BY <1>2, <2>1, PendingEnters, SMT
  <2>3. Pending("count")' = Pending("count") \ call[t].pages
    BY <1>1, <2>1, PendingLeaves
  <2>4. Counted' = Counted \ pages /\ pages \in SUBSET Counted
    <3>1. pages \cap Pending("unmap") = {}
      BY <1>2 DEF Pending
    <3> QED
      BY <1>1, <1>3, <2>2, <3>1 DEF Counted
  <2>5. Cardinality(Counted') = Cardinality(Counted) - Cardinality(pages)
    BY <1>4, <2>4, CardMinus
  <2>6. Failed' = Failed \cup {"madvise"} /\ Len(failed') = Len(failed) + 1
    BY <1>1, <1>6, FailsRemembered DEF TypeInv, SystemCall
  <2>7. Excess' = Excess + LastPage + 1
    BY <1>1, <2>6, ExcessStep
  <2>8. CountInv'
    <3> SUFFICES ASSUME "munmap" \notin Failed'
                 PROVE  /\ Cardinality(Counted') <= current_size
                        /\ current_size <= Cardinality(Counted') + Excess'
      BY <1>1, <2>6 DEF CountInv
    <3>1. /\ Cardinality(Counted) <= current_size
          /\ current_size <= Cardinality(Counted) + Excess
      BY <1>1, <2>6 DEF CountInv
    <3> QED
      BY <1>3, <1>4, <2>5, <2>7, <3>1, SMTT(30)
  <2>9. SpaceInv'
    BY <1>1, <1>2, <1>6, <2>3, <2>6 DEF SpaceInv
  <2> QED
    BY <1>1, <2>6, <2>8, <2>9 DEF CountingInv, LimitInv, GivenBack
<1> QED
  BY <1>5, <1>6 DEF Punch

LEMMA CountCounts ==
    ASSUME MappingInv, CountingInv, NEW t \in Thread, Count(t)
    PROVE  CountingInv'
<1>1. /\ TypeInv /\ CallInv /\ CountInv /\ SpaceInv /\ LimitInv
      /\ UNCHANGED <<hog, life, lost, fd, offset, mapping, backed, failed>> /\ Failed' = Failed
      /\ call[t].pc = "count"
      /\ current_size' = (current_size - Cardinality(call[t].pages)) % Wrap
      /\ call' = [call EXCEPT ![t].pc = "unmap"]
  BY FailedSame DEF MappingInv, CountingInv, Count
<1> DEFINE pages == call[t].pages
<1>2. /\ call'[t].pc = "unmap" /\ call'[t].pages = pages
      /\ \A u \in Thread : u # t => call'[u] = call[u]
  BY <1>1 DEF TypeInv, Call
<1>3. pages \in SUBSET Address /\ IsFiniteSet(pages) /\ Cardinality(pages) \in Nat
  <2>1. pages \in SUBSET Address
    BY <1>1 DEF TypeInv, Call
  <2> QED
    BY <2>1, AddressesFinite
<1>4. current_size \in 0 .. Wrap - 1 /\ Wrap \in Nat
  BY <1>1, Constants DEF TypeInv
<1>5. /\ Cardinality(Counted) \in Nat /\ IsFiniteSet(Counted)
      /\ Cardinality(backed) \in Nat
      /\ IsFiniteSet(Pending("count")) /\ Cardinality(Pending("count")) \in Nat
      /\ Excess \in Nat
  BY <1>1, CountedFinite, ExcessBound
<1>6. Pending("unmap")' = Pending("unmap") \cup pages
  BY <1>2, PendingEnters
<1>7. Pending("count")' = Pending("count") \ pages
  BY <1>1, <1>2, PendingLeaves
<1>8. pages \in SUBSET Counted
  BY <1>1 DEF Counted, Pending, CallInv
<1>9. Counted' = Counted \ pages
  BY <1>1, <1>6 DEF Counted
<1>10. pages \in SUBSET Pending("count")
  BY <1>1, InPending
<1>11. /\ Cardinality(Counted') = Cardinality(Counted) - Cardinality(pages)
       /\ Cardinality(pages) <= Cardinality(Counted)
  BY <1>5, <1>8, <1>9, CardMinus, FS_Subset
<1>12. Cardinality(Pending("count")') = Cardinality(Pending("count")) - Cardinality(pages)
  BY <1>5, <1>7, <1>10, CardMinus
<1>13. ~hog /\ life # "closed"
  BY <1>1 DEF CallInv, TypeInv
<1>14. ASSUME "munmap" \notin Failed PROVE current_size' = current_size - Cardinality(pages)
  <2>1. Cardinality(Counted) <= current_size
    BY <1>1, <1>13, <1>14 DEF CountInv
  <2>2. current_size - Cardinality(pages) \in 0 .. Wrap - 1
    BY <1>3, <1>4, <1>5, <1>11, <2>1, SMT
  <2> QED
    BY <1>1, <2>2, Wraps
<1>15. Excess' = Excess
  BY <1>1 DEF Excess
<1>16. CountInv'
  BY <1>1, <1>3, <1>4, <1>5, <1>11, <1>14, <1>15, SMTT(30) DEF CountInv
<1>17. SpaceInv'
  BY <1>1, <1>3, <1>4, <1>5, <1>12, <1>14, SMTT(30) DEF SpaceInv
<1>18. LimitInv'
  BY <1>1, <1>3, <1>4, <1>14, Constants, SMT DEF LimitInv
<1> QED
  BY <1>1, <1>13, <1>16, <1>17, <1>18 DEF CountingInv, GivenBack

\* Fewer pages backed, and the count as it was.
LEMMA SpaceShrinks ==
    ASSUME TypeInv, SpaceInv, UNCHANGED current_size, Failed' = Failed,
           backed' \subseteq backed, Pending("count")' = Pending("count")
    PROVE  SpaceInv'
<1>1. /\ IsFiniteSet(backed) /\ Cardinality(backed) \in Nat
      /\ Cardinality(Pending("count")) \in Nat /\ current_size \in Int
  BY CountedFinite, Constants, SMT DEF TypeInv
<1>2. Cardinality(backed') <= Cardinality(backed) /\ Cardinality(backed') \in Nat
  BY <1>1, FS_Subset, FS_CardinalityType
<1> QED
  BY <1>1, <1>2, SMTT(30) DEF SpaceInv

LEMMA UnmapCounts ==
    ASSUME MappingInv, CountingInv, NEW t \in Thread, Unmap(t)
    PROVE  CountingInv'
<1>1. /\ TypeInv /\ CallInv /\ CountInv /\ SpaceInv /\ LimitInv
      /\ UNCHANGED <<hog, life, lost, fd, offset, current_size>>
      /\ call[t].pc = "unmap"
      /\ call' = [call EXCEPT ![t] = Idle] /\ backed' = Kept(backed, fd, mapping')
  BY DEF MappingInv, CountingInv, Unmap
<1>2. life # "closed"
  BY <1>1 DEF CallInv
<1>3. CASE mapping' = [a \in DOMAIN mapping \ call[t].pages |-> mapping[a]] /\ UNCHANGED failed
  <2>1. Failed' = Failed /\ Excess' = Excess
    BY <1>3, FailedSame DEF Excess
  <2>2. /\ call'[t].pc = "idle" /\ call'[t].pages = {}
        /\ \A u \in Thread : u # t => call'[u] = call[u]
    BY <1>1 DEF TypeInv, Idle
  <2>3. Pending("unmap")' = Pending("unmap") \ call[t].pages
    BY <1>1, <2>2, PendingLeaves
  <2>4. Pending("count")' = Pending("count") \ call[t].pages
    BY <1>1, <2>2, PendingLeaves
  <2>5. Pending("count")' = Pending("count")
    BY <1>1, <2>4, SMT DEF Pending, CallInv
  <2>6. call[t].pages \subseteq Pending("unmap")
    BY <1>1, InPending
  <2>7. Counted' = Counted
    BY <1>3, <2>3, <2>6 DEF Counted
  <2>8. CountInv'
    BY <1>1, <2>1, <2>7 DEF CountInv
  <2>9. SpaceInv'
    BY <1>1, <2>1, <2>5, SpaceShrinks DEF Kept
  <2> QED
    BY <1>1, <1>2, <2>1, <2>8, <2>9 DEF CountingInv, LimitInv, GivenBack
<1>4. CASE Fails("munmap") /\ UNCHANGED mapping
  <2>1. Failed' = Failed \cup {"munmap"}
    BY <1>1, <1>4, FailsRemembered DEF TypeInv, SystemCall
  <2> QED
    BY <2>1 DEF CountingInv, CountInv, SpaceInv, LimitInv, GivenBack
<1> QED
  BY <1>3, <1>4 DEF Unmap

\* Memory that is written to was backed before.
LEMMA TouchCounts ==
    ASSUME MappingInv, CountingInv, NEW a \in DOMAIN mapping, Touch(a)
    PROVE  CountingInv'
<1>1. /\ TypeInv /\ LiveBacked /\ CountInv /\ SpaceInv /\ LimitInv
      /\ UNCHANGED <<hog, life, lost, fd, offset, current_size, mapping, call, failed>>
      /\ life = "alive" /\ a \notin Busy
      /\ Failed' = Failed /\ backed' = backed \cup {mapping[a]}
  BY FailedSame DEF MappingInv, CountingInv, Touch
<1>2. /\ Counted' = Counted /\ Excess' = Excess
      /\ Pending("count")' = Pending("count")
  BY <1>1 DEF Counted, Pending, Excess
<1>3. "munmap" \notin Failed => backed' = backed
  BY <1>1 DEF LiveBacked
<1> QED
  BY <1>1, <1>2, <1>3 DEF CountingInv, CountInv, SpaceInv, LimitInv, GivenBack

LEMMA DestroyBeginCounts ==
    ASSUME MappingInv, CountingInv, DestroyBegin
    PROVE  CountingInv'
<1>1. /\ CountInv /\ SpaceInv /\ LimitInv /\ life = "alive" /\ life' = "destroyed"
      /\ UNCHANGED <<hog, fd, offset, current_size, mapping, backed, call, lost, failed>>
      /\ Failed' = Failed
  BY FailedSame DEF MappingInv, CountingInv, DestroyBegin
<1>2. /\ Counted' = Counted /\ Excess' = Excess
      /\ Pending("count")' = Pending("count")
  BY <1>1 DEF Counted, Pending, Excess
<1> QED
  BY <1>1, <1>2 DEF CountingInv, CountInv, SpaceInv, LimitInv, GivenBack

LEMMA ExtentDestroyCounts ==
    ASSUME MappingInv, CountingInv, NEW pages, ExtentDestroy(pages)
    PROVE  CountingInv'
<1>1. /\ TypeInv /\ CountInv /\ SpaceInv /\ LimitInv /\ life = "destroyed"
      /\ hog \/ "munmap" \in Failed
      /\ UNCHANGED <<hog, life, fd, offset, current_size, call>>
      /\ backed' = Kept(backed, fd, mapping')
  BY DEF MappingInv, CountingInv, ExtentDestroy, Failed
<1>2. CASE UNCHANGED failed
  <2>1. Failed' = Failed /\ Pending("count")' = Pending("count")
    BY <1>1, <1>2, FailedSame DEF Pending
  <2>2. SpaceInv'
    BY <1>1, <2>1, SpaceShrinks DEF Kept
  <2> QED
    BY <1>1, <2>1, <2>2 DEF CountingInv, CountInv, LimitInv, GivenBack
<1>3. CASE Fails("munmap")
  <2>1. Failed' = Failed \cup {"munmap"}
    BY <1>1, <1>3, FailsRemembered DEF TypeInv, SystemCall
  <2> QED
    BY <2>1 DEF CountingInv, CountInv, SpaceInv, LimitInv, GivenBack
<1> QED
  BY <1>2, <1>3 DEF ExtentDestroy

LEMMA DestroyEndCounts ==
    ASSUME MappingInv, CountingInv, DestroyEnd
    PROVE  CountingInv'
<1>1. /\ TypeInv /\ CallInv /\ CountInv /\ SpaceInv /\ LimitInv /\ life = "destroyed" /\ life' = "closed"
      /\ UNCHANGED <<hog, fd, offset, current_size, mapping, call, lost, failed>>
      /\ Failed' = Failed /\ DOMAIN mapping \subseteq lost
      /\ backed' = Kept(backed, LastFile + 1, mapping)
  BY FailedSame DEF MappingInv, CountingInv, DestroyEnd
<1>2. /\ Counted' = Counted /\ Excess' = Excess
      /\ Pending("count")' = Pending("count")
  BY <1>1 DEF Counted, Pending, Excess
<1>3. SpaceInv'
  BY <1>1, <1>2, SpaceShrinks DEF Kept
<1>4. GivenBack'
  <2> SUFFICES ASSUME "munmap" \notin Failed
               PROVE  mapping = << >> /\ backed' = {}
    BY <1>1 DEF GivenBack
  <2>1. DOMAIN mapping = {}
    BY <1>1 DEF CallInv
  <2>2. mapping = << >>
    BY <1>1, <2>1, SMTT(30) DEF TypeInv
  <2>3. \A p \in backed : p[1] \in 0 .. LastFile
    BY <1>1 DEF TypeInv, FilePage
  <2>4. \A p \in backed : p[1] # LastFile + 1
    BY <2>3, Constants, SMT
  <2> QED
    BY <1>1, <2>1, <2>2, <2>4 DEF Kept
<1> QED
  BY <1>1, <1>2, <1>3, <1>4 DEF CountingInv, CountInv, LimitInv

LEMMA InitCounts == ASSUME Init PROVE CountingInv
<1>1. /\ DOMAIN mapping = {} /\ backed = {} /\ current_size = 0 /\ life = "alive"
      /\ Excess = 0
  <2>1. Len(failed) = 0 /\ LastPage + 1 \in Nat
    BY Constants, SMT DEF Init
  <2> QED
    BY <2>1, SMT DEF Init, Excess
<1>2. Pending("count") = {} /\ Counted = {}
  BY <1>1 DEF Init, Idle, Pending, Counted
<1> QED
  BY <1>1, <1>2, FS_EmptySet, Constants, SMTT(30) DEF CountingInv, CountInv, SpaceInv, LimitInv, GivenBack

LEMMA NextCounts ==
    ASSUME MappingInv, CountingInv, [Next]_vars
    PROVE  CountingInv'
<1>1. CASE UNCHANGED vars
  <2>1. Failed' = Failed
    BY <1>1, FailedSame DEF vars
  <2> QED
    BY <1>1, <2>1 DEF vars, CountingInv, CountInv, SpaceInv, LimitInv, GivenBack, Counted, Pending, Excess
<1>2. CASE Next
  BY <1>2, AllocCounts, AllocFailsCounts, PunchCounts, CountCounts, UnmapCounts, TouchCounts,
     DestroyBeginCounts, ExtentDestroyCounts, DestroyEndCounts DEF Next, Dalloc
<1> QED
  BY <1>1, <1>2

LEMMA InvHolds == Spec => [](MappingInv /\ CountingInv)
<1>1. Init => MappingInv /\ CountingInv
  BY InitInv, InitCounts
<1>2. MappingInv /\ CountingInv /\ [Next]_vars => (MappingInv /\ CountingInv)'
  BY NextInv, NextCounts
<1> QED
  BY <1>1, <1>2, PTL DEF Spec

-----------------------------------------------------------------------------
(* No page of a file is ever mapped at two addresses, and the state of     *)
(* memkind_pmem.c keeps its types, for any sizes, files and failures.      *)
THEOREM OneMappingPerPageHolds == Spec => []OneMappingPerPage
<1>1. MappingInv => OneMappingPerPage
  <2> SUFFICES ASSUME MappingInv PROVE OneMappingPerPage
    OBVIOUS
  <2>1. TypeInv /\ OneToOne
    BY DEF MappingInv
  <2>2. Failed \subseteq SystemCall
    BY <2>1, SMT DEF Failed, Range, TypeInv
  <2>3. \A a \in DOMAIN mapping : mapping[a] \in FilePage
    BY <2>1 DEF TypeInv
  <2>4. \A t \in Thread : call[t].pc \in {"idle", "count", "unmap"}
    BY <2>1 DEF TypeInv, Call
  <2>5. TypeOK
    BY <2>1, <2>2, <2>3, <2>4 DEF TypeInv, TypeOK, SystemCall, FilePage, Address
  <2> QED
    BY <2>1, <2>5 DEF OneMappingPerPage, OneToOne
<1> QED
  BY <1>1, InvHolds, PTL

(* Memory that jemalloc has is backed by space in the file system, however *)
(* the hooks of several threads interleave and files are replaced.         *)
THEOREM LiveBackedHolds == Spec => []LiveBacked
<1>1. MappingInv => LiveBacked
  BY DEF MappingInv
<1> QED
  BY <1>1, InvHolds, PTL

(* current_size is the space of the mapped extents, and the assertion of   *)
(* pmem_extent_dalloc holds although it reads the count without the lock.  *)
THEOREM CountsSpaceHolds == Spec => []CountsSpace
<1>1. MappingInv /\ CountingInv => CountsSpace
  <2> SUFFICES ASSUME MappingInv, CountingInv PROVE CountsSpace
    OBVIOUS
  <2>1. TypeInv /\ CallInv /\ CountInv
    BY DEF MappingInv, CountingInv
  <2>2. life = "alive" /\ Failed \subseteq {"mmap"}
          => current_size = Cardinality(DOMAIN mapping \ Pending("unmap"))
    BY <2>1 DEF CountInv, Counted
  <2>3. ASSUME "munmap" \notin Failed, NEW t \in Thread, call[t].pc = "count"
        PROVE  current_size >= Cardinality(call[t].pages)
    <3>1. call[t].pages \in SUBSET Counted
      BY <2>1, <2>3 DEF Counted, Pending, CallInv
    <3>2. Cardinality(Counted) <= current_size
      BY <2>1, <2>3 DEF CountInv, CallInv
    <3>3. IsFiniteSet(Counted) /\ Cardinality(Counted) \in Nat /\ current_size \in Int
      BY <2>1, CountedFinite, Constants, SMTT(30) DEF TypeInv
    <3>4. Cardinality(call[t].pages) <= Cardinality(Counted) /\ Cardinality(call[t].pages) \in Nat
      BY <3>1, <3>3, FS_Subset, FS_CardinalityType
    <3> QED
      BY <3>2, <3>3, <3>4, SMT
  <2> QED
    BY <2>2, <2>3 DEF CountsSpace
<1> QED
  BY <1>1, InvHolds, PTL

(* max_size limits the space that the kind takes in the file system, while *)
(* several threads give pages back and count them later.                   *)
THEOREM WithinLimitHolds == Spec => []WithinLimit
<1>1. MappingInv /\ CountingInv => WithinLimit
  <2> SUFFICES ASSUME MappingInv, CountingInv, MaxSize # 0, Failed \subseteq {"madvise"}
               PROVE  Cardinality(backed) <= MaxSize
    BY DEF WithinLimit
  <2>1. TypeInv /\ SpaceInv /\ LimitInv
    BY DEF MappingInv, CountingInv
  <2>2. Cardinality(backed) \in Nat /\ Cardinality(Pending("count")) \in Nat
    BY <2>1, CountedFinite
  <2>3. Cardinality(backed) + Cardinality(Pending("count")) <= current_size
    BY <2>1 DEF SpaceInv
  <2>4. current_size <= MaxSize /\ current_size \in Int /\ MaxSize \in Int
    BY <2>1, Constants, SMT DEF LimitInv, TypeInv
  <2> QED
    BY <2>2, <2>3, <2>4, SMT
<1> QED
  BY <1>1, InvHolds, PTL

(* A kind that memkind_pmem_destroy has destroyed keeps no address and no  *)
(* space, in none of its files.                                            *)
THEOREM GivenBackHolds == Spec => []GivenBack
<1>1. CountingInv => GivenBack
  BY DEF CountingInv
<1> QED
  BY <1>1, InvHolds, PTL
=============================================================================
