-------------------------- MODULE ThreadCachesProofs --------------------------
(***************************************************************************)
(* For any threads, kinds and blocks, and however many numbers jemalloc    *)
(* has: the number of a cache, but for 0, has one owner; a cache has       *)
(* blocks of its kind only; a block is in one place; and the threads that  *)
(* are gone leave no cache behind but those the code cannot know of.       *)
(***************************************************************************)
EXTENDS ThreadCaches, FiniteSetTheorems, TLAPS

\* Zenon is the default prover; a step it does not find names SMT.
USE ZenonT(30)

Number == 0 .. MaxCaches - 1

TypeInv ==
    /\ tcache_map \in [Thread -> {Null} \cup [Kind -> Number]]
    /\ tcaches \in [Number -> {Null} \cup SUBSET Block]
    /\ past \in 0 .. MaxCaches
    /\ avail \in Seq(Number)
    /\ arena \subseteq Block
    /\ held \subseteq Block
    /\ doomed \in [Thread -> SUBSET Number]
    /\ flushed \in [Thread -> SUBSET Block]

\* A number that jemalloc may give out has no cache, and is listed once.
AvailInv ==
    /\ \A i \in Number : i >= past => tcaches[i] = Null
    /\ \A j \in DOMAIN avail : avail[j] < past /\ tcaches[avail[j]] = Null
    /\ \A j, l \in DOMAIN avail : avail[j] = avail[l] => j = l

\* A number, but for 0, that stands in a map has a cache and stands nowhere else.
MapInv ==
    /\ \A t \in Thread, k \in Kind : MapOf(t)[k] # 0 => tcaches[MapOf(t)[k]] # Null
    /\ \A t, u \in Thread : \A k, l \in Kind :
          MapOf(t)[k] # 0 /\ MapOf(t)[k] = MapOf(u)[l] => t = u /\ k = l
    /\ \A t, u \in Thread : \A k \in Kind : MapOf(t)[k] \notin doomed[u]

\* So has one that a destructor is to destroy.
DoomedInv ==
    /\ \A t \in Thread : \A i \in doomed[t] : i # 0 /\ tcaches[i] # Null
    /\ \A t, u \in Thread : \A i \in doomed[t] : i \in doomed[u] => t = u

KindInv ==
    \A t \in Thread, k \in Kind :
        MapOf(t)[k] # 0 => \A b \in Contents(MapOf(t)[k]) : KindOf[b] = k

IInv == TypeInv /\ AvailInv /\ MapInv /\ DoomedInv /\ KindInv

-----------------------------------------------------------------------------
\* What the proofs need most of the assumption.
LEMMA Limits == MaxCaches \in Nat \ {0} /\ MaxRounds \in Nat \ {0} /\ Null \notin Nat
BY ThreadCachesAssumption

\* The map of a thread that has none yet is empty.
LEMMA MapType ==
    ASSUME TypeInv, NEW t \in Thread
    PROVE  MapOf(t) \in [Kind -> Number]
BY Limits, SMT DEF TypeInv, MapOf, Number

LEMMA InitEstablishes == Init => IInv
<1>. SUFFICES ASSUME Init PROVE IInv
  OBVIOUS
<1>1. TypeInv
  BY Limits, SMT DEF Init, TypeInv, Number
<1>2. AvailInv
  BY SMT DEF Init, AvailInv, Number
<1>3. \A t \in Thread : MapOf(t) = [k \in Kind |-> 0]
  BY DEF Init, MapOf
<1>4. MapInv /\ DoomedInv /\ KindInv
  BY <1>3 DEF Init, MapInv, DoomedInv, KindInv
<1>. QED
  BY <1>1, <1>2, <1>4 DEF IInv

\* tcaches_create gives out a number without a cache.
LEMMA NewNumberFree ==
    ASSUME TypeInv, AvailInv, CanCreate
    PROVE  /\ NewNumber \in Number
           /\ tcaches[NewNumber] = Null
<1>1. CASE avail # << >>
  <2>1. 1 \in DOMAIN avail /\ Head(avail) = avail[1] /\ avail[1] \in Number
    BY <1>1, SMT DEF TypeInv
  <2>. QED
    BY <1>1, <2>1, Limits DEF AvailInv, NewNumber, Number
<1>2. CASE avail = << >>
  <2>1. past < MaxCaches /\ past \in Number
    BY <1>2, Limits, SMT DEF CanCreate, TypeInv, Number
  <2>. QED
    BY <1>2, <2>1, Limits, SMT DEF AvailInv, NewNumber, TypeInv, Number
<1>. QED
  BY <1>1, <1>2

\* The flag is none, the number in the map, or a new one.
LEMMA FlagCases ==
    ASSUME IInv, NEW t \in Thread, NEW k \in Kind, NEW small \in BOOLEAN,
           NEW flag \in Flags(t, k, small)
    PROVE  \/ flag = Null
           \/ /\ Cached(k, small) /\ MapOf(t)[k] # 0 /\ flag = MapOf(t)[k]
              /\ flag \in Number /\ tcaches[flag] # Null
           \/ /\ Cached(k, small) /\ MapOf(t)[k] = 0 /\ CanCreate /\ flag = NewNumber
              /\ flag \in Number /\ tcaches[flag] = Null
<1>1. CASE Cached(k, small) /\ MapOf(t)[k] # 0
  <2>1. tcache_map[t] # Null
    BY <1>1 DEF MapOf
  <2>2. MapOf(t)[k] \in Number
    BY <2>1, SMT DEF IInv, TypeInv, MapOf
  <2>. QED
    BY <1>1, <2>2 DEF IInv, MapInv, Flags
<1>2. CASE Cached(k, small) /\ MapOf(t)[k] = 0
  BY <1>2, NewNumberFree DEF IInv, Flags
<1>3. CASE ~Cached(k, small)
  BY <1>3 DEF Flags
<1>. QED
  BY <1>1, <1>2, <1>3

\* What jemalloc finds under the flag is of the flag's kind.
LEMMA ContentsOfKind ==
    ASSUME IInv, NEW t \in Thread, NEW k \in Kind, NEW small \in BOOLEAN,
           NEW flag \in Flags(t, k, small)
    PROVE  /\ Contents(flag) \subseteq Block
           /\ \A b \in Contents(flag) : KindOf[b] = k
<1>1. CASE flag = Null
  BY <1>1 DEF Contents
<1>2. CASE flag \in Number /\ tcaches[flag] = Null
  BY <1>2 DEF Contents
<1>3. CASE MapOf(t)[k] # 0 /\ flag = MapOf(t)[k] /\ flag \in Number /\ tcaches[flag] # Null
  BY <1>3 DEF Contents, IInv, TypeInv, KindInv
<1>. QED
  BY <1>1, <1>2, <1>3, FlagCases

-----------------------------------------------------------------------------
\* get_tcache_flag leaves the maps alone but for the flag it returns.
LEMMA MapAfterFlag ==
    ASSUME IInv, NEW t \in Thread, NEW k \in Kind, NEW small \in BOOLEAN,
           NEW flag \in Flags(t, k, small), GetTcacheFlag(t, k, small, flag)
    PROVE  /\ tcache_map' \in [Thread -> {Null} \cup [Kind -> Number]]
           /\ \A u \in Thread, l \in Kind :
                MapOf(u)'[l] = IF u = t /\ l = k /\ flag # Null THEN flag ELSE MapOf(u)[l]
           /\ flag # Null /\ MapOf(t)[k] = 0 =>
                /\ past' = IF avail # << >> THEN past ELSE past + 1
                /\ avail' = IF avail # << >> THEN Tail(avail) ELSE avail
           /\ flag = Null \/ MapOf(t)[k] # 0 => UNCHANGED <<past, avail>>
<1>t. TypeInv
  BY DEF IInv
<1>n. Null \notin Nat /\ Null \notin [Kind -> Number]
  BY ThreadCachesAssumption DEF Kind, Number
<1>1. CASE flag # Null /\ MapOf(t)[k] # 0
  <2>1. UNCHANGED <<tcache_map, past, avail>> /\ flag = MapOf(t)[k]
    BY <1>1, FlagCases DEF GetTcacheFlag
  <2>2. \A u \in Thread : MapOf(u)' = MapOf(u)
    BY <2>1 DEF MapOf
  <2>. QED
    BY <1>t, <1>1, <2>1, <2>2 DEF TypeInv
<1>2. CASE flag # Null /\ MapOf(t)[k] = 0
  <2>1. Cached(k, small) /\ flag \in Number
    BY <1>2, FlagCases
  <2>2. Create(t, MapOf(t), k) /\ flag = NewNumber
    BY <1>2, <2>1, FlagCases, SMT DEF GetTcacheFlag
  <2>3. MapOf(t) \in [Kind -> Number]
    BY <1>t, MapType
  <2>4. tcache_map' = [tcache_map EXCEPT ![t] = [MapOf(t) EXCEPT ![k] = flag]]
    BY <2>2 DEF Create
  <2>5. [MapOf(t) EXCEPT ![k] = flag] \in [Kind -> Number]
    BY <2>1, <2>3
  <2>6. tcache_map' \in [Thread -> {Null} \cup [Kind -> Number]]
    BY <1>t, <2>4, <2>5 DEF TypeInv
  <2>7. [MapOf(t) EXCEPT ![k] = flag] # Null
    BY <1>n, <2>5 DEF Number
  <2>8. MapOf(t)' = [MapOf(t) EXCEPT ![k] = flag]
    BY <1>t, <2>4, <2>7 DEF TypeInv, MapOf
  <2>9. \A u \in Thread \ {t} : MapOf(u)' = MapOf(u)
    BY <1>t, <2>4 DEF TypeInv, MapOf
  <2>10. \A u \in Thread, l \in Kind :
            MapOf(u)'[l] = IF u = t /\ l = k /\ flag # Null THEN flag ELSE MapOf(u)[l]
    BY <1>2, <2>3, <2>8, <2>9
  <2>. QED
    BY <1>2, <2>2, <2>6, <2>10 DEF Create
<1>3. CASE flag = Null
  <2>1. UNCHANGED <<past, avail>>
    BY <1>3 DEF GetTcacheFlag
  <2>2. \/ tcache_map' = tcache_map
        \/ tcache_map' = [tcache_map EXCEPT ![t] = MapOf(t)] /\ MapOf(t)[k] = 0
    BY <1>3 DEF GetTcacheFlag
  <2>3. CASE tcache_map' = tcache_map
    BY <1>t, <1>3, <2>1, <2>3 DEF TypeInv, MapOf
  <2>4. CASE tcache_map' = [tcache_map EXCEPT ![t] = MapOf(t)]
    <3>1. MapOf(t) \in [Kind -> Number] /\ MapOf(t) # Null
      BY <1>t, <1>n, MapType DEF Number
    <3>2. tcache_map' \in [Thread -> {Null} \cup [Kind -> Number]]
      BY <1>t, <2>4, <3>1 DEF TypeInv
    <3>3. \A u \in Thread : MapOf(u)' = MapOf(u)
      BY <1>t, <2>4, <3>1 DEF TypeInv, MapOf
    <3>. QED
      BY <1>3, <2>1, <3>2, <3>3
  <2>. QED
    BY <2>2, <2>3, <2>4
<1>. QED
  BY <1>1, <1>2, <1>3

\* A call that leaves blocks of its kind under its flag keeps the invariant.
LEMMA FlagStep ==
    ASSUME IInv, NEW t \in Thread, NEW k \in Kind, NEW small \in BOOLEAN,
           NEW flag \in Flags(t, k, small), GetTcacheFlag(t, k, small, flag),
           NEW content \in SUBSET Block, \A b \in content : KindOf[b] = k,
           Store(flag, content),
           arena' \subseteq Block, held' \subseteq Block, UNCHANGED <<doomed, flushed>>
    PROVE  IInv'
<1>i. TypeInv /\ AvailInv /\ MapInv /\ DoomedInv /\ KindInv
  BY DEF IInv
<1>n. content # Null
  BY ThreadCachesAssumption
<1>c. \/ flag = Null
      \/ MapOf(t)[k] # 0 /\ flag = MapOf(t)[k] /\ flag \in Number /\ tcaches[flag] # Null
      \/ /\ MapOf(t)[k] = 0 /\ CanCreate /\ flag = NewNumber
         /\ flag \in Number /\ tcaches[flag] = Null
  BY FlagCases
<1>m. /\ tcache_map' \in [Thread -> {Null} \cup [Kind -> Number]]
      /\ \A u \in Thread, l \in Kind :
           MapOf(u)'[l] = IF u = t /\ l = k /\ flag # Null THEN flag ELSE MapOf(u)[l]
      /\ flag # Null /\ MapOf(t)[k] = 0 =>
           /\ past' = IF avail # << >> THEN past ELSE past + 1
           /\ avail' = IF avail # << >> THEN Tail(avail) ELSE avail
      /\ flag = Null \/ MapOf(t)[k] # 0 => UNCHANGED <<past, avail>>
  BY MapAfterFlag, SMT
<1>s. /\ tcaches' \in [Number -> {Null} \cup SUBSET Block]
      /\ \A i \in Number : tcaches'[i] = IF flag # Null /\ i = flag THEN content ELSE tcaches[i]
  BY <1>i, <1>c DEF Store, TypeInv
<1>1. past' \in 0 .. MaxCaches /\ avail' \in Seq(Number) /\ AvailInv'
  <2>1. CASE flag = Null \/ MapOf(t)[k] # 0
    <3>1. past' = past /\ avail' = avail
      BY <1>m, <2>1
    <3>2. flag # Null => flag \in Number /\ flag < past /\ \A j \in DOMAIN avail : avail[j] # flag
      BY <1>i, <1>c, <2>1, Limits, SMT DEF AvailInv, TypeInv, Number
    <3>3. \A j \in DOMAIN avail : avail[j] \in Number
      BY <1>i, SMT DEF TypeInv
    <3>4. \A i \in Number : i >= past => tcaches'[i] = Null
      <4>1. \A i \in Number : i >= past => flag = Null \/ i # flag
        BY <1>i, <3>2, Limits, SMT DEF TypeInv, Number
      <4>. QED
        BY <1>i, <1>s, <4>1 DEF AvailInv
    <3>5. \A j \in DOMAIN avail : avail[j] < past /\ tcaches'[avail[j]] = Null
      BY <1>i, <1>s, <3>2, <3>3 DEF AvailInv
    <3>. QED
      BY <1>i, <3>1, <3>4, <3>5 DEF AvailInv, TypeInv
  <2>2. CASE flag # Null /\ MapOf(t)[k] = 0 /\ avail # << >>
    <3>1. past' = past /\ avail' = Tail(avail) /\ flag = avail[1] /\ flag \in Number
      BY <1>i, <1>m, <1>c, <2>2, SMTT(30) DEF NewNumber, TypeInv
    <3>2. /\ avail' \in Seq(Number)
          /\ \A j \in DOMAIN avail' : j + 1 \in DOMAIN avail /\ avail'[j] = avail[j + 1] /\ j \in Nat \ {0}
      BY <1>i, <2>2, <3>1, SMT DEF TypeInv
    <3>3. 1 \in DOMAIN avail /\ flag < past
      BY <1>i, <2>2, <3>1, SMTT(30) DEF AvailInv, TypeInv
    <3>4. \A j \in DOMAIN avail' : avail'[j] \in Number /\ avail'[j] # flag
      BY <1>i, <3>1, <3>2, <3>3, SMT DEF AvailInv
    <3>5. \A j, l \in DOMAIN avail' : avail'[j] = avail'[l] => j = l
      BY <1>i, <3>2, SMT DEF AvailInv
    <3>6. \A i \in Number : i >= past' => tcaches'[i] = Null
      <4>1. \A i \in Number : i >= past' => i >= past /\ i # flag
        BY <1>i, <3>1, <3>3, Limits, SMT DEF TypeInv, Number
      <4>. QED
        BY <1>i, <1>s, <4>1 DEF AvailInv
    <3>7. \A j \in DOMAIN avail' : avail'[j] < past' /\ tcaches'[avail'[j]] = Null
      BY <1>i, <1>s, <3>1, <3>2, <3>4, SMT DEF AvailInv
    <3>. QED
      BY <1>i, <3>1, <3>2, <3>5, <3>6, <3>7 DEF AvailInv, TypeInv
  <2>3. CASE flag # Null /\ MapOf(t)[k] = 0 /\ avail = << >>
    <3>1. past' = past + 1 /\ avail' = << >> /\ flag = past /\ past < MaxCaches
      BY <1>i, <1>m, <1>c, <2>3 DEF NewNumber, CanCreate
    <3>2. \A i \in Number : i >= past' => tcaches'[i] = Null
      <4>1. \A i \in Number : i >= past' => i >= past /\ i # flag
        BY <1>i, <3>1, Limits, SMT DEF TypeInv, Number
      <4>. QED
        BY <1>i, <1>s, <4>1 DEF AvailInv
    <3>3. past' \in 0 .. MaxCaches /\ avail' \in Seq(Number) /\ DOMAIN avail' = {}
      BY <1>i, <3>1, Limits, SMTT(30) DEF TypeInv
    <3>. QED
      BY <3>2, <3>3 DEF AvailInv
  <2>. QED
    BY <2>1, <2>2, <2>3
<1>2. TypeInv'
  BY <1>i, <1>m, <1>s, <1>1 DEF TypeInv
<1>3. \A u \in Thread, l \in Kind : MapOf(u)[l] \in Number
  BY <1>i, MapType
<1>4. \A u \in Thread, l \in Kind :
        MapOf(u)'[l] # 0 /\ flag # Null /\ MapOf(u)'[l] = flag => u = t /\ l = k
  BY <1>i, <1>c, <1>m, SMTT(30) DEF MapInv
<1>5. \A u \in Thread, l \in Kind : MapOf(u)'[l] # 0 => tcaches'[MapOf(u)'[l]] # Null
  BY <1>i, <1>c, <1>m, <1>s, <1>n, <1>3, SMTT(30) DEF MapInv
<1>6. \A u, v \in Thread : \A l, h \in Kind :
        MapOf(u)'[l] # 0 /\ MapOf(u)'[l] = MapOf(v)'[h] => u = v /\ l = h
  BY <1>i, <1>m, <1>4, SMTT(30) DEF MapInv
<1>7. \A u, v \in Thread : \A l \in Kind : MapOf(u)'[l] \notin doomed'[v]
  BY <1>i, <1>c, <1>m, SMT DEF MapInv, DoomedInv
<1>8. MapInv'
  BY <1>5, <1>6, <1>7 DEF MapInv
<1>9. DoomedInv'
  BY <1>i, <1>s, <1>n DEF DoomedInv, TypeInv
<1>10. ASSUME NEW u \in Thread, NEW l \in Kind, MapOf(u)'[l] # 0
       PROVE  \A b \in Contents(MapOf(u)[l])' : KindOf[b] = l
  <2>1. CASE flag # Null /\ MapOf(u)'[l] = flag
    <3>1. u = t /\ l = k /\ tcaches'[MapOf(u)'[l]] = content
      BY <1>c, <1>s, <1>4, <1>10, <2>1
    <3>. QED
      BY <3>1 DEF Contents
  <2>2. CASE flag = Null \/ MapOf(u)'[l] # flag
    <3>1. MapOf(u)'[l] = MapOf(u)[l] /\ tcaches'[MapOf(u)[l]] = tcaches[MapOf(u)[l]]
      BY <1>m, <1>s, <1>3, <2>2
    <3>2. Contents(MapOf(u)[l])' = Contents(MapOf(u)[l])
      BY <3>1 DEF Contents
    <3>. QED
      BY <1>i, <1>10, <3>1, <3>2 DEF KindInv
  <2>. QED
    BY <2>1, <2>2
<1>11. KindInv'
  BY <1>10 DEF KindInv
<1>. QED
  BY <1>1, <1>2, <1>8, <1>9, <1>11 DEF IInv

\* What malloc takes from the arenas or the cache is of its kind.
LEMMA AllocationsOfKind ==
    ASSUME IInv, NEW t \in Thread, NEW k \in Kind, NEW small \in BOOLEAN,
           NEW flag \in Flags(t, k, small), NEW new \in Allocations(k, flag)
    PROVE  /\ new.block \in Block
           /\ new.left \in SUBSET Block
           /\ \A b \in new.left : KindOf[b] = k
<1>1. /\ Contents(flag) \subseteq Block
      /\ \A b \in Contents(flag) : KindOf[b] = k
  BY ContentsOfKind
<1>2. Available(k) \subseteq Block /\ \A b \in Available(k) : KindOf[b] = k
  BY DEF Available, IInv, TypeInv
<1>3. CASE Contents(flag) # {}
  <2>1. PICK b \in Contents(flag) : new = [block |-> b, left |-> Contents(flag) \ {b}]
    BY <1>3 DEF Allocations
  <2>. QED
    BY <1>1, <2>1
<1>4. CASE Contents(flag) = {}
  <2>1. PICK fill \in SUBSET Available(k) : \E b \in Available(k) : new = [block |-> b, left |-> fill]
    BY <1>4 DEF Allocations
  <2>2. PICK b \in Available(k) : new = [block |-> b, left |-> fill]
    BY <2>1
  <2>. QED
    BY <1>2, <2>1, <2>2
<1>. QED
  BY <1>3, <1>4

\* A step that leaves the numbers of caches alone keeps the invariant.
LEMMA Frame ==
    ASSUME IInv, UNCHANGED <<table, doomed>>, arena' \subseteq Block, held' \subseteq Block,
           flushed' \in [Thread -> SUBSET Block]
    PROVE  IInv'
<1>1. TypeInv' /\ AvailInv' /\ DoomedInv'
  BY DEF IInv, TypeInv, AvailInv, DoomedInv, table
<1>2. tcache_map' = tcache_map /\ tcaches' = tcaches /\ doomed' = doomed
  BY DEF table
<1>3. \A t \in Thread : MapOf(t)' = MapOf(t)
  BY <1>2 DEF MapOf
<1>4. MapInv'
  BY <1>2, <1>3, SMT DEF IInv, MapInv
<1>5. KindInv'
  BY <1>2, <1>3, SMT DEF IInv, KindInv, Contents
<1>. QED
  BY <1>1, <1>4, <1>5 DEF IInv

-----------------------------------------------------------------------------
LEMMA MallocStep ==
    ASSUME IInv, NEW t \in Thread, NEW k \in Kind, NEW small \in BOOLEAN, ArenaMalloc(t, k, small)
    PROVE  IInv'
<1>1. PICK flag \in Flags(t, k, small) :
        /\ GetTcacheFlag(t, k, small, flag)
        /\ \/ \E new \in Allocations(k, flag) :
                /\ Store(flag, new.left)
                /\ arena' = arena \ (new.left \cup {new.block})
                /\ held' = held \cup {new.block}
           \/ Store(flag, {}) /\ UNCHANGED <<arena, held>>
  BY DEF ArenaMalloc
<1>2. UNCHANGED <<doomed, flushed>> /\ arena \subseteq Block /\ held \subseteq Block
  BY DEF ArenaMalloc, exits, IInv, TypeInv
<1>3. ASSUME NEW new \in Allocations(k, flag), Store(flag, new.left),
             arena' = arena \ (new.left \cup {new.block}), held' = held \cup {new.block}
      PROVE  IInv'
  <2>1. /\ new.block \in Block /\ new.left \in SUBSET Block
        /\ \A b \in new.left : KindOf[b] = k
    BY AllocationsOfKind
  <2>2. arena' \subseteq Block /\ held' \subseteq Block
    BY <1>2, <1>3, <2>1
  <2>. QED
    BY <1>1, <1>2, <1>3, <2>1, <2>2, FlagStep, SMT
<1>4. CASE Store(flag, {}) /\ UNCHANGED <<arena, held>>
  <2>1. {} \in SUBSET Block /\ \A b \in {} : KindOf[b] = k
    OBVIOUS
  <2>. QED
    BY <1>1, <1>2, <1>4, <2>1, FlagStep
<1>. QED
  BY <1>1, <1>3, <1>4

LEMMA FreeStep ==
    ASSUME IInv, NEW t \in Thread, NEW b \in Block, ArenaFree(t, b)
    PROVE  IInv'
<1>k. KindOf[b] \in Kind /\ DetectKind(b) = KindOf[b]
  BY ThreadCachesAssumption DEF Kind, DetectKind
<1> DEFINE k == KindOf[b]
<1>1. PICK flag \in Flags(t, k, TRUE) :
        /\ GetTcacheFlag(t, k, TRUE, flag)
        /\ \/ flag = Null /\ arena' = arena \cup {b} /\ UNCHANGED tcaches
           \/ /\ flag # Null
              /\ \E back \in SUBSET Contents(flag) :
                   /\ Store(flag, (Contents(flag) \cup {b}) \ back)
                   /\ arena' = arena \cup back
  BY <1>k DEF ArenaFree
<1>2. /\ UNCHANGED <<doomed, flushed>> /\ arena \subseteq Block /\ held \subseteq Block
      /\ held' \subseteq Block
  BY DEF ArenaFree, exits, IInv, TypeInv
<1>3. k \in Kind /\ TRUE \in BOOLEAN
  BY <1>k
<1>4. Contents(flag) \subseteq Block /\ \A c \in Contents(flag) : KindOf[c] = k
  BY <1>3, ContentsOfKind
<1>5. CASE flag = Null /\ arena' = arena \cup {b} /\ UNCHANGED tcaches
  <2>1. Store(flag, {}) /\ arena' \subseteq Block
    BY <1>2, <1>5 DEF Store
  <2>2. {} \in SUBSET Block /\ \A c \in {} : KindOf[c] = k
    OBVIOUS
  <2>. QED
    BY <1>1, <1>2, <1>3, <2>1, <2>2, FlagStep
<1>6. ASSUME NEW back \in SUBSET Contents(flag),
             Store(flag, (Contents(flag) \cup {b}) \ back), arena' = arena \cup back
      PROVE  IInv'
  <2> DEFINE content == (Contents(flag) \cup {b}) \ back
  <2>1. content \in SUBSET Block /\ \A c \in content : KindOf[c] = k
    BY <1>4
  <2>2. arena' \subseteq Block /\ Store(flag, content)
    BY <1>2, <1>4, <1>6
  <2> HIDE DEF content
  <2>. QED
    BY <1>1, <1>2, <1>3, <2>1, <2>2, FlagStep
<1>. QED
  BY <1>1, <1>5, <1>6

LEMMA ReallocStep ==
    ASSUME IInv, NEW t \in Thread, NEW b \in Block, NEW small \in BOOLEAN, ArenaRealloc(t, b, small)
    PROVE  IInv'
<1> DEFINE k == KindOf[b]
<1>1. PICK flag \in Flags(t, k, small) :
        /\ GetTcacheFlag(t, k, small, flag)
        /\ \/ \E new \in Allocations(k, flag) :
                /\ Store(flag, new.left \cup {b})
                /\ held' = (held \ {b}) \cup {new.block}
                /\ arena' = (arena \ (new.left \cup {new.block}))
                            \cup (IF flag = Null THEN {b} ELSE {})
           \/ Store(flag, {}) /\ UNCHANGED <<arena, held>>
  BY DEF ArenaRealloc
<1>2. UNCHANGED <<doomed, flushed>> /\ arena \subseteq Block /\ held \subseteq Block
  BY DEF ArenaRealloc, exits, IInv, TypeInv
<1>3. k \in Kind
  BY ThreadCachesAssumption DEF Kind
<1>4. ASSUME NEW new \in Allocations(k, flag), Store(flag, new.left \cup {b}),
             held' = (held \ {b}) \cup {new.block},
             arena' = (arena \ (new.left \cup {new.block})) \cup (IF flag = Null THEN {b} ELSE {})
      PROVE  IInv'
  <2> DEFINE content == new.left \cup {b}
  <2>1. new.block \in Block /\ new.left \in SUBSET Block /\ \A c \in new.left : KindOf[c] = k
    BY <1>3, AllocationsOfKind
  <2>2. content \in SUBSET Block /\ (\A c \in content : KindOf[c] = k) /\ Store(flag, content)
    BY <1>4, <2>1
  <2>3. arena' \subseteq Block /\ held' \subseteq Block
    BY <1>2, <1>4, <2>1
  <2> HIDE DEF content
  <2>. QED
    BY <1>1, <1>2, <1>3, <2>2, <2>3, FlagStep
<1>5. CASE Store(flag, {}) /\ UNCHANGED <<arena, held>>
  <2>1. {} \in SUBSET Block /\ \A c \in {} : KindOf[c] = k
    OBVIOUS
  <2>. QED
    BY <1>1, <1>2, <1>3, <1>5, <2>1, FlagStep
<1>. QED
  BY <1>1, <1>4, <1>5

\* The numbers move from the key's value to the destructor.
LEMMA FinalizeStep ==
    ASSUME IInv, NEW t \in Thread, FinalizeBegin(t)
    PROVE  IInv'
<1>i. TypeInv /\ AvailInv /\ MapInv /\ DoomedInv /\ KindInv
  BY DEF IInv
<1>1. /\ tcache_map[t] # Null /\ UNCHANGED <<tcaches, past, avail, arena, held, flushed>>
      /\ doomed' = [doomed EXCEPT ![t] = Doomed(t)]
      /\ tcache_map' = [tcache_map EXCEPT ![t] = Null]
  BY DEF FinalizeBegin, KeyCleared, blocks
<1>2. MapOf(t) = tcache_map[t] /\ MapOf(t) \in [Kind -> Number]
  BY <1>i, <1>1, MapType DEF MapOf
<1>3. /\ Doomed(t) \subseteq Number
      /\ \A i \in Doomed(t) : i # 0 /\ \E k \in Kind : i = MapOf(t)[k]
  BY <1>2 DEF Doomed
<1>4. TypeInv'
  BY <1>i, <1>1, <1>3 DEF TypeInv
<1>5. AvailInv'
  BY <1>i, <1>1 DEF AvailInv
<1>6. \A u \in Thread, l \in Kind : MapOf(u)'[l] = IF u = t THEN 0 ELSE MapOf(u)[l]
  BY <1>i, <1>1 DEF TypeInv, MapOf
<1>7. \A u \in Thread : doomed'[u] = IF u = t THEN Doomed(t) ELSE doomed[u]
  BY <1>i, <1>1 DEF TypeInv
<1>8. MapInv'
  <2>1. \A u \in Thread, l \in Kind : MapOf(u)'[l] # 0 => tcaches'[MapOf(u)'[l]] # Null
    BY <1>i, <1>1, <1>6, SMT DEF MapInv
  <2>2. \A u, v \in Thread : \A l, h \in Kind :
          MapOf(u)'[l] # 0 /\ MapOf(u)'[l] = MapOf(v)'[h] => u = v /\ l = h
    BY <1>i, <1>6, SMT DEF MapInv
  <2>3. \A v \in Thread : 0 \notin doomed'[v]
    BY <1>i, <1>3, <1>7 DEF DoomedInv
  <2>4. \A u \in Thread \ {t} : \A l \in Kind : MapOf(u)[l] # 0 => MapOf(u)[l] \notin Doomed(t)
    BY <1>i, <1>3, SMTT(30) DEF MapInv
  <2>5. \A u, v \in Thread : \A l \in Kind : MapOf(u)'[l] \notin doomed'[v]
    BY <1>i, <1>6, <1>7, <2>3, <2>4, SMTT(30) DEF MapInv
  <2>. QED
    BY <2>1, <2>2, <2>5 DEF MapInv
<1>9. DoomedInv'
  BY <1>i, <1>1, <1>3, <1>7, SMT DEF MapInv, DoomedInv
<1>10. KindInv'
  BY <1>i, <1>1, <1>6, SMT DEF KindInv, Contents
<1>. QED
  BY <1>4, <1>5, <1>8, <1>9, <1>10 DEF IInv

\* A number that is destroyed stands nowhere, and is listed for the next cache.
LEMMA DestroyStep ==
    ASSUME IInv, NEW t \in Thread, TcacheDestroy(t)
    PROVE  IInv'
<1>i. TypeInv /\ AvailInv /\ MapInv /\ DoomedInv /\ KindInv
  BY DEF IInv
<1>1. PICK i \in doomed[t] :
        /\ flushed' = [flushed EXCEPT ![t] = Contents(i)]
        /\ tcaches' = [tcaches EXCEPT ![i] = Null]
        /\ avail' = <<i>> \o avail
        /\ doomed' = [doomed EXCEPT ![t] = @ \ {i}]
  BY DEF TcacheDestroy
<1>2. UNCHANGED <<tcache_map, past, arena, held>>
  BY DEF TcacheDestroy, blocks
<1>3. i \in Number /\ tcaches[i] # Null /\ i # 0
  BY <1>i DEF TypeInv, DoomedInv
<1>4. \A j \in Number : tcaches'[j] = IF j = i THEN Null ELSE tcaches[j]
  BY <1>i, <1>1 DEF TypeInv
<1>5. \A u \in Thread : doomed'[u] = IF u = t THEN doomed[t] \ {i} ELSE doomed[u]
  BY <1>i, <1>1 DEF TypeInv
<1>6. Contents(i) \in SUBSET Block
  BY <1>i, <1>3 DEF Contents, TypeInv
<1>7. /\ avail' \in Seq(Number) /\ Len(avail') = Len(avail) + 1 /\ avail'[1] = i
      /\ \A j \in DOMAIN avail' : j = 1 \/ (j - 1 \in DOMAIN avail /\ avail'[j] = avail[j - 1])
      /\ DOMAIN avail' \subseteq Nat
  BY <1>i, <1>1, <1>3, SMT DEF TypeInv
<1>8. TypeInv'
  BY <1>i, <1>1, <1>2, <1>3, <1>6, <1>7 DEF TypeInv
<1>9. AvailInv'
  <2>1. i < past
    BY <1>i, <1>3, SMT DEF AvailInv, TypeInv, Number
  <2>2. \A j \in DOMAIN avail : avail[j] # i /\ avail[j] \in Number
    BY <1>i, <1>3, SMTT(30) DEF AvailInv, TypeInv
  <2>3. \A j \in Number : j >= past' => tcaches'[j] = Null
    BY <1>i, <1>2, <1>4 DEF AvailInv
  <2>4. \A j \in DOMAIN avail' : avail'[j] < past' /\ tcaches'[avail'[j]] = Null
    BY <1>i, <1>2, <1>3, <1>4, <1>7, <2>1, <2>2, SMT DEF AvailInv
  <2>5. \A j, l \in DOMAIN avail' : avail'[j] = avail'[l] => j = l
    BY <1>i, <1>7, <2>2, SMTT(30) DEF AvailInv
  <2>. QED
    BY <2>3, <2>4, <2>5 DEF AvailInv
<1>10. \A u \in Thread, l \in Kind :
         MapOf(u)' = MapOf(u) /\ MapOf(u)[l] # i /\ MapOf(u)[l] \in Number
  <2>1. \A u : MapOf(u)' = MapOf(u)
    BY <1>2 DEF MapOf
  <2>2. \A u \in Thread, l \in Kind : MapOf(u)[l] # i
    BY <1>i, SMTT(30) DEF MapInv
  <2>3. \A u \in Thread, l \in Kind : MapOf(u)[l] \in Number
    BY <1>i, MapType
  <2>. QED
    BY <2>1, <2>2, <2>3
<1>11. MapInv'
  <2>1. \A u \in Thread, l \in Kind : MapOf(u)'[l] # 0 => tcaches'[MapOf(u)'[l]] # Null
    BY <1>i, <1>4, <1>10, SMTT(30) DEF MapInv
  <2>2. \A u, v \in Thread : \A l, h \in Kind :
          MapOf(u)'[l] # 0 /\ MapOf(u)'[l] = MapOf(v)'[h] => u = v /\ l = h
    BY <1>i, <1>10, SMT DEF MapInv
  <2>3. \A u, v \in Thread : \A l \in Kind : MapOf(u)'[l] \notin doomed'[v]
    BY <1>i, <1>5, <1>10 DEF MapInv
  <2>. QED
    BY <2>1, <2>2, <2>3 DEF MapInv
<1>12. DoomedInv'
  BY <1>i, <1>4, <1>5 DEF DoomedInv, TypeInv
<1>13. KindInv'
  BY <1>i, <1>4, <1>10, SMT DEF KindInv, Contents
<1>. QED
  BY <1>8, <1>9, <1>11, <1>12, <1>13 DEF IInv

LEMMA StepKeepsNumbers == IInv /\ [Next]_vars => IInv'
<1>. SUFFICES ASSUME IInv, [Next]_vars PROVE IInv'
  OBVIOUS
<1>t. arena \subseteq Block /\ held \subseteq Block /\ flushed \in [Thread -> SUBSET Block]
  BY DEF IInv, TypeInv
<1>1. ASSUME NEW t \in Thread, Calls(t) PROVE IInv'
  <2>1. ASSUME NEW b \in Block, Defrag(t, b) PROVE IInv'
    BY <1>t, <2>1, Frame DEF Defrag, exits, Available
  <2>. QED
    BY <1>1, <2>1, MallocStep, FreeStep, ReallocStep DEF Calls
<1>2. ASSUME NEW t \in Thread, Exit(t) PROVE IInv'
  BY <1>t, <1>2, Frame DEF Exit, blocks
<1>3. ASSUME NEW t \in Thread, Finishing(t) PROVE IInv'
  <2>1. CASE TcacheFlush(t)
    BY <1>t, <2>1, Frame DEF TcacheFlush
  <2>2. CASE FinalizeEnd(t)
    BY <1>t, <2>2, Frame DEF FinalizeEnd, blocks
  <2>3. CASE FinalizeSkip(t)
    BY <1>t, <2>3, Frame DEF FinalizeSkip, blocks
  <2>4. CASE EndRound(t)
    BY <1>t, <2>4, Frame DEF EndRound, blocks
  <2>. QED
    BY <1>3, <2>1, <2>2, <2>3, <2>4, FinalizeStep, DestroyStep DEF Finishing
<1>4. ASSUME NEW k \in DynamicKind, Destroy(k) PROVE IInv'
  BY <1>t, <1>4, Frame DEF Destroy, exits
<1>5. CASE UNCHANGED vars
  BY <1>t, <1>5, Frame DEF vars, blocks, exits
<1>. QED
  BY <1>1, <1>2, <1>3, <1>4, <1>5 DEF Next

LEMMA NumbersHold == Spec => []IInv
BY InitEstablishes, StepKeepsNumbers, PTL DEF Spec

(***************************************************************************)
(* OneOwner: a number, but for 0, that get_tcache_flag put in a thread's   *)
(* map or that tcache_finalize is about to destroy is that of a cache and  *)
(* stands in no other place.                                               *)
(***************************************************************************)
THEOREM OneOwnerHolds == Spec => []OneOwner
<1>1. ASSUME IInv PROVE OneOwner
  <2>1. SUFFICES ASSUME NEW i \in Number \ {0}
                 PROVE  Cardinality(Users(i)) <= (IF i \in Live THEN 1 ELSE 0)
    BY <1>1 DEF OneOwner, IInv, TypeInv
  <2>2. ASSUME NEW p \in Users(i)
        PROVE  \E t \in Thread :
                 \/ \E k \in Kind : p = <<t, k>> /\ MapOf(t)[k] = i
                 \/ p = <<t, Null>> /\ i \in doomed[t]
    BY <2>2, SMT DEF Users, MapOf
  <2>3. ASSUME NEW p \in Users(i) PROVE i \in Live
    <3>1. tcaches[i] # Null
      BY <1>1, <2>2, <2>3, SMT DEF IInv, MapInv, DoomedInv
    <3>. QED
      BY <1>1, <3>1 DEF IInv, TypeInv, Live
  <2>4. \A p, q \in Users(i) : p = q
    BY <1>1, <2>2, SMT DEF IInv, MapInv, DoomedInv
  <2>5. CASE Users(i) = {}
    BY <2>5, FS_EmptySet, SMT
  <2>6. CASE Users(i) # {}
    <3>1. PICK p \in Users(i) : TRUE
      BY <2>6
    <3>2. Users(i) = {p}
      BY <2>4, <3>1
    <3>3. Cardinality({p}) = 1
      BY FS_Singleton
    <3>. QED
      BY <2>3, <3>2, <3>3, SMT
  <2>. QED
    BY <2>5, <2>6
<1>. QED
  BY <1>1, NumbersHold, PTL

(***************************************************************************)
(* CachesOfKind: the cache under a number in a thread's map has blocks of  *)
(* the kind of the number's place only.                                    *)
(***************************************************************************)
THEOREM CachesOfKindHolds == Spec => []CachesOfKind
<1>1. ASSUME IInv PROVE CachesOfKind
  BY <1>1 DEF IInv, KindInv, MapOf, CachesOfKind
<1>. QED
  BY <1>1, NumbersHold, PTL

-----------------------------------------------------------------------------
(* The places of the blocks.                                               *)

\* No block is in two places.
PlaceInv ==
    /\ held \cap arena = {}
    /\ \A i \in Number : Contents(i) \cap (held \cup arena) = {}
    /\ \A i, j \in Number : i # j => Contents(i) \cap Contents(j) = {}
    /\ \A t \in Thread : flushed[t] \cap (held \cup arena) = {}
    /\ \A t \in Thread, i \in Number : flushed[t] \cap Contents(i) = {}
    /\ \A t, u \in Thread : t # u => flushed[t] \cap flushed[u] = {}

\* Kinds that can be destroyed have no blocks in caches.
StaticInv ==
    /\ \A i \in Number : \A b \in Contents(i) : KindOf[b] \in StaticKind
    /\ \A t \in Thread : \A b \in flushed[t] : KindOf[b] \in StaticKind

Somewhere(b) ==
    \/ b \in held \/ b \in arena
    \/ \E i \in Number : b \in Contents(i)
    \/ \E t \in Thread : b \in flushed[t]

\* The blocks of the kinds there are, and no others, have a place.
CoverInv == \A b \in Block : KindOf[b] \in StaticKind \cup live <=> Somewhere(b)

PInv == PlaceInv /\ StaticInv /\ CoverInv

LEMMA InitPlaces == Init => PInv
<1>. SUFFICES ASSUME Init PROVE PInv
  OBVIOUS
<1>1. \A i \in Number : Contents(i) = {}
  BY DEF Init, Contents, Number
<1>2. \A t \in Thread : flushed[t] = {}
  BY DEF Init
<1>3. PlaceInv /\ StaticInv
  BY <1>1, <1>2 DEF Init, PlaceInv, StaticInv
<1>4. CoverInv
  BY <1>1, <1>2, ThreadCachesAssumption DEF Init, CoverInv, Somewhere
<1>. QED
  BY <1>3, <1>4 DEF PInv

\* A call that moves blocks between the program, the arenas and one cache.
LEMMA Moves ==
    ASSUME IInv, PInv, NEW flag \in {Null} \cup Number, NEW content \in SUBSET Block,
           flag = Null => content = {},
           flag # Null => \A b \in content : KindOf[b] \in StaticKind,
           Store(flag, content), UNCHANGED <<live, flushed>>,
           held' \cap arena' = {}, content \cap (held' \cup arena') = {},
           held' \cup arena' \cup content = held \cup arena \cup Contents(flag)
    PROVE  PInv'
<1>n. content # Null /\ Null \notin Number
  BY ThreadCachesAssumption, SMT DEF Number
<1>1. \A i \in Number : tcaches'[i] = IF i = flag THEN content ELSE tcaches[i]
  BY <1>n DEF Store, IInv, TypeInv
<1>2. \A i \in Number : Contents(i)' = IF i = flag THEN content ELSE Contents(i)
  BY <1>1, <1>n DEF Contents
<1>3. flag = Null => Contents(flag) = {}
  BY DEF Contents
<1>p. PlaceInv /\ StaticInv /\ CoverInv
  BY DEF PInv
<1>4. PlaceInv'
  <2>1. \A i \in Number : Contents(i)' \cap (held' \cup arena') = {}
    BY <1>p, <1>2, <1>3, SMTT(30) DEF PlaceInv
  <2>2. \A i, j \in Number : i # j => Contents(i)' \cap Contents(j)' = {}
    BY <1>p, <1>2, <1>3, SMT DEF PlaceInv
  <2>3. \A t \in Thread : flushed[t] \cap (held' \cup arena' \cup content) = {}
    BY <1>p, <1>3 DEF PlaceInv
  <2>4. \A t \in Thread, i \in Number : flushed[t] \cap Contents(i)' = {}
    BY <1>p, <1>2, <2>3 DEF PlaceInv
  <2>. QED
    BY <1>p, <2>1, <2>2, <2>3, <2>4 DEF PlaceInv
<1>5. StaticInv'
  BY <1>p, <1>n, <1>2 DEF StaticInv
<1>6. \A b \in Block : Somewhere(b)' <=> Somewhere(b)
  BY <1>2, <1>3 DEF Somewhere
<1>7. CoverInv'
  BY <1>p, <1>6 DEF CoverInv
<1>. QED
  BY <1>4, <1>5, <1>7 DEF PInv

\* What a flag is, and what is under it.
LEMMA FlagParts ==
    ASSUME IInv, PInv, NEW t \in Thread, NEW k \in Kind, NEW small \in BOOLEAN,
           NEW flag \in Flags(t, k, small)
    PROVE  /\ flag \in {Null} \cup Number
           /\ flag # Null => k \in StaticKind
           /\ flag = Null => Contents(flag) = {}
           /\ Contents(flag) \cap (held \cup arena) = {}
<1>1. flag = Null \/ (Cached(k, small) /\ flag \in Number)
  BY FlagCases
<1>. QED
  BY <1>1 DEF Cached, Contents, PInv, PlaceInv

\* jemalloc takes the block, and what it puts in the cache, from cache and arena.
LEMMA AllocationParts ==
    ASSUME NEW k, NEW flag, NEW new \in Allocations(k, flag), flag = Null => Contents(flag) = {}
    PROVE  /\ new.block \notin new.left
           /\ new.left \cup {new.block} \subseteq Contents(flag) \cup arena
           /\ Contents(flag) \subseteq new.left \cup {new.block}
           /\ flag = Null => new.left = {}
<1>1. CASE Contents(flag) # {}
  <2>1. PICK b \in Contents(flag) : new = [block |-> b, left |-> Contents(flag) \ {b}]
    BY <1>1 DEF Allocations
  <2>. QED
    BY <1>1, <2>1
<1>2. CASE Contents(flag) = {}
  <2>1. PICK fill \in (IF flag = Null THEN {{}} ELSE SUBSET Available(k)) :
          \E b \in Available(k) \ fill : new = [block |-> b, left |-> fill]
    BY <1>2 DEF Allocations
  <2>2. PICK b \in Available(k) \ fill : new = [block |-> b, left |-> fill]
    BY <2>1
  <2>3. fill \subseteq arena /\ b \in arena /\ (flag = Null => fill = {})
    BY <2>1, <2>2 DEF Available
  <2>. QED
    BY <1>2, <2>2, <2>3
<1>. QED
  BY <1>1, <1>2

\* An allocation fails only when the cache is empty.
LEMMA NoAllocation ==
    ASSUME NEW k, NEW flag, Allocations(k, flag) = {}
    PROVE  Contents(flag) = {}
<1>1. SUFFICES ASSUME NEW b \in Contents(flag) PROVE FALSE
  OBVIOUS
<1>2. [block |-> b, left |-> Contents(flag) \ {b}] \in Allocations(k, flag)
  BY <1>1 DEF Allocations
<1>. QED
  BY <1>2

LEMMA MallocMoves ==
    ASSUME IInv, PInv, NEW t \in Thread, NEW k \in Kind, NEW small \in BOOLEAN,
           ArenaMalloc(t, k, small)
    PROVE  PInv'
<1>1. PICK flag \in Flags(t, k, small) :
        \/ \E new \in Allocations(k, flag) :
             /\ Store(flag, new.left)
             /\ arena' = arena \ (new.left \cup {new.block})
             /\ held' = held \cup {new.block}
        \/ Allocations(k, flag) = {} /\ Store(flag, {}) /\ UNCHANGED <<arena, held>>
  BY DEF ArenaMalloc
<1>2. UNCHANGED <<live, flushed>> /\ held \cap arena = {}
  BY DEF ArenaMalloc, exits, PInv, PlaceInv
<1>3. /\ flag \in {Null} \cup Number
      /\ flag # Null => k \in StaticKind
      /\ flag = Null => Contents(flag) = {}
      /\ Contents(flag) \cap (held \cup arena) = {}
  BY FlagParts
<1>4. ASSUME NEW new \in Allocations(k, flag), Store(flag, new.left),
             arena' = arena \ (new.left \cup {new.block}), held' = held \cup {new.block}
      PROVE  PInv'
  <2>1. new.left \in SUBSET Block /\ \A b \in new.left : KindOf[b] = k
    BY AllocationsOfKind
  <2>2. /\ new.block \notin new.left
        /\ new.left \cup {new.block} \subseteq Contents(flag) \cup arena
        /\ Contents(flag) \subseteq new.left \cup {new.block}
        /\ flag = Null => new.left = {}
    BY <1>3, AllocationParts
  <2>3. /\ held' \cap arena' = {} /\ new.left \cap (held' \cup arena') = {}
        /\ held' \cup arena' \cup new.left = held \cup arena \cup Contents(flag)
    BY <1>2, <1>3, <1>4, <2>2
  <2>4. flag # Null => \A b \in new.left : KindOf[b] \in StaticKind
    BY <1>3, <2>1
  <2>. QED
    BY <1>2, <1>3, <1>4, <2>1, <2>2, <2>3, <2>4, Moves
<1>5. CASE Allocations(k, flag) = {} /\ Store(flag, {}) /\ UNCHANGED <<arena, held>>
  <2>1. Contents(flag) = {}
    BY <1>5, NoAllocation
  <2>. QED
    BY <1>2, <1>3, <1>5, <2>1, Moves
<1>. QED
  BY <1>1, <1>4, <1>5

LEMMA FreeMoves ==
    ASSUME IInv, PInv, NEW t \in Thread, NEW b \in Block, ArenaFree(t, b)
    PROVE  PInv'
<1>k. KindOf[b] \in Kind /\ DetectKind(b) = KindOf[b]
  BY ThreadCachesAssumption DEF Kind, DetectKind
<1> DEFINE k == KindOf[b]
<1>1. PICK flag \in Flags(t, k, TRUE) :
        \/ flag = Null /\ arena' = arena \cup {b} /\ UNCHANGED tcaches
        \/ /\ flag # Null
           /\ \E back \in SUBSET Contents(flag) :
                /\ Store(flag, (Contents(flag) \cup {b}) \ back)
                /\ arena' = arena \cup back
  BY <1>k DEF ArenaFree
<1>2. UNCHANGED <<live, flushed>> /\ held \cap arena = {} /\ b \in held /\ held' = held \ {b}
  BY DEF ArenaFree, exits, PInv, PlaceInv
<1>3. /\ flag \in {Null} \cup Number
      /\ flag # Null => k \in StaticKind
      /\ flag = Null => Contents(flag) = {}
      /\ Contents(flag) \cap (held \cup arena) = {}
  BY <1>k, FlagParts
<1>4. Contents(flag) \subseteq Block /\ \A c \in Contents(flag) : KindOf[c] = k
  BY <1>k, ContentsOfKind
<1>5. CASE flag = Null /\ arena' = arena \cup {b} /\ UNCHANGED tcaches
  <2>1. Store(flag, {})
    BY <1>5 DEF Store
  <2>2. held' \cap arena' = {} /\ held' \cup arena' = held \cup arena
    BY <1>2, <1>5
  <2>. QED
    BY <1>2, <1>3, <1>5, <2>1, <2>2, Moves
<1>6. ASSUME flag # Null, NEW back \in SUBSET Contents(flag),
             Store(flag, (Contents(flag) \cup {b}) \ back), arena' = arena \cup back
      PROVE  PInv'
  <2> DEFINE content == (Contents(flag) \cup {b}) \ back
  <2>1. /\ content \in SUBSET Block /\ Store(flag, content)
        /\ \A c \in content : KindOf[c] \in StaticKind
    BY <1>3, <1>4, <1>6
  <2>2. /\ held' \cap arena' = {} /\ content \cap (held' \cup arena') = {}
        /\ held' \cup arena' \cup content = held \cup arena \cup Contents(flag)
    BY <1>2, <1>3, <1>6
  <2> HIDE DEF content
  <2>. QED
    BY <1>2, <1>3, <1>6, <2>1, <2>2, Moves
<1>. QED
  BY <1>1, <1>5, <1>6

LEMMA ReallocMoves ==
    ASSUME IInv, PInv, NEW t \in Thread, NEW b \in Block, NEW small \in BOOLEAN,
           ArenaRealloc(t, b, small)
    PROVE  PInv'
<1> DEFINE k == KindOf[b]
<1>1. PICK flag \in Flags(t, k, small) :
        \/ \E new \in Allocations(k, flag) :
             /\ Store(flag, new.left \cup {b})
             /\ held' = (held \ {b}) \cup {new.block}
             /\ arena' = (arena \ (new.left \cup {new.block}))
                         \cup (IF flag = Null THEN {b} ELSE {})
        \/ Allocations(k, flag) = {} /\ Store(flag, {}) /\ UNCHANGED <<arena, held>>
  BY DEF ArenaRealloc
<1>2. UNCHANGED <<live, flushed>> /\ held \cap arena = {} /\ b \in held
  BY DEF ArenaRealloc, exits, PInv, PlaceInv
<1>k. k \in Kind
  BY ThreadCachesAssumption DEF Kind
<1>3. /\ flag \in {Null} \cup Number
      /\ flag # Null => k \in StaticKind
      /\ flag = Null => Contents(flag) = {}
      /\ Contents(flag) \cap (held \cup arena) = {}
  BY <1>k, FlagParts
<1>4. ASSUME NEW new \in Allocations(k, flag), Store(flag, new.left \cup {b}),
             held' = (held \ {b}) \cup {new.block},
             arena' = (arena \ (new.left \cup {new.block})) \cup (IF flag = Null THEN {b} ELSE {})
      PROVE  PInv'
  <2>1. new.left \in SUBSET Block /\ \A c \in new.left : KindOf[c] = k
    BY <1>k, <1>4, AllocationsOfKind
  <2>2. /\ new.block \notin new.left
        /\ new.left \cup {new.block} \subseteq Contents(flag) \cup arena
        /\ Contents(flag) \subseteq new.left \cup {new.block}
        /\ flag = Null => new.left = {}
    BY <1>3, AllocationParts
  <2> DEFINE content == IF flag = Null THEN {} ELSE new.left \cup {b}
  <2>3. /\ content \in SUBSET Block /\ Store(flag, content) /\ (flag = Null => content = {})
        /\ flag # Null => \A c \in content : KindOf[c] \in StaticKind
    BY <1>3, <1>4, <2>1 DEF Store
  <2>4. /\ held' \cap arena' = {} /\ content \cap (held' \cup arena') = {}
        /\ held' \cup arena' \cup content = held \cup arena \cup Contents(flag)
    <3>1. CASE flag = Null
      BY <1>2, <1>3, <1>4, <2>2, <3>1
    <3>2. CASE flag # Null
      BY <1>2, <1>3, <1>4, <2>2, <3>2
    <3>. QED
      BY <3>1, <3>2
  <2> HIDE DEF content
  <2>. QED
    BY <1>2, <1>3, <2>3, <2>4, Moves
<1>5. CASE Allocations(k, flag) = {} /\ Store(flag, {}) /\ UNCHANGED <<arena, held>>
  <2>1. Contents(flag) = {}
    BY <1>5, NoAllocation
  <2>. QED
    BY <1>2, <1>3, <1>5, <2>1, Moves
<1>. QED
  BY <1>1, <1>4, <1>5

LEMMA DefragMoves ==
    ASSUME IInv, PInv, NEW t \in Thread, NEW b \in Block, Defrag(t, b)
    PROVE  PInv'
<1>1. /\ \E n \in arena : held' = (held \ {b}) \cup {n} /\ arena' = (arena \ {n}) \cup {b}
      /\ b \in held /\ held \cap arena = {} /\ UNCHANGED <<tcaches, live, flushed>>
  BY DEF Defrag, table, exits, Available, PInv, PlaceInv
<1>2. held' \cap arena' = {} /\ held' \cup arena' = held \cup arena
  BY <1>1
<1>3. Store(Null, {}) /\ Contents(Null) = {}
  BY <1>1 DEF Store, Contents
<1>. QED
  BY <1>1, <1>2, <1>3, Moves

\* The blocks of a kind that is destroyed disappear from the arenas, and were nowhere else.
LEMMA DestroyMoves ==
    ASSUME IInv, PInv, NEW k \in DynamicKind, Destroy(k)
    PROVE  PInv'
<1>p. PlaceInv /\ StaticInv /\ CoverInv
  BY DEF PInv
<1>1. /\ live' = live \ {k} /\ arena' = {b \in arena : KindOf[b] # k} /\ k \notin StaticKind
      /\ \A b \in held : KindOf[b] # k
      /\ held' = held /\ tcaches' = tcaches /\ flushed' = flushed
  BY ThreadCachesAssumption DEF Destroy, table, exits
<1>2. \A i \in Number : Contents(i)' = Contents(i)
  BY <1>1 DEF Contents
<1>3. PlaceInv' /\ StaticInv'
  BY <1>p, <1>1, <1>2 DEF PlaceInv, StaticInv
<1>4. \A b \in Block : Somewhere(b)' <=> Somewhere(b) /\ KindOf[b] # k
  BY <1>p, <1>1, <1>2 DEF Somewhere, StaticInv
<1>5. CoverInv'
  BY <1>p, <1>1, <1>4 DEF CoverInv
<1>. QED
  BY <1>3, <1>5 DEF PInv

\* The blocks of a cache that is destroyed are with the thread that destroys it ...
LEMMA CacheMoves ==
    ASSUME IInv, PInv, NEW t \in Thread, TcacheDestroy(t)
    PROVE  PInv'
<1>p. PlaceInv /\ StaticInv /\ CoverInv
  BY DEF PInv
<1>1. PICK i \in doomed[t] :
        /\ flushed' = [flushed EXCEPT ![t] = Contents(i)]
        /\ tcaches' = [tcaches EXCEPT ![i] = Null]
  BY DEF TcacheDestroy
<1>2. UNCHANGED <<arena, held, live>> /\ flushed[t] = {} /\ i \in Number
  BY DEF TcacheDestroy, blocks, IInv, TypeInv
<1>3. \A j \in Number : Contents(j)' = IF j = i THEN {} ELSE Contents(j)
  <2>1. \A j \in Number : tcaches'[j] = IF j = i THEN Null ELSE tcaches[j]
    BY <1>1 DEF IInv, TypeInv
  <2>. QED
    BY <2>1 DEF Contents
<1>4. \A u \in Thread : flushed'[u] = IF u = t THEN Contents(i) ELSE flushed[u]
  BY <1>1 DEF IInv, TypeInv
<1>5. PlaceInv'
  <2>1. held' \cap arena' = {} /\ \A j \in Number : Contents(j)' \cap (held' \cup arena') = {}
    BY <1>p, <1>2, <1>3, <1>4 DEF PlaceInv
  <2>2. \A j, l \in Number : j # l => Contents(j)' \cap Contents(l)' = {}
    BY <1>p, <1>2, <1>3, <1>4 DEF PlaceInv
  <2>3. \A u \in Thread : flushed'[u] \cap (held' \cup arena') = {}
    BY <1>p, <1>2, <1>3, <1>4 DEF PlaceInv
  <2>4. \A u \in Thread, j \in Number : flushed'[u] \cap Contents(j)' = {}
    BY <1>p, <1>2, <1>3, <1>4 DEF PlaceInv
  <2>5. \A u, v \in Thread : u # v => flushed'[u] \cap flushed'[v] = {}
    BY <1>p, <1>2, <1>3, <1>4, SMT DEF PlaceInv
  <2>. QED
    BY <2>1, <2>2, <2>3, <2>4, <2>5 DEF PlaceInv
<1>8. StaticInv'
  BY <1>p, <1>2, <1>3, <1>4 DEF StaticInv
<1>6. \A b \in Block : Somewhere(b)' <=> Somewhere(b)
  BY <1>2, <1>3, <1>4 DEF Somewhere
<1>7. CoverInv'
  BY <1>p, <1>2, <1>6 DEF CoverInv
<1>. QED
  BY <1>5, <1>7, <1>8 DEF PInv

\* ... until it gives them back.
LEMMA FlushMoves ==
    ASSUME IInv, PInv, NEW t \in Thread, TcacheFlush(t)
    PROVE  PInv'
<1>p. PlaceInv /\ StaticInv /\ CoverInv
  BY DEF PInv
<1>1. /\ arena' = arena \cup flushed[t] /\ flushed' = [flushed EXCEPT ![t] = {}]
      /\ held' = held /\ live' = live /\ tcaches' = tcaches
  BY DEF TcacheFlush, table
<1>2. \A u \in Thread : flushed'[u] = IF u = t THEN {} ELSE flushed[u]
  BY <1>1 DEF IInv, TypeInv
<1>3. \A i \in Number : Contents(i)' = Contents(i)
  BY <1>1 DEF Contents
<1>4. PlaceInv'
  <2>1. held' \cap arena' = {} /\ \A j \in Number : Contents(j)' \cap (held' \cup arena') = {}
    BY <1>p, <1>1, <1>2, <1>3, SMT DEF PlaceInv
  <2>2. \A j, l \in Number : j # l => Contents(j)' \cap Contents(l)' = {}
    BY <1>p, <1>1, <1>2, <1>3 DEF PlaceInv
  <2>3. \A u \in Thread : flushed'[u] \cap (held' \cup arena') = {}
    BY <1>p, <1>1, <1>2, <1>3, SMTT(30) DEF PlaceInv
  <2>4. \A u \in Thread, j \in Number : flushed'[u] \cap Contents(j)' = {}
    BY <1>p, <1>1, <1>2, <1>3, SMT DEF PlaceInv
  <2>5. \A u, v \in Thread : u # v => flushed'[u] \cap flushed'[v] = {}
    BY <1>p, <1>1, <1>2, <1>3, SMTT(30) DEF PlaceInv
  <2>. QED
    BY <2>1, <2>2, <2>3, <2>4, <2>5 DEF PlaceInv
<1>7. StaticInv'
  BY <1>p, <1>2, <1>3 DEF StaticInv
<1>5. \A b \in Block : Somewhere(b)' <=> Somewhere(b)
  BY <1>1, <1>2, <1>3, SMT DEF Somewhere
<1>6. CoverInv'
  BY <1>p, <1>1, <1>5 DEF CoverInv
<1>. QED
  BY <1>4, <1>6, <1>7 DEF PInv

\* Steps that move nothing.
LEMMA PlacesFrame ==
    ASSUME PInv, UNCHANGED <<tcaches, arena, held, live, flushed>>
    PROVE  PInv'
<1>1. \A i \in Number : Contents(i)' = Contents(i)
  BY DEF Contents
<1>2. PlaceInv' /\ StaticInv'
  BY <1>1 DEF PInv, PlaceInv, StaticInv
<1>3. \A b \in Block : Somewhere(b)' <=> Somewhere(b)
  BY <1>1 DEF Somewhere
<1>4. CoverInv'
  BY <1>3 DEF PInv, CoverInv
<1>. QED
  BY <1>2, <1>4 DEF PInv

LEMMA StepKeepsPlaces == IInv /\ PInv /\ [Next]_vars => PInv'
<1>. SUFFICES ASSUME IInv, PInv, [Next]_vars PROVE PInv'
  OBVIOUS
<1>1. ASSUME NEW t \in Thread, Calls(t) PROVE PInv'
  BY <1>1, MallocMoves, FreeMoves, ReallocMoves, DefragMoves DEF Calls
<1>2. ASSUME NEW t \in Thread, Exit(t) PROVE PInv'
  BY <1>2, PlacesFrame DEF Exit, table, blocks
<1>3. ASSUME NEW t \in Thread, Finishing(t) PROVE PInv'
  <2>1. CASE FinalizeBegin(t)
    BY <2>1, PlacesFrame DEF FinalizeBegin, blocks
  <2>2. CASE FinalizeEnd(t)
    BY <2>2, PlacesFrame DEF FinalizeEnd, table, blocks
  <2>3. CASE FinalizeSkip(t)
    BY <2>3, PlacesFrame DEF FinalizeSkip, table, blocks
  <2>4. CASE EndRound(t)
    BY <2>4, PlacesFrame DEF EndRound, table, blocks
  <2>. QED
    BY <1>3, <2>1, <2>2, <2>3, <2>4, CacheMoves, FlushMoves DEF Finishing
<1>4. ASSUME NEW k \in DynamicKind, Destroy(k) PROVE PInv'
  BY <1>4, DestroyMoves
<1>5. CASE UNCHANGED vars
  BY <1>5, PlacesFrame DEF vars, table, blocks, exits
<1>. QED
  BY <1>1, <1>2, <1>3, <1>4, <1>5 DEF Next

(***************************************************************************)
(* OnePlace: a block of a kind that exists is with the program, in one     *)
(* cache, in the hands of one exiting thread or free in its arena, and in  *)
(* no two of these, whatever the threads do and however numbers of caches  *)
(* are recycled; blocks of a destroyed kind are nowhere.                   *)
(***************************************************************************)
THEOREM OnePlaceHolds == Spec => []OnePlace
<1>1. ASSUME IInv, PInv PROVE OnePlace
  <2>1. SUFFICES ASSUME NEW b \in Block
                 PROVE  Cardinality(Places(b)) = (IF KindOf[b] \in StaticKind \cup live THEN 1 ELSE 0)
    BY DEF OnePlace
  <2>p. PlaceInv /\ (KindOf[b] \in StaticKind \cup live <=> Somewhere(b))
    BY <1>1 DEF PInv, CoverInv
  <2>2. \A p : p \in Places(b) <=>
          \/ p = "held" /\ b \in held
          \/ p = "arena" /\ b \in arena
          \/ \E i \in Number : p = <<"cache", i>> /\ b \in Contents(i)
          \/ \E t \in Thread : p = <<"flush", t>> /\ b \in flushed[t]
    <3>1. DOMAIN tcaches = Number
      BY <1>1 DEF IInv, TypeInv
    <3>2. \A i \in Number : (i \in Live /\ b \in tcaches[i]) <=> b \in Contents(i)
      BY <3>1, Limits, SMTT(30) DEF Live, Contents, Number
    <3>. QED
      BY <3>1, <3>2 DEF Places, Live
  <2>3. Somewhere(b) <=> Places(b) # {}
    BY <2>2 DEF Somewhere
  <2>4. \A p, q \in Places(b) : p = q
    BY <2>p, <2>2, SMTT(30) DEF PlaceInv
  <2>5. CASE Places(b) = {}
    BY <2>p, <2>3, <2>5, FS_EmptySet
  <2>6. CASE Places(b) # {}
    <3>1. PICK p \in Places(b) : TRUE
      BY <2>6
    <3>2. Places(b) = {p}
      BY <2>4, <3>1
    <3>3. Cardinality({p}) = 1
      BY FS_Singleton
    <3>. QED
      BY <2>p, <2>3, <2>6, <3>2, <3>3
  <2>. QED
    BY <2>5, <2>6
<1>. QED
  BY <1>1, NumbersHold, InitPlaces, StepKeepsPlaces, PTL DEF Spec

-----------------------------------------------------------------------------
(* The exit of threads.                                                    *)

RestInv ==
    /\ live \subseteq DynamicKind
    /\ phase \in [Thread -> {"running", "exiting", "finalizing", "gone"}]
    /\ round \in [Thread -> [n : 1 .. MaxRounds, ran : BOOLEAN]]

\* Only tcache_finalize has numbers to destroy, and a map is left only by the last round.
PhaseInv ==
    \A t \in Thread :
        /\ phase[t] # "finalizing" => doomed[t] = {} /\ flushed[t] = {}
        /\ phase[t] = "gone" /\ tcache_map[t] # Null => round[t] = [n |-> MaxRounds, ran |-> TRUE]

\* A cache, but for number 0, is known to a thread.
OwnedInv ==
    \A i \in Number \ {0} : tcaches[i] # Null =>
        \E t \in Thread : i \in doomed[t] \/ \E k \in Kind : MapOf(t)[k] = i

EInv == RestInv /\ PhaseInv /\ OwnedInv

LEMMA InitExits == Init => EInv
<1>1. Init => RestInv
  BY Limits, SMT DEF Init, RestInv
<1>2. Init => PhaseInv /\ OwnedInv
  BY DEF Init, PhaseInv, OwnedInv, Number
<1>. QED
  BY <1>1, <1>2 DEF EInv

\* A call of a thread that is not gone creates caches only under its flag.
LEMMA CallOwned ==
    ASSUME IInv, EInv, NEW t \in Thread, NEW k \in Kind, NEW small \in BOOLEAN,
           NEW flag \in Flags(t, k, small), GetTcacheFlag(t, k, small, flag), MayCall(t),
           NEW content, Store(flag, content), UNCHANGED <<live, exits>>
    PROVE  EInv'
<1>1. RestInv'
  BY DEF EInv, RestInv, exits
<1>2. phase[t] # "gone" /\ UNCHANGED <<phase, round, doomed, flushed>>
  BY DEF MayCall, exits
<1>3. \A u \in Thread \ {t} : tcache_map'[u] = tcache_map[u]
  BY DEF GetTcacheFlag, Create, IInv, TypeInv
<1>4. PhaseInv'
  BY <1>2, <1>3 DEF EInv, PhaseInv
<1>5. \A u \in Thread, l \in Kind :
        MapOf(u)'[l] = IF u = t /\ l = k /\ flag # Null THEN flag ELSE MapOf(u)[l]
  BY MapAfterFlag
<1>6. \A i \in Number : tcaches'[i] = tcaches[i] \/ (flag # Null /\ i = flag)
  BY DEF Store, IInv, TypeInv
<1>7. flag # Null => MapOf(t)[k] \in {0, flag}
  BY FlagCases
<1>8. OwnedInv'
  <2>1. SUFFICES ASSUME NEW i \in Number \ {0}, tcaches'[i] # Null
                 PROVE  \E u \in Thread : i \in doomed'[u] \/ \E l \in Kind : MapOf(u)'[l] = i
    BY DEF OwnedInv
  <2>2. CASE flag # Null /\ i = flag
    BY <1>5, <2>2
  <2>3. CASE tcaches'[i] = tcaches[i]
    <3>1. PICK u \in Thread : i \in doomed[u] \/ \E l \in Kind : MapOf(u)[l] = i
      BY <2>1, <2>3 DEF EInv, OwnedInv
    <3>2. \A l \in Kind : MapOf(u)[l] = i => MapOf(u)'[l] = i
      BY <1>5, <1>7
    <3>. QED
      BY <1>2, <3>1, <3>2
  <2>. QED
    BY <1>6, <2>1, <2>2, <2>3
<1>. QED
  BY <1>1, <1>4, <1>8 DEF EInv

\* Steps that leave the numbers and the exits alone.
LEMMA ExitsFrame ==
    ASSUME EInv, UNCHANGED <<table, exits>>, live' \subseteq live
    PROVE  EInv'
<1>1. UNCHANGED <<tcache_map, tcaches, phase, round, doomed, flushed>>
  BY DEF table, exits
<1>2. RestInv'
  BY <1>1 DEF EInv, RestInv
<1>3. PhaseInv'
  BY <1>1 DEF EInv, PhaseInv
<1>4. OwnedInv'
  BY <1>1 DEF EInv, OwnedInv, MapOf
<1>. QED
  BY <1>2, <1>3, <1>4 DEF EInv

LEMMA CallsOwned ==
    ASSUME IInv, EInv, NEW t \in Thread, Calls(t)
    PROVE  EInv'
<1>k. KindOf \in [Block -> Kind]
  BY ThreadCachesAssumption DEF Kind
<1>1. ASSUME NEW k \in Kind, NEW small \in BOOLEAN, ArenaMalloc(t, k, small) PROVE EInv'
  <2>1. PICK flag \in Flags(t, k, small) :
          /\ GetTcacheFlag(t, k, small, flag)
          /\ \E content : Store(flag, content)
    BY <1>1 DEF ArenaMalloc
  <2>2. PICK content : Store(flag, content)
    BY <2>1
  <2>3. MayCall(t) /\ UNCHANGED <<live, exits>>
    BY <1>1 DEF ArenaMalloc
  <2>. QED
    BY <2>1, <2>2, <2>3, CallOwned
<1>2. ASSUME NEW b \in Block, ArenaFree(t, b) PROVE EInv'
  <2>1. DetectKind(b) \in Kind
    BY <1>k DEF DetectKind
  <2>2. PICK flag \in Flags(t, DetectKind(b), TRUE) :
          /\ GetTcacheFlag(t, DetectKind(b), TRUE, flag)
          /\ \E content : Store(flag, content)
    <3>1. \A flag : flag = Null /\ UNCHANGED tcaches => Store(flag, {})
      BY DEF Store
    <3>. QED
      BY <1>2, <3>1 DEF ArenaFree
  <2>3. PICK content : Store(flag, content)
    BY <2>2
  <2>4. MayCall(t) /\ UNCHANGED <<live, exits>>
    BY <1>2 DEF ArenaFree
  <2>. QED
    BY <2>1, <2>2, <2>3, <2>4, CallOwned
<1>3. ASSUME NEW b \in Block, NEW small \in BOOLEAN, ArenaRealloc(t, b, small) PROVE EInv'
  <2>1. KindOf[b] \in Kind
    BY <1>k
  <2>2. PICK flag \in Flags(t, KindOf[b], small) :
          /\ GetTcacheFlag(t, KindOf[b], small, flag)
          /\ \E content : Store(flag, content)
    BY <1>3 DEF ArenaRealloc
  <2>3. PICK content : Store(flag, content)
    BY <2>2
  <2>4. MayCall(t) /\ UNCHANGED <<live, exits>>
    BY <1>3 DEF ArenaRealloc
  <2>. QED
    BY <2>1, <2>2, <2>3, <2>4, CallOwned
<1>4. ASSUME NEW b \in Block, Defrag(t, b) PROVE EInv'
  BY <1>4, ExitsFrame DEF Defrag
<1>. QED
  BY <1>1, <1>2, <1>3, <1>4 DEF Calls

\* tcache_finalize takes over the numbers of the map it is called with.
LEMMA FinalizeOwned ==
    ASSUME IInv, EInv, NEW t \in Thread, FinalizeBegin(t)
    PROVE  EInv'
<1>t. /\ tcache_map \in [Thread -> {Null} \cup [Kind -> Number]]
      /\ doomed \in [Thread -> SUBSET Number]
      /\ phase \in [Thread -> {"running", "exiting", "finalizing", "gone"}]
  BY DEF IInv, TypeInv, EInv, RestInv
<1>1. RestInv'
  BY DEF EInv, RestInv, FinalizeBegin, blocks
<1>2. doomed[t] = {}
  BY DEF EInv, PhaseInv, FinalizeBegin
<1>3. PhaseInv'
  BY <1>t DEF EInv, PhaseInv, FinalizeBegin, KeyCleared
<1>4. OwnedInv'
  <2>1. SUFFICES ASSUME NEW i \in Number \ {0}, tcaches[i] # Null
                 PROVE  \E u \in Thread : i \in doomed'[u] \/ \E l \in Kind : MapOf(u)'[l] = i
    BY DEF OwnedInv, FinalizeBegin
  <2>2. PICK u \in Thread : i \in doomed[u] \/ \E l \in Kind : MapOf(u)[l] = i
    BY <2>1 DEF EInv, OwnedInv
  <2>3. CASE u = t
    <3>1. PICK l \in Kind : MapOf(t)[l] = i
      BY <1>2, <2>2, <2>3
    <3>2. i \in Doomed(t)
      BY <3>1 DEF Doomed, MapOf, FinalizeBegin
    <3>. QED
      BY <1>t, <3>2 DEF FinalizeBegin
  <2>4. CASE u # t
    <3>1. doomed'[u] = doomed[u] /\ tcache_map'[u] = tcache_map[u]
      BY <1>t, <2>4 DEF FinalizeBegin, KeyCleared
    <3>2. MapOf(u)' = MapOf(u)
      BY <3>1 DEF MapOf
    <3>. QED
      BY <2>2, <3>1, <3>2
  <2>. QED
    BY <2>3, <2>4
<1>. QED
  BY <1>1, <1>3, <1>4 DEF EInv

\* "tcache.destroy" leaves no cache under the number it takes from the destructor.
LEMMA DestroyOwned ==
    ASSUME IInv, EInv, NEW t \in Thread, TcacheDestroy(t)
    PROVE  EInv'
<1>t. /\ tcaches \in [Number -> {Null} \cup SUBSET Block]
      /\ doomed \in [Thread -> SUBSET Number]
      /\ flushed \in [Thread -> SUBSET Block]
  BY DEF IInv, TypeInv
<1>1. PICK i \in doomed[t] :
        /\ flushed' = [flushed EXCEPT ![t] = Contents(i)]
        /\ tcaches' = [tcaches EXCEPT ![i] = Null]
        /\ doomed' = [doomed EXCEPT ![t] = @ \ {i}]
  BY DEF TcacheDestroy
<1>2. UNCHANGED <<tcache_map, phase, round, live>> /\ phase[t] = "finalizing"
  BY DEF TcacheDestroy, blocks
<1>3. RestInv'
  BY <1>2 DEF EInv, RestInv
<1>4. PhaseInv'
  BY <1>t, <1>1, <1>2 DEF EInv, PhaseInv
<1>5. OwnedInv'
  <2>1. SUFFICES ASSUME NEW j \in Number \ {0}, tcaches'[j] # Null
                 PROVE  \E u \in Thread : j \in doomed'[u] \/ \E l \in Kind : MapOf(u)'[l] = j
    BY DEF OwnedInv
  <2>2. j # i /\ tcaches[j] # Null
    BY <1>t, <1>1, <2>1
  <2>3. PICK u \in Thread : j \in doomed[u] \/ \E l \in Kind : MapOf(u)[l] = j
    BY <2>2 DEF EInv, OwnedInv
  <2>4. j \in doomed[u] => j \in doomed'[u]
    BY <1>t, <1>1, <2>2
  <2>5. MapOf(u)' = MapOf(u)
    BY <1>2 DEF MapOf
  <2>. QED
    BY <2>3, <2>4, <2>5
<1>. QED
  BY <1>3, <1>4, <1>5 DEF EInv

LEMMA StepKeepsExits == IInv /\ EInv /\ [Next]_vars => EInv'
<1>. SUFFICES ASSUME IInv, EInv, [Next]_vars PROVE EInv'
  OBVIOUS
<1>t. /\ phase \in [Thread -> {"running", "exiting", "finalizing", "gone"}]
      /\ round \in [Thread -> [n : 1 .. MaxRounds, ran : BOOLEAN]]
      /\ flushed \in [Thread -> SUBSET Block]
  BY DEF IInv, TypeInv, EInv, RestInv
<1>o. ASSUME UNCHANGED <<table, doomed>> PROVE OwnedInv'
  BY <1>o DEF EInv, OwnedInv, MapOf, table
<1>1. ASSUME NEW t \in Thread, Exit(t) PROVE EInv'
  <2>1. RestInv'
    BY <1>t, <1>1 DEF Exit, EInv, RestInv, blocks
  <2>2. PhaseInv'
    BY <1>t, <1>1 DEF Exit, EInv, PhaseInv, table
  <2>. QED
    BY <1>1, <1>o, <2>1, <2>2 DEF Exit, EInv
<1>2. ASSUME NEW t \in Thread, TcacheFlush(t) PROVE EInv'
  <2>1. RestInv'
    BY <1>2 DEF TcacheFlush, EInv, RestInv
  <2>2. PhaseInv'
    BY <1>t, <1>2 DEF TcacheFlush, EInv, PhaseInv, table
  <2>. QED
    BY <1>2, <1>o, <2>1, <2>2 DEF TcacheFlush, EInv
<1>3. ASSUME NEW t \in Thread, FinalizeEnd(t) PROVE EInv'
  <2>1. RestInv'
    BY <1>t, <1>3 DEF FinalizeEnd, EInv, RestInv, blocks
  <2>2. PhaseInv'
    BY <1>t, <1>3 DEF FinalizeEnd, EInv, PhaseInv, table
  <2>. QED
    BY <1>3, <1>o, <2>1, <2>2 DEF FinalizeEnd, EInv
<1>4. ASSUME NEW t \in Thread, FinalizeSkip(t) PROVE EInv'
  <2>1. RestInv'
    BY <1>t, <1>4 DEF FinalizeSkip, EInv, RestInv, blocks
  <2>2. PhaseInv'
    BY <1>t, <1>4 DEF FinalizeSkip, EInv, PhaseInv, table
  <2>. QED
    BY <1>4, <1>o, <2>1, <2>2 DEF FinalizeSkip, EInv
<1>5. ASSUME NEW t \in Thread, EndRound(t) PROVE EInv'
  <2>1. RestInv'
    <3>1. live' = live /\ live \subseteq DynamicKind
      BY <1>5 DEF EndRound, blocks, EInv, RestInv
    <3>2. phase' \in [Thread -> {"running", "exiting", "finalizing", "gone"}]
      BY <1>t, <1>5 DEF EndRound
    <3>3. round[t].n \in 1 .. MaxRounds
      BY <1>t
    <3>4. CASE round[t].n < MaxRounds
               /\ round' = [round EXCEPT ![t] = [n |-> @.n + 1, ran |-> FALSE]]
      <4>1. [n |-> round[t].n + 1, ran |-> FALSE] \in [n : 1 .. MaxRounds, ran : BOOLEAN]
        BY <3>3, <3>4, Limits, SMT
      <4>. QED
        BY <1>t, <3>1, <3>2, <3>4, <4>1 DEF RestInv
    <3>5. CASE round' = round
      BY <1>t, <3>1, <3>2, <3>5 DEF RestInv
    <3>. QED
      BY <1>5, <3>4, <3>5 DEF EndRound
  <2>2. PhaseInv'
    <3>1. \A u \in Thread \ {t} : phase'[u] = phase[u] /\ round'[u] = round[u]
      BY <1>t, <1>5 DEF EndRound
    <3>2. phase'[t] # "finalizing" /\ phase[t] # "finalizing"
      BY <1>t, <1>5 DEF EndRound
    <3>3. phase'[t] = "gone" /\ tcache_map[t] # Null
            => round'[t] = [n |-> MaxRounds, ran |-> TRUE]
      BY <1>t, <1>5 DEF EndRound
    <3>4. UNCHANGED <<tcache_map, doomed, flushed>>
      BY <1>5 DEF EndRound, table
    <3>. QED
      BY <3>1, <3>2, <3>3, <3>4 DEF EInv, PhaseInv
  <2>. QED
    BY <1>5, <1>o, <2>1, <2>2 DEF EndRound, EInv
<1>6. ASSUME NEW k \in DynamicKind, Destroy(k) PROVE EInv'
  BY <1>6, ExitsFrame DEF Destroy
<1>7. CASE UNCHANGED vars
  BY <1>7, ExitsFrame DEF vars, blocks
<1>. QED
  BY <1>1, <1>2, <1>3, <1>4, <1>5, <1>6, <1>7, CallsOwned, FinalizeOwned, DestroyOwned
     DEF Next, Finishing

LEMMA ExitsHold == Spec => []EInv
BY NumbersHold, InitExits, StepKeepsExits, PTL DEF Spec

(***************************************************************************)
(* NothingLeftBehind: once every thread is gone, tcache_finalize has       *)
(* destroyed every cache but number 0 and those that destructors of the    *)
(* program created after its turn in the last round, and the blocks of     *)
(* the destroyed caches are back in the arenas.                            *)
(***************************************************************************)
THEOREM NothingLeftBehindHolds == Spec => []NothingLeftBehind
<1>1. ASSUME IInv, EInv PROVE NothingLeftBehind
  <2>1. SUFFICES ASSUME \A t \in Thread : phase[t] = "gone"
                 PROVE  /\ Live \subseteq {0} \cup
                             UNION {Doomed(t) : t \in {u \in Thread : tcache_map[u] # Null}}
                        /\ \A t \in Thread : tcache_map[t] # Null =>
                              round[t] = [n |-> MaxRounds, ran |-> TRUE]
                        /\ \A t \in Thread : flushed[t] = {}
    BY DEF NothingLeftBehind
  <2>2. \A t \in Thread : doomed[t] = {} /\ flushed[t] = {}
    BY <1>1, <2>1 DEF EInv, PhaseInv
  <2>3. \A t \in Thread : tcache_map[t] # Null => round[t] = [n |-> MaxRounds, ran |-> TRUE]
    BY <1>1, <2>1 DEF EInv, PhaseInv
  <2>4. ASSUME NEW i \in Live, i # 0
        PROVE  \E t \in Thread : tcache_map[t] # Null /\ i \in Doomed(t)
    <3>1. i \in Number \ {0} /\ tcaches[i] # Null
      BY <1>1, <2>4 DEF IInv, TypeInv, Live
    <3>2. PICK t \in Thread : \E k \in Kind : MapOf(t)[k] = i
      BY <1>1, <2>2, <3>1 DEF EInv, OwnedInv
    <3>. QED
      BY <2>4, <3>2 DEF MapOf, Doomed
  <2>. QED
    BY <2>2, <2>3, <2>4
<1>. QED
  BY <1>1, NumbersHold, ExitsHold, PTL

(***************************************************************************)
(* TypeOK: numbers, maps, blocks and phases are what memkind_arena.c and   *)
(* jemalloc take them for.                                                 *)
(***************************************************************************)
THEOREM TypeCorrect == Spec => []TypeOK
<1>1. ASSUME IInv, EInv PROVE TypeOK
  BY <1>1 DEF IInv, TypeInv, EInv, RestInv, TypeOK
<1>. QED
  BY <1>1, NumbersHold, ExitsHold, PTL
===============================================================================
