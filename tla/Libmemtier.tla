------------------------------ MODULE Libmemtier ------------------------------
(***************************************************************************)
(* libmemtier (src/tiering/): a library that is loaded before a program    *)
(* and takes over malloc and free.  Its constructor reads two variables of *)
(* the environment, fills a builder from them (src/tiering/ctl.c) and      *)
(* stops the program if they are not right; its destructor destroys what   *)
(* the constructor made.  malloc and free are called before the one, while *)
(* it runs, and after the other as well (src/tiering/memtier.c).           *)
(*                                                                         *)
(* The builder, the thresholds and the calls on a memtier_memory are those *)
(* of TierThresholds, which this module composes with the library; without *)
(* the library a program uses them as there.  A query is a sequence of     *)
(* parameters << name, value >>; the value of KIND or PATH is Null when    *)
(* the string ends before it, and a number that cannot be parsed is -1.    *)
(***************************************************************************)
EXTENDS TierThresholds, Functions

CONSTANTS
    Env,          \* environments [tiers, policy, thresholds, kmem]; thresholds may be Null,
                  \* kmem says whether the machine has memory for KMEM_DAX
    Pmem,         \* the kinds memkind_create_pmem can make
    PMEM_MIN,     \* MEMKIND_PMEM_MIN_SIZE
    MaxHeld,      \* bound on the blocks a program holds
    MaxFaults,    \* bound on the allocations of the library that fail
    Null

IsSequence(s) == Len(s) \in Nat /\ DOMAIN s = 1 .. Len(s)

\* An environment holds queries; what they give is among what TierThresholds allows.
ASSUME LibmemtierAssumption ==
    /\ PMEM_MIN \in Nat \ {0} /\ MaxHeld \in Nat /\ MaxFaults \in Nat
    /\ Null \notin Pmem \cup {"DRAM", "KMEM_DAX"} /\ Pmem \cap {"DRAM", "KMEM_DAX"} = {}
    /\ \A e \in Env :
         /\ e.kmem \in BOOLEAN
         /\ IsSequence(e.tiers)
         /\ \A n \in DOMAIN e.tiers :
              /\ IsSequence(e.tiers[n])
              /\ \A i \in DOMAIN e.tiers[n] :
                   e.tiers[n][i][1] = "RATIO" /\ e.tiers[n][i][2] > 0 => e.tiers[n][i][2] \in TierRatio
         /\ e.thresholds # Null =>
              /\ IsSequence(e.thresholds) /\ Len(e.thresholds) > 0
              /\ \A n \in DOMAIN e.thresholds :
                   /\ IsSequence(e.thresholds[n])
                   /\ \A i \in DOMAIN e.thresholds[n] :
                        e.thresholds[n][i][2] >= 0 => e.thresholds[n][i][2] \in CtlSize

VARIABLES
    stage,        \* how far the library is; "absent" if the program runs without it
    env,          \* what the constructor finds
    pos,          \* the query that is next,
    par,          \* and the parameter of it
    tier,         \* what the parameters of a tier said so far
    ctl_opts,     \* the parameters the threshold query has set so far
    temp_cfg,     \* the tiers as parsed, [kind, ratio]
    fs_dax_reg,   \* fs_dax_reg_g.kinds
    pmem,         \* what has become of each of Pmem: "none", "live" or "dead"
    held,         \* held[k]: the number of blocks of kind k the program holds
    misused,      \* how kinds were used wrongly: by a "call", which freed a block as of
                  \* another kind or used a dead one, or by a "report" that read a dead one
    destructed,   \* the destructor has run
    faults        \* how many allocations of the library have failed

config == <<env, pos, par, tier, ctl_opts, temp_cfg, fs_dax_reg, pmem, faults>>
use == <<held, misused>>
lib == <<stage, config, use, destructed>>
tiering == <<builder, thres, check_cnt, local>>
allvars == <<tiering, lib>>

Kinds == {"DRAM", "KMEM_DAX"} \cup Pmem

\* The local variables of ctl_parse_tier_query; path_set and the like are one set.
NoTier == [kind |-> Null, fsdax |-> FALSE, set |-> {}, path |-> Null, size |-> 0, ratio |-> 0]

LibInit ==
    /\ Init
    /\ \/ stage = "absent" /\ env = Null
       \/ stage = "loaded" /\ env \in Env
    /\ pos = 1
    /\ par = 1
    /\ tier = NoTier
    /\ ctl_opts = {}
    /\ temp_cfg = << >>
    /\ fs_dax_reg = << >>
    /\ pmem = [k \in Pmem |-> "none"]
    /\ held = [k \in Kinds |-> 0]
    /\ misused = {}
    /\ destructed = FALSE
    /\ faults = 0

Fault == faults < MaxFaults /\ faults' = faults + 1

-----------------------------------------------------------------------------
(* ctl_parse_tier_query.                                                   *)

RatioAccepted(v) == v > 0

\* One parameter; KMEM_DAX is tried with an allocation.
Understood(q) ==
    /\ q[1] \notin tier.set
    /\ \/ q[1] = "KIND" /\ q[2] \in {"DRAM", "FS_DAX"} \cup (IF env.kmem THEN {"KMEM_DAX"} ELSE {})
       \/ q[1] = "PATH" /\ q[2] # Null
       \/ q[1] = "PMEM_SIZE_LIMIT"
       \/ q[1] = "RATIO" /\ RatioAccepted(q[2])

Noted(q) ==
    [kind |-> IF q[1] = "KIND" /\ q[2] # "FS_DAX" THEN q[2] ELSE tier.kind,
     fsdax |-> tier.fsdax \/ q = <<"KIND", "FS_DAX">>,
     set |-> tier.set \cup {q[1]},
     path |-> IF q[1] = "PATH" THEN q[2] ELSE tier.path,
     size |-> IF q[1] = "PMEM_SIZE_LIMIT" THEN q[2] ELSE tier.size,
     ratio |-> IF q[1] = "RATIO" THEN q[2] ELSE tier.ratio]

\* A mutant: a path is accepted for any kind.
SoundAnyPath ==
    /\ "RATIO" \in tier.set
    /\ IF tier.fsdax THEN "PATH" \in tier.set /\ tier.size >= 0 ELSE "PMEM_SIZE_LIMIT" \notin tier.set

(***************************************************************************)
(* What is demanded of a query after its last parameter.  That the KIND is *)
(* missing is not noticed here: the test is of the address of the result.  *)
(***************************************************************************)
Sound ==
    /\ "RATIO" \in tier.set
    /\ IF tier.fsdax THEN "PATH" \in tier.set /\ tier.size >= 0
                     ELSE tier.set \cap {"PATH", "PMEM_SIZE_LIMIT"} = {}

Fail == stage' = "failed"

KeepTier(kind) ==
    /\ temp_cfg' = Append(temp_cfg, [kind |-> kind, ratio |-> tier.ratio])
    /\ pos' = pos + 1 /\ par' = 1 /\ tier' = NoTier
    /\ UNCHANGED stage

\* ctl_add_pmem_kind_to_fs_dax_reg, when the array can grow.
Register(k) == fs_dax_reg' = Append(fs_dax_reg, k)

(***************************************************************************)
(* The tier of FS_DAX.  With too small a limit no kind is created and NULL *)
(* is registered; when the array cannot grow that fails, and a new kind is *)
(* lost.                                                                   *)
(***************************************************************************)
CreatePmem ==
    \/ /\ tier.size > 0 /\ tier.size < PMEM_MIN
       /\ \/ Register(Null) /\ KeepTier(Null) /\ UNCHANGED faults
          \/ Fault /\ Fail /\ UNCHANGED <<pos, par, tier, temp_cfg, fs_dax_reg>>
       /\ UNCHANGED pmem
    \/ /\ tier.size = 0 \/ tier.size >= PMEM_MIN
       /\ (tier.path = "missing" /\ UNCHANGED faults) \/ (tier.path # "missing" /\ Fault)
       /\ Fail
       /\ UNCHANGED <<pos, par, tier, temp_cfg, fs_dax_reg, pmem>>
    \/ /\ tier.size = 0 \/ tier.size >= PMEM_MIN
       /\ tier.path # "missing"
       /\ \E k \in Pmem :
            /\ pmem[k] = "none"
            /\ pmem' = [pmem EXCEPT ![k] = "live"]
            /\ \/ Register(k) /\ KeepTier(k) /\ UNCHANGED faults
               \/ Fault /\ Fail /\ UNCHANGED <<pos, par, tier, temp_cfg, fs_dax_reg>>

TierParam ==
    LET query == env.tiers[pos]
    IN  /\ stage = "tiers" /\ pos <= Len(env.tiers) /\ par <= Len(query)
        /\ IF Understood(query[par])
             THEN tier' = Noted(query[par]) /\ par' = par + 1 /\ UNCHANGED stage
             ELSE Fail /\ UNCHANGED <<tier, par>>
        /\ UNCHANGED <<env, pos, ctl_opts, temp_cfg, fs_dax_reg, pmem, faults, use, destructed, tiering>>

TierEnd ==
    /\ stage = "tiers" /\ pos <= Len(env.tiers) /\ par > Len(env.tiers[pos])
    /\ \/ /\ ~Sound /\ Fail
          /\ UNCHANGED <<pos, par, tier, temp_cfg, fs_dax_reg, pmem, faults>>
       \/ Sound /\ ~tier.fsdax /\ KeepTier(tier.kind) /\ UNCHANGED <<fs_dax_reg, pmem, faults>>
       \/ Sound /\ tier.fsdax /\ CreatePmem
    /\ UNCHANGED <<env, ctl_opts, use, destructed, tiering>>

-----------------------------------------------------------------------------
(* ctl_create_tier_memory_from_env.                                        *)

\* memtier_init; a string without tiers is refused before anything is created.
Load ==
    /\ stage = "loaded"
    /\ stage' = IF env.tiers = << >> THEN "failed" ELSE "tiers"
    /\ UNCHANGED <<config, use, destructed, tiering>>

Policies == {"STATIC_RATIO", "DYNAMIC_THRESHOLD"}

Dynamic == env.policy = "DYNAMIC_THRESHOLD"

\* The policy, and memtier_builder_new.
ParsePolicy ==
    /\ stage = "tiers" /\ pos > Len(env.tiers)
    /\ \/ env.policy \in Policies /\ stage' = "adding" /\ UNCHANGED faults
       \/ env.policy \notin Policies /\ Fail /\ UNCHANGED faults
       \/ env.policy \in Policies /\ Fault /\ Fail
    /\ pos' = 1
    /\ UNCHANGED <<env, par, tier, ctl_opts, temp_cfg, fs_dax_reg, pmem, use, destructed, tiering>>

\* memtier_builder_add_tier.
Refused(n) ==
    temp_cfg[n].kind = Null \/ temp_cfg[n].kind \in {temp_cfg[m].kind : m \in 1 .. n - 1}

BuilderAdd ==
    /\ stage = "adding" /\ pos <= Len(temp_cfg)
    /\ \/ /\ ~Refused(pos)
          /\ IF Dynamic THEN AddTier(temp_cfg[pos].ratio) ELSE UNCHANGED tiering
          /\ pos' = pos + 1
          /\ UNCHANGED <<stage, faults>>
       \/ /\ (Refused(pos) /\ UNCHANGED faults) \/ (~Refused(pos) /\ Fault)
          /\ Fail
          /\ UNCHANGED <<pos, tiering>>
    /\ UNCHANGED <<env, par, tier, ctl_opts, temp_cfg, fs_dax_reg, pmem, use, destructed>>

\* MEMKIND_MEM_THRESHOLDS is looked at after the tiers were added.
BeginThresholds ==
    /\ stage = "adding" /\ pos > Len(temp_cfg)
    /\ stage' = CASE env.thresholds = Null -> "constructing"
                  [] env.thresholds # Null /\ Dynamic
                       /\ Len(env.thresholds) < Len(temp_cfg) -> "thresholds"
                  [] OTHER -> "failed"
    /\ pos' = 1
    /\ UNCHANGED <<env, par, tier, ctl_opts, temp_cfg, fs_dax_reg, pmem, faults, use, destructed, tiering>>

Field == [INIT_VAL |-> "val", MIN_VAL |-> "min", MAX_VAL |-> "max"]

Accepted(q) == q[1] \in DOMAIN Field /\ q[1] \notin ctl_opts /\ q[2] >= 0

\* ctl_parse_threshold_query with ctl_set_thr_cfg, one parameter a step.
ThresholdParam ==
    LET query == env.thresholds[pos]
        last == par = Len(query)
    IN  /\ stage = "thresholds"
        /\ \/ /\ par <= Len(query) /\ Accepted(query[par])
              /\ CtlSetThreshold(pos, Field[query[par][1]], query[par][2])
              /\ pos' = IF last THEN pos + 1 ELSE pos
              /\ par' = IF last THEN 1 ELSE par + 1
              /\ ctl_opts' = IF last THEN {} ELSE ctl_opts \cup {query[par][1]}
              /\ stage' = IF last /\ pos = Len(env.thresholds) THEN "constructing" ELSE stage
           \/ /\ par <= Len(query) => ~Accepted(query[par])
              /\ Fail
              /\ UNCHANGED <<pos, par, ctl_opts, tiering>>
        /\ UNCHANGED <<env, tier, temp_cfg, fs_dax_reg, pmem, faults, use, destructed>>

\* memtier_builder_construct_memtier_memory; current_memory is set.
BuilderConstruct ==
    /\ stage = "constructing"
    /\ \/ /\ IF Dynamic THEN Construct ELSE UNCHANGED tiering
          /\ stage' = "running" /\ UNCHANGED faults
       \/ /\ (Dynamic /\ ~Valid(builder) /\ UNCHANGED faults) \/ Fault
          /\ Fail /\ UNCHANGED tiering
    /\ UNCHANGED <<env, pos, par, tier, ctl_opts, temp_cfg, fs_dax_reg, pmem, use, destructed>>

(***************************************************************************)
(* ctl_destroy_fs_dax_reg.  memkind_destroy_kind does not take NULL: the   *)
(* process ends there, and the kinds after it are not destroyed.           *)
(***************************************************************************)
DestroyableButLast ==   \* a mutant: the last kind is passed over
    {fs_dax_reg[n] : n \in 1 .. Len(fs_dax_reg) - 1} \ {Null}

Destroyable ==
    {fs_dax_reg[n] : n \in {m \in DOMAIN fs_dax_reg : Null \notin {fs_dax_reg[l] : l \in 1 .. m}}}

DestroyKinds == pmem' = [k \in Pmem |-> IF k \in Destroyable THEN "dead" ELSE pmem[k]]

\* The builder, if there is one, reports its kinds and is deleted while they live; then
\* cleanup_after_failure, and abort.
Abort ==
    /\ stage = "failed"
    /\ DestroyKinds
    /\ stage' = IF \E n \in DOMAIN fs_dax_reg : fs_dax_reg[n] = Null THEN "crashed" ELSE "aborted"
    /\ UNCHANGED <<env, pos, par, tier, ctl_opts, temp_cfg, fs_dax_reg, faults, use, destructed, tiering>>

-----------------------------------------------------------------------------
(* The calls the library takes over.  After the destructor malloc returns  *)
(* NULL and free does nothing: no step.                                    *)

Usable(k) == k \in Pmem => pmem[k] = "live"

Blocks(h) == FoldFunction(LAMBDA x, y : x + y, 0, h)

Alloc(k) ==
    /\ \E n \in {0, 1} : held' = [held EXCEPT ![k] = @ + n]
    /\ Blocks(held') <= MaxHeld
    /\ misused' = IF Usable(k) THEN misused ELSE misused \cup {"call"}

\* A block of kind b is freed as one of kind k.
FreeAs(k, b) ==
    /\ held[b] > 0
    /\ held' = [held EXCEPT ![b] = @ - 1]
    /\ misused' = IF k = b /\ Usable(k) THEN misused ELSE misused \cup {"call"}

\* A mutant: there is no destructed, only current_memory.
BypassedAlways == stage \notin {"absent", "running", "failed", "aborted", "crashed"}

\* There is no memory, and it was not destroyed: memkind's own kind is used.
Bypassed == stage \notin {"absent", "running", "failed", "aborted", "crashed"} /\ ~destructed

DefaultCall ==
    /\ Bypassed
    /\ Alloc("DRAM") \/ \E b \in Kinds : FreeAs("DRAM", b)
    /\ UNCHANGED <<stage, config, destructed, tiering>>

(***************************************************************************)
(* memkind_detect_kind of a block of kind b (memtier_realloc): the kind    *)
(* its arena is registered for, which ArenaMap models; the arenas of a     *)
(* destroyed kind are registered for none, and that means MEMKIND_DEFAULT. *)
(***************************************************************************)
FreedAs(b) == IF Usable(b) THEN b ELSE "DRAM"

StaticCall ==
    /\ stage = "running" /\ ~Dynamic
    /\ (\E n \in DOMAIN temp_cfg : Alloc(temp_cfg[n].kind)) \/ (\E b \in Kinds : FreeAs(FreedAs(b), b))
    /\ UNCHANGED <<stage, config, destructed, tiering>>

(***************************************************************************)
(* With thresholds: a tier is chosen, a block of its kind is allocated and *)
(* the thresholds are updated; free and realloc go to the update.  A size  *)
(* of 0 is also what free(NULL) asks for, and nobody gets that block.      *)
(***************************************************************************)
DynamicCall(t) ==
    /\ stage = "running" /\ Dynamic
    /\ \/ (Scan(t) \/ StoreCount(t) \/ Skip(t) \/ Decide(t) \/ Compute(t) \/ Store(t)
             \/ \E s \in Size : MallocBegin(t, s)) /\ UNCHANGED use
       \/ local[t].pc = "chosen" /\ LoadCount(t) /\ Alloc(temp_cfg[local[t].i].kind)
       \/ local[t].pc = "idle" /\ LoadCount(t) /\ \E b \in Kinds : FreeAs(FreedAs(b), b)
       \/ local[t].pc = "idle" /\ LoadCount(t) /\ (\E b \in Kinds : held[b] > 0) /\ UNCHANGED use
    /\ UNCHANGED <<stage, config, destructed>>

\* print_memtier_memory reads the name and the counter of the kind of every tier.
Report ==
    misused' = IF \E n \in DOMAIN temp_cfg : temp_cfg[n].kind \in Pmem /\ pmem'[temp_cfg[n].kind] = "dead"
                 THEN misused \cup {"report"} ELSE misused

(***************************************************************************)
(* memtier_fini, when no thread is in a call.  ctl_destroy_tier_memory     *)
(* destroys the kinds and then deletes the memory, whose last report reads *)
(* them.                                                                   *)
(***************************************************************************)
Exit ==
    /\ stage = "running"
    /\ DestroyKinds
    /\ Report
    /\ IF Dynamic THEN Delete ELSE UNCHANGED tiering
    /\ stage' = "unloaded"
    /\ destructed' = TRUE
    /\ UNCHANGED <<env, pos, par, tier, ctl_opts, temp_cfg, fs_dax_reg, faults, held>>

-----------------------------------------------------------------------------
Loading ==
    Load \/ TierParam \/ TierEnd \/ ParsePolicy \/ BuilderAdd \/ BeginThresholds \/ ThresholdParam
    \/ BuilderConstruct \/ Abort

LibNext ==
    \/ stage = "absent" /\ Next /\ UNCHANGED lib
    \/ Loading \/ DefaultCall \/ StaticCall \/ (\E t \in Thread : DynamicCall(t)) \/ Exit

LibSpec == LibInit /\ [][LibNext]_allvars

-----------------------------------------------------------------------------
(* What the manual, doc/libmemtier.7.md, says of the two variables.        *)

OnceEach(query, names) ==
    /\ \A i \in DOMAIN query : query[i][1] \in names
    /\ \A i, j \in DOMAIN query : query[i][1] = query[j][1] => i = j

Given(query, name) == \E i \in DOMAIN query : query[i][1] = name

Value(query, name) == query[CHOOSE i \in DOMAIN query : query[i][1] = name][2]

DocumentedTier(e, query) ==
    /\ OnceEach(query, {"KIND", "PATH", "PMEM_SIZE_LIMIT", "RATIO"})
    /\ Given(query, "KIND") /\ Given(query, "RATIO")
    /\ Value(query, "KIND") \in {"DRAM", "FS_DAX"} \cup (IF e.kmem THEN {"KMEM_DAX"} ELSE {})
    /\ Value(query, "RATIO") >= 1
    /\ Given(query, "PATH") <=> Value(query, "KIND") = "FS_DAX"
    /\ Given(query, "PATH") => Value(query, "PATH") \notin {Null, "missing"}
    /\ Given(query, "PMEM_SIZE_LIMIT") =>
         /\ Value(query, "KIND") = "FS_DAX"
         /\ Value(query, "PMEM_SIZE_LIMIT") = 0 \/ Value(query, "PMEM_SIZE_LIMIT") >= PMEM_MIN

\* The defaults of the code, 512 to 1535 and so on in steps of STEP = 1024, and those
\* that doc/libmemtier.7.md and doc/libmemtier.3.md give: 513 to 1536.
CodeDefaults == [n \in 1 .. MaxTiers |-> DefaultThreshold(n)]

ManualDefaults ==
    [n \in 1 .. MaxTiers |-> [min |-> STEP \div 2 + STEP * (n - 1) + 1, val |-> STEP * n,
                             max |-> STEP \div 2 + STEP * n]]

\* What a threshold is to be: the default where nothing is given.
Configured(e, n, default) ==
    LET of(name) == IF e.thresholds # Null /\ n <= Len(e.thresholds) /\ Given(e.thresholds[n], name)
                      THEN Value(e.thresholds[n], name) ELSE default[n][Field[name]]
    IN  [val |-> of("INIT_VAL"), min |-> of("MIN_VAL"), max |-> of("MAX_VAL")]

Documented(e, default) ==
    /\ Len(e.tiers) >= IF e.policy = "DYNAMIC_THRESHOLD" THEN 2 ELSE 1
    /\ e.policy \in Policies
    /\ \A n \in DOMAIN e.tiers : DocumentedTier(e, e.tiers[n])
    /\ \A m, n \in DOMAIN e.tiers :
         m # n /\ Value(e.tiers[m], "KIND") = Value(e.tiers[n], "KIND")
           => Value(e.tiers[n], "KIND") = "FS_DAX"
    /\ e.thresholds # Null =>
         /\ e.policy = "DYNAMIC_THRESHOLD"
         /\ Len(e.thresholds) < Len(e.tiers)
         /\ \A n \in DOMAIN e.thresholds :
              /\ e.thresholds[n] # << >>
              /\ OnceEach(e.thresholds[n], DOMAIN Field)
              /\ \A i \in DOMAIN e.thresholds[n] : e.thresholds[n][i][2] >= 0
         /\ \A n \in 1 .. Len(e.tiers) - 1 :
              LET c == Configured(e, n, default)
              IN  /\ c.min <= c.val /\ c.val <= c.max
                  /\ n > 1 => Configured(e, n - 1, default).max <= c.min

(* The types, and what the stage says of the rest.                         *)
LibTypeOK ==
    /\ stage \in {"absent", "loaded", "tiers", "adding", "thresholds", "constructing", "running",
                  "failed", "aborted", "crashed", "unloaded"}
    /\ env = Null <=> stage = "absent"
    /\ pos \in Nat \ {0} /\ par \in Nat \ {0}
    /\ tier.kind \in Kinds \cup {Null} /\ tier.set \subseteq {"KIND", "PATH", "PMEM_SIZE_LIMIT", "RATIO"}
    /\ stage = "running" => tier = NoTier
    /\ ctl_opts \subseteq DOMAIN Field
    /\ stage \in {"running", "unloaded"} => ctl_opts = {}
    /\ \A n \in DOMAIN temp_cfg : temp_cfg[n].kind \in Kinds \cup {Null} /\ temp_cfg[n].ratio > 0
    /\ \A n \in DOMAIN fs_dax_reg : fs_dax_reg[n] \in Pmem \cup {Null}
    /\ pmem \in [Pmem -> {"none", "live", "dead"}]
    /\ held \in [Kinds -> 0 .. MaxHeld]
    /\ misused \subseteq {"call", "report"} /\ destructed \in BOOLEAN
    /\ destructed <=> stage = "unloaded"
    /\ faults \in 0 .. MaxFaults

\* The program is stopped just if the strings are wrong or memory runs out; it runs with
\* the tiers and the thresholds of the strings.
StartsWith(default) ==
    /\ stage \in {"failed", "aborted", "crashed"} => ~Documented(env, default) \/ faults > 0
    /\ stage = "running" =>
      /\ Documented(env, default)
      /\ Len(temp_cfg) = Len(env.tiers)
      /\ \A n \in DOMAIN temp_cfg :
           /\ temp_cfg[n].ratio = Value(env.tiers[n], "RATIO")
           /\ IF Value(env.tiers[n], "KIND") = "FS_DAX"
                THEN temp_cfg[n].kind \in Pmem /\ pmem[temp_cfg[n].kind] = "live"
                ELSE temp_cfg[n].kind = Value(env.tiers[n], "KIND")
           /\ \A m \in 1 .. n - 1 : temp_cfg[m].kind # temp_cfg[n].kind
      /\ Dynamic =>
           /\ Len(builder.ratio) = Len(temp_cfg)
           /\ \A n \in DOMAIN thres :
                /\ builder.ratio[n] = temp_cfg[n].ratio
                /\ builder.thres[n] = Configured(env, n, default)
                /\ thres[n].min = Configured(env, n, default).min
                /\ thres[n].max = Configured(env, n, default).max

(***************************************************************************)
(* "The application will fail when provided environment variable string is *)
(* not in the correct format", and only then, unless memory runs out.  The *)
(* memory the program runs with has the tiers of the string, in its order, *)
(* each with a kind of its own that exists; its thresholds have the bounds *)
(* that were asked for, or the defaults of builder_dynamic_update, which   *)
(* are not the ones of the manual.                                         *)
(***************************************************************************)
StartsAsConfigured == LibTypeOK /\ StartsWith(CodeDefaults)

(***************************************************************************)
(* The same with the defaults that the manual names.                       *)
(***************************************************************************)
StartsAsDocumented == StartsWith(ManualDefaults)

(***************************************************************************)
(* Every file-backed kind that was created is destroyed when the program   *)
(* is refused or ends, but for one that the array of them could not grow   *)
(* for (a fault); where a limit was too small NULL was registered, and the *)
(* process dies on it instead.                                             *)
(***************************************************************************)
KindsDestroyed ==
    stage \in {"aborted", "unloaded"} =>
      \A j, k \in Pmem : pmem[j] = "live" /\ pmem[k] = "live" => faults > 0 /\ j = k

(***************************************************************************)
(* A block is given back to the kind it came from, whether it was          *)
(* allocated before, during or after the constructor or the destructor,    *)
(* and no call uses a kind that was destroyed.  One use of destroyed kinds *)
(* there is: the report at the exit of a program with a file-backed tier   *)
(* (ctl_destroy_tier_memory destroys them before the memory is deleted).   *)
(***************************************************************************)
KindsMatch ==
    /\ "call" \notin misused
    /\ "report" \in misused => destructed /\ \E n \in DOMAIN temp_cfg : temp_cfg[n].kind \in Pmem
===============================================================================
