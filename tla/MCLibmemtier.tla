---------------------------- MODULE MCLibmemtier ----------------------------
(* An instance of Libmemtier, and so of TierThresholds.                    *)
EXTENDS Libmemtier, TLC

CONSTANTS t1, t2, p1, p2

Symmetric == Permutations({t1, t2}) \cup Permutations({p1, p2})

(* Degrees and triggers; the negative ones are refused.                    *)
Quarter == << 1, 4 >>
Half == << 1, 2 >>
Degrees == {<< -1, 4 >>}
Negative == {<< -1, 2 >>}

(* Tiers: those that the manual allows, and ways to get them wrong.        *)
Dram == << <<"KIND", "DRAM">>, <<"RATIO", 1>> >>
Kmem == << <<"RATIO", 1>>, <<"KIND", "KMEM_DAX">> >>
FsDax == << <<"KIND", "FS_DAX">>, <<"PATH", "dir">>, <<"RATIO", 1>> >>
Limited(n) == Append(FsDax, <<"PMEM_SIZE_LIMIT", n>>)

WrongTiers == {
  << <<"RATIO", 1>> >>,
  << <<"KIND", "DRAM">> >>,
  << <<"KIND", "DRAM">>, <<"RATIO", 0>> >>,
  << <<"KIND", "HBM">>, <<"RATIO", 1>> >>,
  << <<"KIND", Null>> >>,
  << <<"KIND", "FS_DAX">>, <<"RATIO", 1>> >>,
  << <<"KIND", "FS_DAX">>, <<"RATIO", 1>>, <<"PATH", Null>> >>,
  << <<"KIND", "FS_DAX">>, <<"RATIO", 1>>, <<"PATH", "missing">> >>,
  Limited(-1), Limited(1),
  Append(Dram, <<"PATH", "dir">>),
  Append(Dram, <<"PMEM_SIZE_LIMIT", 2>>),
  Append(Dram, <<"KIND", "DRAM">>),
  Append(Dram, <<"RATIO", 1>>),
  Append(Dram, <<"SIZE", 2>>)}

Thresholds == {
  Null,
  << << <<"MIN_VAL", 5>>, <<"INIT_VAL", 5>> >> >>,
  << << <<"MAX_VAL", 5>> >> >>,
  << << <<"MIN_VAL", 5>> >> >>,
  << << <<"INIT_VAL", 5>>, <<"INIT_VAL", 5>> >> >>,
  << << <<"INIT_VAL", -1>> >> >>,
  << << <<"VAL", 5>> >> >>,
  << << >> >>,
  << << <<"INIT_VAL", 5>> >>, << <<"MIN_VAL", 5>> >> >>}

Environment(tiers, policy, thresholds, kmem) ==
  [tiers |-> tiers, policy |-> policy, thresholds |-> thresholds, kmem |-> kmem]

Environments ==
  LET second == WrongTiers \cup {Dram, FsDax, Limited(0), Limited(2), Kmem}
  IN  {Environment(<<FsDax, q>>, "STATIC_RATIO", Null, k) : q \in second, k \in BOOLEAN}
      \cup {Environment(ts, p, Null, TRUE) : ts \in {<< >>, <<Dram>>, <<Dram, Dram>>},
                                           p \in Policies \cup {"RANDOM"}}
      \cup {Environment(<<FsDax, Dram>>, "DYNAMIC_THRESHOLD", th, TRUE) : th \in Thresholds}
      \cup {Environment(<<Dram, FsDax, FsDax>>, p, th, TRUE) :
               p \in Policies, th \in {Null, << << <<"MAX_VAL", 5>>, <<"INIT_VAL", 5>> >>,
                                            << <<"MIN_VAL", 5>> >> >>}}
=============================================================================
