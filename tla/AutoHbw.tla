------------------------------- MODULE AutoHbw -------------------------------
(***************************************************************************)
(* libautohbw (src/autohbw/autohbw.c): a library that is loaded before a   *)
(* program, takes over malloc and free, and gives allocations whose size   *)
(* is in a window to high bandwidth memory.  Its constructor chooses the   *)
(* kind by what NodeMasks says is available, reads the window from the     *)
(* environment and tries an allocation; until that is done, and while the  *)
(* program has disabled it, every allocation is of MEMKIND_DEFAULT.        *)
(*                                                                         *)
(* On a machine of HbwPlacement the program uses either the hbw interface  *)
(* or this library.  A block is one the program holds; how says which call *)
(* gave it, and want whether the library was in use at the time.           *)
(***************************************************************************)
EXTENDS HbwPlacement

CONSTANTS
    SizeEnv,     \* values of AUTO_HBW_SIZE: Null, or [low, lowC, high, highC] with high Null
                 \* if the string has no colon
    MemType,     \* values of AUTO_HBW_MEM_TYPE: Null, a kind, or a name that is not known
    Size,        \* sizes that are asked for; none beyond PTRDIFF_MAX can be served
    Count,       \* numbers of elements given to calloc
    Word,        \* 2 to the width of size_t
    KB           \* 1024

ASSUME AutoHbwAssumption ==
    /\ Word \in Nat /\ KB \in Nat \ {0} /\ KB * KB < Word
    /\ Size \subseteq 0 .. Word \div 2 - 1 /\ Count \subseteq Nat \ {0}
    /\ \A e \in SizeEnv \ {Null} :
         /\ e.low \in 0 .. Word - 1 /\ e.lowC \in {"G", "M", "K", "B"}
         /\ e.high # Null => e.high \in 0 .. Word - 1 /\ e.highC \in {"G", "M", "K", "B"}

VARIABLES
    load,             \* "absent", "start", "trying", "done" or "aborted"
    size_env, mem_type,
    hbw_kind, HBWLowLimit, HBWHighLimit, isAutoHBWEnabled,
    block             \* Null or [kind, size, how, want]

autoVars == <<load, size_env, mem_type, hbw_kind, HBWLowLimit, HBWHighLimit, isAutoHBWEnabled, block>>

AutoInit ==
    /\ HbwInit
    /\ load \in IF machine.kinds = {} THEN {"absent", "start"} ELSE {"absent"}
    /\ size_env \in IF load = "start" THEN SizeEnv ELSE {Null}
    /\ mem_type \in IF load = "start" THEN MemType ELSE {Null}
    /\ hbw_kind = Null
    /\ HBWLowLimit = KB * KB /\ HBWHighLimit = Word - 1
    /\ isAutoHBWEnabled = TRUE
    /\ block = Null

-----------------------------------------------------------------------------
Multiplier == [G |-> KB * KB * KB, M |-> KB * KB, K |-> KB, B |-> 1]

getLimitWraps(limit, lchar) == (limit * Multiplier[lchar]) % Word   \* a mutant: no saturation

\* A character that is none of K, M and G is "B"; without one nothing is tested.
getLimit(limit, lchar) ==
    IF limit > 0 /\ lchar # "B" /\ limit >= (Word - 1) \div Multiplier[lchar] THEN Word - 1
    ELSE (limit * Multiplier[lchar]) % Word

\* Where there is no colon the old limit is put together again from its kilobytes.
SetEnvSize ==
    IF size_env = Null THEN UNCHANGED <<HBWLowLimit, HBWHighLimit>>
    ELSE /\ HBWLowLimit' = getLimit(size_env.low, size_env.lowC)
         /\ HBWHighLimit' = IF size_env.high = Null THEN getLimit(HBWHighLimit \div KB, "K")
                            ELSE getLimit(size_env.high, size_env.highC)

NamedKinds == {"DEFAULT", "HUGETLB", "INTERLEAVE", "HBW", "HBW_PREFERRED", "HBW_HUGETLB",
               "HBW_PREFERRED_HUGETLB", "HBW_INTERLEAVE"}

\* A mutant: MEMKIND_HBW_PREFERRED is taken to fall back by itself.
DefaultTypeAlways(available) == "HBW_PREFERRED"

DefaultType(available) == IF available THEN "HBW_PREFERRED" ELSE "DEFAULT"

\* autohbw_load, up to the allocation, ...
AutohbwLoad(cpu) ==
    /\ load = "start"
    /\ CheckAvailable("HBW", cpu, FALSE)
    /\ hbw_kind' = IF mem_type \in NamedKinds THEN mem_type ELSE DefaultType(answer'.err = "SUCCESS")
    /\ SetEnvSize
    /\ load' = "trying"
    /\ UNCHANGED <<size_env, mem_type, isAutoHBWEnabled, block, hbwVars>>

\* ... and the allocation of 16 bytes, which is freed again.
AutohbwTry(cpu, kernel) ==
    /\ load = "trying"
    /\ DefaultMmap(hbw_kind, cpu, FALSE, kernel)
    /\ load' = IF answer'.err = "SUCCESS" THEN "done" ELSE "aborted"
    /\ UNCHANGED <<size_env, mem_type, hbw_kind, HBWLowLimit, HBWHighLimit, isAutoHBWEnabled, block,
                   hbwVars>>

\* enableAutoHBW and disableAutoHBW.
SetEnabled(b) ==
    /\ isAutoHBWEnabled' = b
    /\ UNCHANGED <<vars, hbwVars, load, size_env, mem_type, hbw_kind, HBWLowLimit, HBWHighLimit, block>>

-----------------------------------------------------------------------------
isAllocInHBW(size) ==
    load = "done" /\ isAutoHBWEnabled /\ HBWLowLimit <= size /\ size <= HBWHighLimit

\* The kind that malloc, posix_memalign, valloc, memalign and realloc use for a size.
KindFor(size) == IF isAllocInHBW(size) THEN hbw_kind ELSE "DEFAULT"

Block(kind, size, how) ==
    [kind |-> kind, size |-> size, how |-> how, want |-> load = "done" /\ isAutoHBWEnabled]

\* Memory is mapped for a block of kind, or not to be had.
Obtain(kind, cpu, kernel, b) ==
    /\ DefaultMmap(kind, cpu, FALSE, kernel)
    /\ block' = IF answer'.err = "SUCCESS" THEN b ELSE block
    /\ UNCHANGED <<hbwVars, load, size_env, mem_type, hbw_kind, HBWLowLimit, HBWHighLimit,
                   isAutoHBWEnabled>>

Malloc(size, cpu, kernel) ==
    block = Null /\ Obtain(KindFor(size), cpu, kernel, Block(KindFor(size), size, "malloc"))

\* The kind is chosen by the size of one element.
Calloc(nmemb, size, cpu, kernel) ==
    /\ block = Null /\ nmemb * size < Word \div 2
    /\ Obtain(KindFor(size), cpu, kernel, Block(KindFor(size), nmemb * size, "calloc"))

\* The kind is chosen by the new size; a block that fits stays where it is.
Realloc(size, cpu, kernel) ==
    /\ block # Null
    /\ \/ Obtain(KindFor(size), cpu, kernel, Block(KindFor(size), size, "realloc"))
       \/ /\ block' = [block EXCEPT !.size = size, !.how = "realloc"]
          /\ UNCHANGED <<vars, hbwVars, load, size_env, mem_type, hbw_kind, HBWLowLimit, HBWHighLimit,
                         isAutoHBWEnabled>>

Free ==
    /\ block # Null /\ block' = Null
    /\ UNCHANGED <<vars, hbwVars, load, size_env, mem_type, hbw_kind, HBWLowLimit, HBWHighLimit,
                   isAutoHBWEnabled>>

AutoCall ==
    /\ load \notin {"absent", "aborted"} /\ answer = NoAnswer /\ ~ended
    /\ \/ \E cpu \in Cpu, kernel \in {"ok", "mbind"} :
            \/ AutohbwTry(cpu, kernel)
            \/ \E s \in Size : Malloc(s, cpu, kernel) \/ Realloc(s, cpu, kernel)
            \/ \E n \in Count, s \in Size : Calloc(n, s, cpu, kernel)
       \/ \E cpu \in Cpu : AutohbwLoad(cpu)
       \/ load = "done" /\ \E b \in BOOLEAN : SetEnabled(b)
       \/ Free

AutoNext ==
    \/ load = "absent" /\ HbwNext /\ UNCHANGED autoVars
    \/ AutoCall
    \/ load # "absent" /\ Next /\ UNCHANGED <<hbwVars, autoVars>>

AutoSpec == AutoInit /\ [][AutoNext]_<<vars, hbwVars, autoVars>>

-----------------------------------------------------------------------------
\* The window of the manual, doc/autohbw.7.md, in unbounded numbers.
Above(size) ==
    size > IF size_env = Null THEN KB * KB ELSE size_env.low * Multiplier[size_env.lowC]

Below(size) ==
    size_env # Null /\ size_env.high # Null => size < size_env.high * Multiplier[size_env.highC]

AtLeast(size) == Above(size + 1)

AtMost(size) == Below(size - 1)

(***************************************************************************)
(* "any allocation larger than x and smaller than y should be allocated in *)
(* HBW memory" (malloc and the aligned calls), and no other, whatever      *)
(* multiples the limits are given in and however large they are; x and y   *)
(* themselves may go either way.  Before the constructor is done and while *)
(* the library is disabled, and so for a block that another constructor    *)
(* allocated, it is MEMKIND_DEFAULT.                                       *)
(***************************************************************************)
WindowRespected ==
    block # Null /\ block.how = "malloc" =>
      /\ block.want /\ Above(block.size) /\ Below(block.size) => block.kind = hbw_kind
      /\ ~block.want \/ ~AtLeast(block.size) \/ ~AtMost(block.size) => block.kind = "DEFAULT"

(***************************************************************************)
(* The library does not stop a program that asks for no kind in particular *)
(* on a machine without high bandwidth memory: the kind it chooses can be  *)
(* mapped from every CPU, unless the kernel refuses, or one CPU has        *)
(* several nearest high bandwidth nodes.                                   *)
(***************************************************************************)
LoadSucceeds ==
    (/\ load = "aborted" /\ answer.op = "mmap" /\ answer.kernel = "ok"
     /\ mem_type \notin NamedKinds /\ CpuNodesFirst)
        => \E cpu \in Cpu : Cardinality(Nearest(HighBandwidth(cpu), cpu)) > 1

(***************************************************************************)
(* Whoever prefers high bandwidth memory without insisting on it, through  *)
(* the hbw interface or through autohbw's default, is served on a machine  *)
(* that has none.                                                          *)
(***************************************************************************)
FallsBack == PreferredServes /\ LoadSucceeds
===============================================================================
