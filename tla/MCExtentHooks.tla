---------------------------- MODULE MCExtentHooks ----------------------------
(* A small instance of ExtentHooks: files of two pages, with a limit and *)
(* a file system that are reached; an address space of a few pages for the *)
(* anonymous extents of two threads; and an area that does not start at a  *)
(* multiple of the larger alignments, with requests up to the ones whose   *)
(* sum is just below the wrap.                                             *)
EXTENDS ExtentHooks, TLC

CONSTANTS t1, t2

Threads == {t1, t2}

Symmetric == Permutations(Threads)

Sizes == {1, 2, 3, 28}
=============================================================================
