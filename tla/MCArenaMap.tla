----------------------------- MODULE MCArenaMap -----------------------------
(* An instance of ArenaMap: one predefined kind and two dynamic ones.      *)
EXTENDS ArenaMap

CONSTANTS s1, d1, d2

MCKind == {s1, d1, d2}
MCStatic == {s1}

Len2 == [k \in MCKind |-> 2]
=============================================================================
