---------------------------- MODULE MCThreadCaches ----------------------------
(***************************************************************************)
(* Two threads, two static kinds and a dynamic one.                        *)
(***************************************************************************)
EXTENDS ThreadCaches

CONSTANTS t1, t2, a1, a2, b1, d1, a, b, d

MCKindOf == [x \in Block |->
                CASE x \in {a1, a2} -> a
                  [] x = b1 -> b
                  [] x = d1 -> d]
===============================================================================
