----------------------------- MODULE MCHashRing -----------------------------
(***************************************************************************)
(* A small instance of HashRing for TLC: n1 is heavier than the others,    *)
(* and n4 is alone in its rack.                                            *)
(***************************************************************************)
EXTENDS HashRing

CONSTANTS n1, n2, n3, n4

MCWeight == [n \in Nodes |-> IF n = n1 THEN 2 ELSE IF n = n4 THEN 0 ELSE 1]
MCRack == [n \in Nodes |-> IF n = n4 THEN "rack-2" ELSE "rack-1"]

Alike == Permutations({n2, n3})
=============================================================================
