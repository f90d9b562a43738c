------------------------------ MODULE MCClient ------------------------------
(***************************************************************************)
(* A small instance of Client for TLC: four keys, of which the middle two  *)
(* share a common prefix; the first can be updated more than once.         *)
(***************************************************************************)
EXTENDS Client

CONSTANTS a1, b1, a2, x, y, z, c1, photos

MCKeyOf == [v \in Versions |->
              CASE v = x -> 2 [] v = y -> 3 [] v = z -> 4 [] OTHER -> 1]
MCCount == [v \in Versions |-> IF v = a2 THEN 2 ELSE 1]
MCFolderOf == [k \in Keys |-> IF k \in {2, 3} THEN photos ELSE NoFolder]
=============================================================================
