---------------------------- MODULE MCWritePath ----------------------------
(***************************************************************************)
(* Small instances of WritePath for TLC.                                   *)
(***************************************************************************)
EXTENDS WritePath, TLC

CONSTANTS k1, v1, v2, v3, n1, n2, n3, A, B

(* All versions are of one object; the third repeats the first's content.  *)
MCKeyOf == [v \in Versions |-> k1]
MCContentOf == [v \in Versions |-> IF v = v2 THEN B ELSE A]

(* With no more nodes than N, placement does not depend on the ring order. *)
MCRingRank == [k \in Keys |->
                 [n \in Nodes |-> IF n = n1 THEN 1 ELSE IF n = n2 THEN 2 ELSE 3]]
MCRack == [n \in Nodes |-> IF n = n2 THEN "rack-1" ELSE "rack-2"]

AllRegistered == {Nodes}
AnyRegistered == SUBSET Nodes
AllOrNone == {Nodes, {}}

Create == [NoCond EXCEPT !.ifNoneMatch = TRUE]
Update(content) == [NoCond EXCEPT !.ifMatch = content]

Unconditional == {NoCond}
PlainOrCreate == {NoCond, Create}
EveryCondition == {NoCond, Create, Update(A), Update(B)}

NodeSymmetry == Permutations(Nodes)
=============================================================================
