--------------------------- MODULE MCLargeUpload ---------------------------
(***************************************************************************)
(* A small instance of LargeUpload for TLC: a file of two chunks.          *)
(***************************************************************************)
EXTENDS LargeUpload, TLC

CONSTANTS u1, u2, c1, a1, A, B, n1, n2, n3

MCNumberOf == [u \in PartUploads |-> IF u = u1 THEN 1 ELSE 2]
MCDataOf == [u \in PartUploads |-> IF u = u1 THEN A ELSE B]

MCRingRank ==
    [p \in PartNumbers |->
        [n \in Nodes |-> IF n = n1 THEN 1 ELSE IF n = n2 THEN 2 ELSE 3]]
MCRack == [n \in Nodes |-> "rack-1"]

AllRegistered == {Nodes}

NodeSymmetry == Permutations(Nodes)
=============================================================================
