---------------------------- MODULE MCMultipart ----------------------------
(***************************************************************************)
(* A small instance of Multipart for TLC: the first two calls upload the   *)
(* same part, with different bytes.                                        *)
(***************************************************************************)
EXTENDS Multipart

CONSTANTS u1, u2, u3, c1, c2, a1, A, B, C, n1

MCNumberOf == [u \in PartUploads |-> IF u = u3 THEN 2 ELSE 1]
MCDataOf == [u \in PartUploads |-> IF u = u1 THEN A ELSE IF u = u2 THEN B ELSE C]

MCRingRank == [p \in PartNumbers |-> [n \in Nodes |-> 1]]
MCRack == [n \in Nodes |-> "rack-1"]

AllRegistered == {Nodes}
=============================================================================
