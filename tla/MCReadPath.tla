----------------------------- MODULE MCReadPath -----------------------------
(***************************************************************************)
(* Small instances of ReadPath for TLC.                                    *)
(***************************************************************************)
EXTENDS MCWritePath, ReadPath

CONSTANTS r1, r2

ReadSymmetry == Permutations(Nodes) \cup Permutations(Reads)
=============================================================================
