------------------------- MODULE MCFailureDetector -------------------------
(***************************************************************************)
(* A small instance of FailureDetector for TLC.                            *)
(***************************************************************************)
EXTENDS FailureDetector

CONSTANTS n1, loop, admin
=============================================================================
