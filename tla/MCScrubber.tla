----------------------------- MODULE MCScrubber -----------------------------
(***************************************************************************)
(* Small instances of Scrubber for TLC.                                    *)
(***************************************************************************)
EXTENDS MCWritePath, Scrubber

CONSTANT scrubber
=============================================================================
