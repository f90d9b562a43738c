---------------------------- MODULE MCRebalancer ----------------------------
(***************************************************************************)
(* Small instances of Rebalancer for TLC.                                  *)
(***************************************************************************)
EXTENDS MCWritePath, Rebalancer

CONSTANTS rebalancer, n4

(* The ring meets the nodes that join last before the ones there are.      *)
MCJoinRank == [k \in Keys |->
                 [n \in Nodes |-> IF n = n4 THEN 1 ELSE IF n = n3 THEN 2
                                  ELSE IF n = n2 THEN 3 ELSE 4]]
MCOneRack == [n \in Nodes |-> "rack-1"]

(* One node is replaced by two, so that an object may move off both.       *)
TwoJoin == {{n1, n2}, {n1, n3, n4}, Nodes}
=============================================================================
