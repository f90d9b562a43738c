----------------------------- MODULE Placement -----------------------------
(***************************************************************************)
(* QuorumPolicy (vault/policy.py): how many replicas a write needs, and    *)
(* which nodes an object's replicas are placed on.                         *)
(*                                                                         *)
(* The consistent hash ring is reduced to what the policy reads of it: for *)
(* each key, the order in which the ring's clockwise walk meets the nodes. *)
(***************************************************************************)
EXTENDS VaultData, RackPlacement

CONSTANTS
    W,        \* write quorum
    RingRank  \* RingRank[k][n]: the position of n in the ring walk for k

(* config.py, validate_durability: 1 <= W <= N.                            *)
ASSUME QuorumAssumption == N \in Nat /\ W \in Nat /\ 1 <= W /\ W <= N

(* Every node has its own place in the walk of every key.                  *)
ASSUME RingAssumption ==
    /\ RingRank \in [Keys -> [Nodes -> Nat]]
    /\ \A k \in Keys : \A m, n \in Nodes :
           RingRank[k][m] = RingRank[k][n] => m = n
    /\ DOMAIN Rack = Nodes

-----------------------------------------------------------------------------
Candidates(k, eligible) == Placed(RingRank[k], eligible)

(* Mutant: the quorum is one short.                                        *)
WriteSucceedsShort(acks) == Cardinality(acks) + 1 >= W

(* check_write_success.                                                    *)
WriteSucceeds(acks) == Cardinality(acks) >= W
=============================================================================
