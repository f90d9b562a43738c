--------------------------- MODULE RackPlacement ---------------------------
(***************************************************************************)
(* QuorumPolicy.compute_placement (vault/policy.py): which of the eligible *)
(* nodes an object's replicas are placed on, given the order in which the  *)
(* ring's clockwise walk meets the nodes.                                  *)
(***************************************************************************)
EXTENDS Naturals, FiniteSets

CONSTANTS
    N,     \* replication factor
    Rack   \* Rack[n]: the failure domain of n

(* The members of S that the walk meets before n.                          *)
Before(rank, S, n) == {m \in S : rank[m] < rank[n]}

(* The first `count` members of S in the walk.                             *)
FirstOf(rank, S, count) == {n \in S : Cardinality(Before(rank, S, n)) < count}

(* The first node of each rack.                                            *)
Leaders(rank, S) == {n \in S : \A m \in Before(rank, S, n) : Rack[m] # Rack[n]}

(* compute_placement over the eligible ring nodes: the first node of each  *)
(* rack in ring order, up to N of them; then, while fewer than N are       *)
(* chosen, the nodes passed over, in ring order.  With N or fewer eligible *)
(* nodes all of them are chosen, which is the code's early return.         *)
Placed(rank, eligible) ==
    LET chosen == FirstOf(rank, Leaders(rank, eligible), N)
    IN  chosen \cup FirstOf(rank, eligible \ chosen, N - Cardinality(chosen))
=============================================================================
