\* Four nodes with five tokens, under every hash, collisions included.
CONSTANTS
    n1 = n1  n2 = n2  n3 = n3  n4 = n4
    Nodes = {n1, n2, n3, n4}
    Weight <- MCWeight
    Rack <- MCRack
    VNodes = 1
    Space = 5
    N = 2
    MaxRing = 5
    NoNode = NoNode

SPECIFICATION RingSpec
INVARIANTS RingInv LookupsNameMembers PlacementAsDefined RacksSpread
    MinimalRedistribution
SYMMETRY Alike
CHECK_DEADLOCK FALSE
