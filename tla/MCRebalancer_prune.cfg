\* The plan wants two other nodes, and one of the two copies is refused.
CONSTANTS
    k1 = k1  v1 = v1  v2 = v2  v3 = v3  n1 = n1  n2 = n2  n3 = n3  A = A  B = B
    rebalancer = rebalancer  n4 = n4
    Keys = {k1}
    Versions = {v1}
    Nodes = {n1, n2, n3, n4}
    N = 2
    W = 2
    Agents = {rebalancer}
    RebalanceTask = rebalancer
    MaxRebalances = 1
    LateCalls = FALSE
    NoNode = NoNode
    KeyOf <- MCKeyOf
    ContentOf <- MCContentOf
    RingRank <- MCJoinRank
    Rack <- MCOneRack
    NoEtag = NoEtag
    NoVersion = NoVersion
    Rot = Rot
    NoFile = NoFile
    Conditions <- Unconditional
    Rings <- AllRegistered
    Faults = {"full"}
    MaxCrashes = 0
    MaxRot = 0

SPECIFICATION RebalanceSpec
INVARIANTS PrunesAreSafe
CHECK_DEADLOCK FALSE
