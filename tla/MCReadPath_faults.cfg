\* A read and its repair beside an upload and a deletion, with every fault.
CONSTANTS
    k1 = k1  v1 = v1  v2 = v2  v3 = v3  n1 = n1  n2 = n2  n3 = n3  A = A  B = B
    r1 = r1  r2 = r2
    Keys = {k1}
    Versions = {v1}
    Nodes = {n1, n2, n3}
    N = 3
    W = 2
    Reads = {r1}
    Agents = {r1}
    NoNode = NoNode
    KeyOf <- MCKeyOf
    ContentOf <- MCContentOf
    RingRank <- MCRingRank
    Rack <- MCRack
    NoEtag = NoEtag
    NoVersion = NoVersion
    Rot = Rot
    NoFile = NoFile
    Conditions <- Unconditional
    Rings <- AnyRegistered
    Faults = {"timeout", "offline", "full", "sidecar", "store"}
    MaxCrashes = 1
    MaxRot = 2

SPECIFICATION ReadSpec
SYMMETRY NodeSymmetry
INVARIANTS ReadTypeOK TypeOK CommittedDurable
CHECK_DEADLOCK FALSE
