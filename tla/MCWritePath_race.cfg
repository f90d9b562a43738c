\* Two uploads of one object, with every precondition: lost and late calls, lost sidecars, rot, a restart.
CONSTANTS
    k1 = k1  v1 = v1  v2 = v2  v3 = v3  n1 = n1  n2 = n2  n3 = n3  A = A  B = B
    Keys = {k1}
    Versions = {v1, v2}
    Nodes = {n1, n2}
    N = 2
    W = 2
    KeyOf <- MCKeyOf
    ContentOf <- MCContentOf
    RingRank <- MCRingRank
    Rack <- MCRack
    NoEtag = NoEtag
    NoVersion = NoVersion
    Rot = Rot
    NoFile = NoFile
    Conditions <- EveryCondition
    Rings <- AllOrNone
    Faults = {"timeout", "offline", "sidecar", "store"}
    MaxCrashes = 1
    MaxRot = 0

SPECIFICATION Spec
SYMMETRY NodeSymmetry
INVARIANTS IInv AnswersTruthful OneLatest
PROPERTIES RegisterSpec
CHECK_DEADLOCK FALSE
