\* A scrub beside an upload and a deletion; nodes that do not answer, late calls.
CONSTANTS
    k1 = k1  v1 = v1  v2 = v2  v3 = v3  n1 = n1  n2 = n2  n3 = n3  A = A  B = B
    scrubber = scrubber
    Keys = {k1}
    Versions = {v1}
    Nodes = {n1, n2, n3}
    N = 3
    W = 2
    Agents = {scrubber}
    ScrubTask = scrubber
    MaxScrubs = 1
    NoNode = NoNode
    KeyOf <- MCKeyOf
    ContentOf <- MCContentOf
    RingRank <- MCRingRank
    Rack <- MCRack
    NoEtag = NoEtag
    NoVersion = NoVersion
    Rot = Rot
    NoFile = NoFile
    Conditions <- Unconditional
    Rings <- AnyRegistered
    Faults = {"timeout", "offline"}
    MaxCrashes = 1
    MaxRot = 2

SPECIFICATION ScrubSpec
SYMMETRY NodeSymmetry
INVARIANTS ScrubTypeOK ReportedMeansLost
PROPERTIES IntactStays RepairedIsIntact
CHECK_DEADLOCK FALSE
