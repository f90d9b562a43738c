\* Two reads of one version; rot reaches both files, no call fails.
CONSTANTS
    k1 = k1  v1 = v1  v2 = v2  v3 = v3  n1 = n1  n2 = n2  n3 = n3  A = A  B = B
    r1 = r1  r2 = r2
    Keys = {k1}
    Versions = {v1}
    Nodes = {n1, n2}
    N = 2
    W = 2
    Reads = {r1, r2}
    Agents = {r1, r2}
    NoNode = NoNode
    KeyOf <- MCKeyOf
    ContentOf <- MCContentOf
    RingRank <- MCRingRank
    Rack <- MCRack
    NoEtag = NoEtag
    NoVersion = NoVersion
    Rot = Rot
    NoFile = NoFile
    Conditions <- Unconditional
    Rings <- AllRegistered
    Faults = {"store"}
    MaxCrashes = 0
    MaxRot = 2

SPECIFICATION FairReadSpec
INVARIANTS FullReadsExact UnrecoverableMeansLost CopiesVerified ServedReadHeals
PROPERTIES ReadAnswered
CHECK_DEADLOCK FALSE
