\* Nodes may fail an upload, and every call is answered.
CONSTANTS
    k1 = k1  v1 = v1  v2 = v2  v3 = v3  n1 = n1  n2 = n2  n3 = n3  A = A  B = B
    Keys = {k1}
    Versions = {v1, v2}
    Nodes = {n1, n2, n3}
    N = 3
    W = 2
    KeyOf <- MCKeyOf
    ContentOf <- MCContentOf
    RingRank <- MCRingRank
    Rack <- MCRack
    NoEtag = NoEtag
    NoVersion = NoVersion
    Rot = Rot
    NoFile = NoFile
    Conditions <- PlainOrCreate
    Rings <- AllRegistered
    Faults = {"full"}
    MaxCrashes = 0
    MaxRot = 1

SPECIFICATION FairSpec
INVARIANTS FailedPutLeavesNothing
PROPERTIES PutAnswered DeadBlobsCollected
CHECK_DEADLOCK FALSE
