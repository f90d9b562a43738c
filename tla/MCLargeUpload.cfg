\* The SDK uploads a file of two chunks to three nodes, and one blob rots before it is read.
CONSTANTS
    u1 = u1  u2 = u2  A = A  B = B  n1 = n1  n2 = n2  n3 = n3  c1 = c1  a1 = a1
    PartUploads = {u1, u2}
    Completions = {c1}
    Aborts = {a1}
    Nodes = {n1, n2, n3}
    N = 3
    W = 2
    MaxPart = 2
    NumberOf <- MCNumberOf
    DataOf <- MCDataOf
    RingRank <- MCRingRank
    Rack <- MCRack
    Rings <- AllRegistered
    Faults = {}
    ClientFaults = {}
    MaxCrashes = 0
    MaxRot = 1
    Rot = Rot
    NoFile = NoFile

SPECIFICATION SdkSpec
INVARIANTS ReturnedIsTheFile
CHECK_DEADLOCK FALSE
