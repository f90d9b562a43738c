\* Two uploads of part 1 and one of part 2, two completions and an abortion.
CONSTANTS
    u1 = u1  u2 = u2  u3 = u3  A = A  B = B  C = C  n1 = n1
    c1 = c1  c2 = c2  a1 = a1
    PartUploads = {u1, u2, u3}
    Completions = {c1, c2}
    Aborts = {a1}
    Nodes = {n1}
    N = 1
    W = 1
    MaxPart = 2
    NumberOf <- MCNumberOf
    DataOf <- MCDataOf
    RingRank <- MCRingRank
    Rack <- MCRack
    Rings <- AllRegistered
    Faults = {"late", "refused", "put", "store"}
    MaxCrashes = 1
    Rot = Rot
    NoFile = NoFile

SPECIFICATION MultipartSpec
INVARIANTS PartsInv RecordedPartsHeld UnreadableMeansEnded
PROPERTIES AssembledInOrder
CHECK_DEADLOCK FALSE
