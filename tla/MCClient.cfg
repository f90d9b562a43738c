\* A caller and a pager with pages of one row.
CONSTANTS
    a1 = a1  b1 = b1  a2 = a2  x = x  y = y  z = z  c1 = c1  photos = photos
    Keys = {1, 2, 3, 4}
    Versions = {a1, b1, a2, x, y, z}
    KeyOf <- MCKeyOf
    Count <- MCCount
    Callers = {c1}
    Shared = {1}
    Matching = {1, 2, 3, 4}
    FolderOf <- MCFolderOf
    NoFolder = NoFolder
    Limit = 1
    NoVersion = NoVersion
    NoEtag = NoEtag

SPECIFICATION ClientSpec
INVARIANTS ClientTypeOK NoLostUpdate ListedInOrder ListingComplete
PROPERTIES ListingEnds
CHECK_DEADLOCK FALSE
