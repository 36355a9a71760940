CONSTANTS
    PageSize = 2
    UserLo = 1
    UserHi = 6
    PNMod = 8
    MaxAreas = 3
    MaxObjs = 7
    StartBrk = 4
    MmapAddrs = {0, 6}
    MmapLens = {2, 6}
    MmapFlags <- MC_MmapFlags
    MunmapAddrs = {6, 8}
    MunmapLens = {2}
    BrkAddrs = {5, 8}
SPECIFICATION Spec
INVARIANT NoRefcountUnderflow
CHECK_DEADLOCK FALSE
