CONSTANTS
    MaxV = 3
    Names = {"a", "b"}
    DotNames = {}
    DotDotNames = {}
    NFILES = 2
    MaxFiles = 2
    Paths <- MC_Paths
    Paths2 <- MC_Paths2
    Modes <- MC_Modes
    DevIds = {"null"}
    OpenModes <- MC_RefModes
    Counts = {1}
    Offsets = {0}
    Whences = {0}
    MaxPos = 0
    DirentSize = 1
    DirentT = 2
    IntBits = 3
SPECIFICATION Spec
INVARIANT TypeOK
INVARIANT VnodeRefsExact
INVARIANT FileRefsExact
INVARIANT HeldVnodesLive
PROPERTY Dup2SameFd
