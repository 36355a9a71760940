CONSTANTS
    MaxV = 2
    Names = {"a"}
    DotNames = {}
    DotDotNames = {}
    NFILES = 2
    MaxFiles = 2
    Paths <- MC_IOPaths
    Paths2 <- MC_Paths2
    Modes <- MC_IOModes
    DevIds = {"null", "zero"}
    OpenModes <- MC_OpenModes
    Counts = {1, 2}
    Offsets <- MC_Offsets
    Whences <- MC_Whences
    MaxPos = 4
    DirentSize = 1
    DirentT = 2
    IntBits = 3
SPECIFICATION IOSpec
INVARIANT FileRefsExact
PROPERTY PosAdvance
PROPERTY LseekSound
