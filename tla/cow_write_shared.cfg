CONSTANTS
    p0 = p0
    p1 = p1
    p2 = p2
    p3 = p3
    Procs <- MC_Procs
    Init0 = p0
    NAreas = 1
    Values = {1, 2}
    Zero = 0
    MaxObjs = 7
    MaxThreads = 3
    MaxVmas = 3
    Gap = 0
    ForkMode = "clone"
SPECIFICATION Spec
PROPERTY PrivateMemRefinement
CHECK_DEADLOCK FALSE
