CONSTANTS
    p0 = p0
    p1 = p1
    p2 = p2
    p3 = p3
    Procs <- MC_Procs4
    Init0 = p0
    NAreas = 2
    Values = {1}
    Zero = 0
    MaxObjs = 13
    MaxThreads = 3
    MaxVmas = 5
    Gap = 1
    ForkMode = "clone"
SPECIFICATION Spec
INVARIANT RefcountsExact
INVARIANT ChainsEndAtBottom
INVARIANT ThreadsMatchProcs
PROPERTY ForkAtomic
CHECK_DEADLOCK FALSE
