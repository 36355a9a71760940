CONSTANTS
    N = 4
    Letters <- MC_Letters
    Keys <- KeysAll
    Counts = {1, 2}
    Readers = {r1, r2}
    InitMode = "test_reset"
SPECIFICATION Spec
INVARIANT CookedEndsWithTerminator
