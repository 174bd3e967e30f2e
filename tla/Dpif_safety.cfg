SPECIFICATION Spec
CONSTANTS
    p1 = p1
    p2 = p2
    Procs <- MCProcs
    MaxFd = 3
    FamilyCount = 2
    MaxFaults = 1
SYMMETRY Symmetry
INVARIANTS TypeOK Owned UnavailableSound ReadsOwn
CHECK_DEADLOCK FALSE
