SPECIFICATION Spec
CONSTANTS
    p1 = p1
    a = a
    b = b
    n2 = n2
    Procs = {p1}
    Names <- MCNames
    IdOf <- MCIdOf
    MaxIf = 2
    MaxPort = 1
    MaxBorn = 2
    RcvBuf = 1
    SetCmd = "new"
    MaxFaults = 1
    NoVport = NoVport
    NoName = NoName
SYMMETRY Symmetry
INVARIANTS TypeOK ListComplete DatapathMeant DeletesNamed Mirror
CHECK_DEADLOCK FALSE
