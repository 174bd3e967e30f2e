SPECIFICATION Spec
CONSTANTS
    SeqMod = 6
    MaxItems = 2
    MaxSends = 4
    MaxStray = 0
INVARIANT RequestAnswered
CHECK_DEADLOCK FALSE
