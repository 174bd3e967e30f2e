SPECIFICATION FairSpec
CONSTANTS
    SeqMod = 6
    MaxItems = 3
    MaxSends = 5
    MaxStray = 1
INVARIANTS TypeOK OwnReply DumpComplete NeverBlocks Resync RequestSound
PROPERTY Implements
CHECK_DEADLOCK FALSE
