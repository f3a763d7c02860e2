SPECIFICATION FairSpec
CONSTANTS
    Base = 8
    Width = 2
    Block = 8
    Buf = 4
    Frames <- MCFrames
INVARIANTS TypeOK NothingFalse WholeWhenClean UnderstoodWhenClean
PROPERTY Returns
CHECK_DEADLOCK FALSE
