CONSTANTS
    t1 = t1
    t2 = t2
    Threads <- MCThreads
    BLOCKS_MAX = 2
    InodePages = {0}
    HZ = 1
    MAX_ENDURANCE = 6
    EXPECT_L_S = 4
    DEVIATION_HIGH = 2
    Word = 16
    MaxWrites = 6
    MaxJiffies = 2
    MaxFaults = 1
SPECIFICATION UsedSpec
SYMMETRY Symmetry
CHECK_DEADLOCK FALSE
INVARIANTS
    AverageTracks
    RecordedOnce
    
    SpaceOnce
PROPERTY ModeCycle
