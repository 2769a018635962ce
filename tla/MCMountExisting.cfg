CONSTANTS
    CPUS = 2
    NumBlocks = 14
    Reserved = 1
    MaxInternal = 3
    RANGENODE_PER_PAGE = 2
    MaxBoots = 3
SPECIFICATION Spec
CHECK_DEADLOCK FALSE
INVARIANT MountReturns
