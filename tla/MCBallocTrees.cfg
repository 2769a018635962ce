\* One caller, two lists of blocks {1,2} and {3,4,5} and a remainder {6}.
CONSTANTS
    NumBlocks = 7
    CPUS = 2
    ReservedBlocks = 1
    Proc = {p1}
    MaxRequest = 2
    MaxLost = 1
VIEW NamelessView
SPECIFICATION Spec
INVARIANTS
    TypeOK
    BlocksAccounted
    CountersExact
    PointersLive
    Coalesced
PROPERTY
    PoolImplemented
