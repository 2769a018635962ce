\* Two callers racing over two short lists {1} and {2,3}.
CONSTANTS
    NumBlocks = 4
    CPUS = 2
    ReservedBlocks = 1
    Proc = {p1, p2}
    MaxRequest = 2
    MaxLost = 0
SPECIFICATION FairSpec
VIEW NamelessView
INVARIANT EnospcJustified
PROPERTY CallReturns
