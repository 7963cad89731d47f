CONSTANTS
    Genesis = "g"
    Null = Null
    Blocks <- MCBlocks
    nHeight <- MCHeight
    nChainWork <- MCWork
    Ancestors <- MCAncestors
    address <- MCAddress
    pprev <- Fork
    BadContent = {}
    MIN_BLOCKS_TO_KEEP = 2
    ConnectBatch = 32
    Worlds <- Invalidating
SPECIFICATION Spec
INVARIANTS ChildrenMarkedAsChild
CHECK_DEADLOCK FALSE
