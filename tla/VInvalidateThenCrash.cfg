CONSTANTS
    Genesis = "g"
    Null = Null
    Blocks <- MCBlocks
    nHeight <- MCHeight
    nChainWork <- MCWork
    Ancestors <- MCAncestors
    address <- MCAddress
    pprev <- Line
    BadContent = {}
    MIN_BLOCKS_TO_KEEP = 2
    ConnectBatch = 32
    Worlds <- InvalidateAndCrash
SPECIFICATION Spec
INVARIANTS CandidatesNonEmpty
CHECK_DEADLOCK FALSE
