CONSTANTS
    Genesis = "g"
    Null = Null
    Blocks <- MCBlocks
    nHeight <- MCHeight
    nChainWork <- MCWork
    Ancestors <- MCAncestors
    address <- MCAddress
    pprev <- Fork
    BadContent = {}
    MIN_BLOCKS_TO_KEEP = 2
    ConnectBatch = 32
    Worlds <- Reconsidering
SPECIFICATION Spec
INVARIANTS BestChainAtRest
CHECK_DEADLOCK FALSE
