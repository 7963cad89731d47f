CONSTANTS
    Genesis = "g"
    Null = Null
    Blocks <- MCBlocks
    nHeight <- MCHeight
    nChainWork <- MCWork
    Ancestors <- MCAncestors
    address <- MCAddress
    pprev <- Fork
    BadContent = {}
    MIN_BLOCKS_TO_KEEP = 2
    ConnectBatch = 32
    Worlds <- Steering
SPECIFICATION Spec
INVARIANTS CandidatesRepaired TipNeverFailed BestChainAtRest
PROPERTIES ForwardProgress
CHECK_DEADLOCK FALSE
