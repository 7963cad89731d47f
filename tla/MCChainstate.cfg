CONSTANTS
    Genesis = "g"
    Null = Null
    Blocks <- MCBlocks
    nHeight <- MCHeight
    nChainWork <- MCWork
    Ancestors <- MCAncestors
    address <- MCAddress
    pprev <- Race
    BadContent = {"x2"}
    MIN_BLOCKS_TO_KEEP = 2
    ConnectBatch = 2
    Worlds <- Arrivals
SPECIFICATION FairSpec
INVARIANTS TypeOK StatusConsistent LinkedExact CandidatesExact UnlinkedExact BestChainAtRest
PROPERTIES ForwardProgress ReachesBestChain
CHECK_DEADLOCK FALSE
