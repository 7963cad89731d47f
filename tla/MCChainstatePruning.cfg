CONSTANTS
    Genesis = "g"
    Null = Null
    Blocks <- MCBlocks
    nHeight <- MCHeight
    nChainWork <- MCWork
    Ancestors <- MCAncestors
    address <- MCAddress
    pprev <- Outgrown
    BadContent = {}
    MIN_BLOCKS_TO_KEEP = 1
    ConnectBatch = 32
    Worlds <- Pruning
SPECIFICATION Spec
INVARIANTS CandidatesExact UnlinkedOnce
PROPERTIES AbortOnlyOnDeepReorg CandidateKeyStable
CHECK_DEADLOCK FALSE
