CONSTANTS
    Genesis = "g"
    Null = Null
    Blocks <- MCBlocks
    nHeight <- MCHeight
    nChainWork <- MCWork
    Ancestors <- MCAncestors
    address <- MCAddress
    pprev <- Fork
    BadContent = {}
    MIN_BLOCKS_TO_KEEP = 1
    ConnectBatch = 32
    Worlds <- Operating
SPECIFICATION Spec
INVARIANTS StatusConsistent FailedBlocksMarked TipNeverFailed DirtyEntriesSuffice
           CoinsNeverAheadOfIndex CandidatesNonEmpty
CHECK_DEADLOCK FALSE
