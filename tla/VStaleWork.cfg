SPECIFICATION Spec
CHECK_DEADLOCK FALSE
CONSTANTS
    t1 = t1
    t2 = t2
    NoBlock = NoBlock
    Threads <- MCThreads
    MAX_AUXPOW_BLOCK_CACHE = 2
    MaxHeight = 2
    MaxBlocks = 2
    MaxFailed = 0
    MaxExtraNonce = 2
SYMMETRY Symmetry
PROPERTY NewTipWorkRemainsMineable
