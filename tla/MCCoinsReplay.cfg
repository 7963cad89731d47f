SPECIFICATION Spec
CONSTANTS
    g = g
    a1 = a1
    a2 = a2
    a3 = a3
    b2 = b2
    b3 = b3
    cb1 = cb1
    cb2 = cb2
    cb3 = cb3
    t1 = t1
    u1 = u1
    ret = ret
    Genesis = g
    Null = Null
    Spent = Spent
    NoEntry = NoEntry
    NoUndo = NoUndo
    MIN_BLOCKS_TO_KEEP = 1
    Legacy <- MCLegacy
    Blocks <- MCBlocks
    pprev <- MCpprev
    nHeight <- MCnHeight
    nChainWork <- MCnChainWork
    Ancestors <- MCAncestors
    address <- MCaddress
    Outpoints <- MCOutpoints
    vtx <- MCvtx
    CoinAt <- MCCoinAt
    Coins <- MCCoins
    Unspendable <- MCUnspendable
    Usage <- MCUsage
INVARIANTS
    TypeOK
    StoredUtxoExact
    TipUtxoExact
    NeverFails
    ReplayableWithinKeep
PROPERTY HeadsKept
