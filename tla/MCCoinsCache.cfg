SPECIFICATION Spec
CONSTANTS
    o1 = o1
    o2 = o2
    small = small
    large = large
    opreturn = opreturn
    b1 = b1
    b2 = b2
    Spent = Spent
    NoEntry = NoEntry
    Null = Null
    Outpoints <- MCOutpoints
    Coins <- MCCoins
    Unspendable <- MCUnspendable
    Blocks <- MCBlocks
    Usage <- MCUsage
SYMMETRY Symmetry
INVARIANTS
    TypeOK
    FlagsSound
    SanityCheck
    UsageExact
    NoLogicError
PROPERTIES LedgerSpec HousekeepingInvisible
