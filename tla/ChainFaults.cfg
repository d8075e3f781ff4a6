SPECIFICATION Spec
CONSTANTS
    NoBlock = NoBlock
    NullCoin = NullCoin
    Missing = Missing
    Blocks <- PlainBlocks
    Txs <- MCTxs
    Coins <- MCCoins
    Body <- MCBody
    Tx <- MCTx
    Genesis = "G"
    MaxHeight = 4
    WordSize = 128
    Value <- MCValue
    Addresses <- MCAddresses
    Owner <- MCOwner
    InitialSubsidy = 16
    HalvingInterval = 2
    Maturity = 1
    Lookback = 2
    MaxUncles = 2
    Offered <- PlainOffers
    MaxFaults = 2
CHECK_DEADLOCK FALSE
INVARIANTS
    ChainLinked
    OrphansStayOff
    UncleOnce
PROPERTIES
    HistoryFixed
