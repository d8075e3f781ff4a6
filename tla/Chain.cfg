SPECIFICATION ReliableSpec
CONSTANTS
    NoBlock = NoBlock
    NullCoin = NullCoin
    Missing = Missing
    Blocks <- FullBlocks
    Txs <- MCTxs
    Coins <- MCCoins
    Body <- MCBody
    Tx <- MCTx
    Genesis = "G"
    MaxHeight = 4
    WordSize = 128
    Value <- MCValue
    Addresses <- MCAddresses
    Owner <- MCOwner
    InitialSubsidy = 16
    HalvingInterval = 2
    Maturity = 1
    Lookback = 2
    MaxUncles = 2
    Offered <- FullOffers
    MaxFaults = 0
CHECK_DEADLOCK FALSE
INVARIANTS
    TypeOK
    ChainNoDoubleSpend
    ChainSupply
    StoredIsCanonical
    UtxoIsTipView
    BalanceIsHistory
    MempoolConflictFree
    StaleOnlyByConflict
    SelectedUnclesValid
PROPERTIES
    ImplementsLedger
    FeesOnlyGrow
