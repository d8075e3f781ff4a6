SPECIFICATION FairSpec
CONSTANTS
    a = a b = b c = c
    G = G W = W A1 = A1 A2 = A2 C2 = C2 B1 = B1
    NoBlock = NoBlock
    NullCoin = NullCoin
    Missing = Missing
    NoTask = NoTask
    Genesis = G
    Nodes = {a, b, c}
    Fresh = {c}
    Payout = {a}
    Blocks = {G, A1}
    Txs <- MCTxs
    Coins <- MCCoins
    Body <- MCBody
    Tx <- MCTx
    Value <- MCValue
    WordSize = 128
    InitialSubsidy = 8
    HalvingInterval = 4
    Maturity = 1
    TooLarge = {}
    Finder <- MCFinder
    MaxHeight = 1
    WakeSlots = 1
    MaxFaults = 0
CHECK_DEADLOCK FALSE
PROPERTY LateNodeSyncs
