SPECIFICATION Spec
CONSTANTS
    a = a b = b c = c
    G = G W = W A1 = A1 A2 = A2 C2 = C2 B1 = B1
    NoBlock = NoBlock
    NullCoin = NullCoin
    Missing = Missing
    NoTask = NoTask
    Genesis = G
    Nodes = {a, b}
    Fresh = {b}
    Payout = {a, b}
    Blocks = {G, A1, C2, B1}
    Txs <- MCTxs
    Coins <- MCCoins
    Body <- MCBody
    Tx <- MCTx
    Value <- MCValue
    WordSize = 128
    InitialSubsidy = 8
    HalvingInterval = 4
    Maturity = 1
    TooLarge = {}
    Finder <- MCFinder
    MaxHeight = 2
    WakeSlots = 1
    MaxFaults = 0
CHECK_DEADLOCK FALSE
INVARIANTS
    MinesOnTip
    LeftoversBounded
PROPERTIES
    AbortWakes
