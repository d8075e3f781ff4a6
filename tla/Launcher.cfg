SPECIFICATION FairSpec
CONSTANTS
    w1 = w1 w2 = w2
    NoAddress = NoAddress
    Addresses = {w1, w2}
    MaxTip = 1
    MaxFaults = 1
INVARIANTS
    TypeOK
    RefusedOnlyByOthers
    OnlineMinesForWallet
    PhraseNotKept
PROPERTIES
    NodeComesBack
    ShownCatchesUp
