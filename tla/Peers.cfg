SPECIFICATION FairSpec
CONSTANTS
    a = a
    b = b
    Duck = Duck
    DuckId = DuckId
    AddrA = AddrA
    Loopback = Loopback
    Nodes <- MCNodes
    Addrs <- MCAddrs
    DuckDns <- MCDuckDns
    Bootstrap = Duck
    Owner <- MCOwner
    Undialable <- MCUndialable
    Listen <- MCListen
    Endpoint <- MCEndpoint
    WithPeer <- MCWithPeer
    Shipped <- MCShipped
    MaxTime = 1
    MaxFaults = 1
    NoFile = NoFile
    Torn = Torn
CHECK_DEADLOCK FALSE
INVARIANTS
    TypeOK
    EntriesSaved
PROPERTY
    PoolsConverge
