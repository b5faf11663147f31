SPECIFICATION FairSpec
CONSTANTS
    None = None
    Bases <- TwoBases
    MaxOrders = 7
    MaxFaults = 2
    MaxCrashes = 1
    MaxRebases = 2
    MaxExpiries = 1
    MaxDiskFaults = 1
INVARIANTS
    PairMatches
    ConfIsServed
    OrdersArePrepared
PROPERTIES
    EdgeIsServed
