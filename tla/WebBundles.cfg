SPECIFICATION FairSpec
CONSTANTS
    Order <- RemoteFirst
    Host = "core-web"
    MaxDigest = 3
    MaxMoves = 2
    MaxReverts = 1
    MaxFaults = 2
    MaxCrashes = 1
INVARIANTS
    SyncedIsWhole
    NginxHasHost
PROPERTIES
    WebRootFollows
