SPECIFICATION FairSpec
CONSTANTS
    Retention = 1
    FullEvery = 2
    Folders <- SomeFolders
    Labels = 5
    MaxRepo = 2
    Limit <- Limits
    Kinds = 2
INVARIANTS
    BaseIsFresh
    InventoryIsCurrent
PROPERTIES
    EventuallyProtected
