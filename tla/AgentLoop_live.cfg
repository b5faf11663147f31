SPECIFICATION FairSpec
CONSTANTS
    Configs <- LiveConfigs
    Absent = Absent
    MaxGen = 2
    StreamCap = 2
    RecreateCap = 8
    BackupCap = 1
    Commands <- Restores
    RecreateTargets <- None
    Limit <- LiveLimit
    Kinds = 2
    CloudEnforcesStop = TRUE
PROPERTIES
    RestoreEnds
    EventuallyInSync
