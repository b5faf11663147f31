SPECIFICATION Spec
CONSTANTS
    Configs <- CrashConfigs
    Absent = Absent
    MaxGen = 3
    StreamCap = 2
    RecreateCap = 8
    BackupCap = 1
    Commands <- Restores
    RecreateTargets <- None
    Limit <- CrashLimit
    Kinds = 6
    CloudEnforcesStop = TRUE
INVARIANTS
    RestoreAlone
