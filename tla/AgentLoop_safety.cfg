SPECIFICATION Spec
CONSTANTS
    Configs <- SafetyConfigs
    Absent = Absent
    MaxGen = 2
    StreamCap = 2
    RecreateCap = 8
    BackupCap = 1
    Commands <- CommandKinds
    RecreateTargets <- CoreServer
    Limit <- SafetyLimit
    Kinds = 2
    CloudEnforcesStop = TRUE
INVARIANTS
    NoReconcileWhileRestoring
    RestoringIsQueued
    StoppedIsDown
    SchemaCoversApps
    HonestStatus
    RecreateKept
PROPERTIES
    FinalBackupBeforeTeardown
