SPECIFICATION TailsFairSpec
CONSTANTS
    Targets <- OneTarget
    MaxTails = 2
    LinesCap = 1
    BatchMax = 2
    MaxCommands = 1
    MaxLines = 3
    MayFail = TRUE
INVARIANTS
    RegisteredIsLive
    StopCutsNothing
PROPERTIES
    StoppedEnds
    WatchedIsTailed
CHECK_DEADLOCK FALSE
