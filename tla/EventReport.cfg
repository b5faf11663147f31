SPECIFICATION FairSpec
CONSTANTS
    Errors = {e1}
    Forged = forged
    NoError = NoError
    Progress <- TheProgress
    Cap = 4
    Histories <- TheHistories
    MaxEvents = 5
    Limit <- TheLimit
    Kinds = 1
INVARIANTS
    NothingIsSkipped
    OnlyLostAnswersRepeat
    StatusIsExplained
    FailuresBackOff
PROPERTIES
    EventsArrive
