SPECIFICATION FairSpec
CONSTANTS
    Specs = {1, 2}
    Absent = Absent
    MaxDigest = 2
    Limit <- MCLimit
PROPERTIES
    PromiseIsKept
    RecreateIsFresh
    OldOutlivesPull
    EventuallyUp
