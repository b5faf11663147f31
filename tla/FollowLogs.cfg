SPECIFICATION FollowFairSpec
CONSTANTS
    Streams <- BothStreams
    LinesCap = 2
    MaxFrames = 3
    LongLines = TRUE
PROPERTIES
    FeedIsHonoured
    LinesAreDelivered
    EndedReturns
CHECK_DEADLOCK FALSE
