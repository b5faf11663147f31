SPECIFICATION FairSpec
CONSTANTS
    MaxTokens = 6
    MaxKeys = 7
    Limit <- MCLimit
INVARIANTS
    CredentialFitsKeys
    BoundKeysAreKept
PROPERTIES
    ComesUp
CHECK_DEADLOCK FALSE
