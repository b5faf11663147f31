SPECIFICATION FairSpec
CONSTANTS
    MaxTokens = 6
    MaxFaults = 2
    MaxCuts = 1
    MaxCrashes = 2
    MaxWipes = 1
    MaxRestores = 1
INVARIANTS
    TokenWorks
PROPERTIES
    CoreIsConnected
