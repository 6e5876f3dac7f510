CONSTANTS
    Faults = {"end", "cut"}
    MaxFrames = 2
    MaxDecoding = 2
    MaxSeeds = 1
    MaxRecoveries = 1
    MaxConnections = 2
    MaxDescriptions = 1
    MaxWaiting = 2
SPECIFICATION FairSpec
PROPERTIES
    StreamRecovers
CHECK_DEADLOCK FALSE
