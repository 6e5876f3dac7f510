CONSTANTS
    Faults = {"end", "cut", "silence", "stall", "backlog", "error", "throw", "config",
              "undescribed"}
    MaxFrames = 3
    MaxDecoding = 2
    MaxSeeds = 1
    MaxRecoveries = 2
    MaxConnections = 3
    MaxDescriptions = 2
    MaxWaiting = 2
SPECIFICATION FairSpec
PROPERTIES
    NothingOutlivesReconnect
    VideoInOrder
    FrozenOnlyMisframedOrUndescribed
CHECK_DEADLOCK FALSE
