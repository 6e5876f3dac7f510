CONSTANTS
    Depth = 2
    SilentLimit = 2
    MaxChanges = 1
    MaxSession = 4
    Resizes = {2}
    Faults = {"snapshot", "submit", "session", "extract"}
SPECIFICATION FairSpec
PROPERTIES
    KeyframeRecovered
CHECK_DEADLOCK FALSE
