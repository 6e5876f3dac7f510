CONSTANTS
    Depth = 1
    SilentLimit = 2
    MaxChanges = 1
    MaxSession = 4
    Resizes = {2}
    Faults = {}
SPECIFICATION FairSpec
PROPERTIES
    ViewerStartsDecoding
CHECK_DEADLOCK FALSE
