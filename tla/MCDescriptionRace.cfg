CONSTANTS
    Depth = 2
    SilentLimit = 2
    MaxChanges = 1
    MaxSession = 4
    Resizes = {2}
    Faults = {}
SPECIFICATION Spec
INVARIANTS
    DecoderMatchesSession
CHECK_DEADLOCK FALSE
