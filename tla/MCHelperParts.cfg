SPECIFICATION PartsSpec
CONSTANTS
    Modes = {"perf", "quality"}
    Sizes = {8, 12}
    Least <- MCLeast
    Most <- MCMost
    MaxSwitches = 2
    Idle = Idle
    Callers = {c1, c2}
    MaxRevision = 4
    Ring = 3
    MaxSeq = 4
    MaxHeld = 1
    Sources = {"image", "video"}
    Readers = {"pump", "photo"}
    LateFrames = FALSE
    Panels = {1, 3}
    MaxSeed = 2
    MaxTurns = 4
    First = 1
    MaxChanges = 2
INVARIANTS
    PartsTypeOK
    RateInBounds
    PendingIsSeen
    StreamedWhole
PROPERTIES
    EncoderFollows
    NewestComposed
    PanelsCatchUp
    DisplaySettles
CHECK_DEADLOCK FALSE
