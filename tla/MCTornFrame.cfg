CONSTANTS
    Ring = 4
    MaxSeq = 6
    MaxHeld = 2
    Sources = {"placeholder", "image"}
    Readers = {"pump"}
    LateFrames = TRUE
SPECIFICATION Spec
INVARIANT StreamedWhole
CHECK_DEADLOCK FALSE
