CONSTANTS
    MaxInFlight = 2
    MaxFrames = 4
SPECIFICATION FairSpec
INVARIANTS
    TypeOK
    SlotsExact
    ParkedIsSeen
    ForceSurvives
PROPERTIES
    ForceArrives
    ParkedIsSubmitted
CHECK_DEADLOCK FALSE
