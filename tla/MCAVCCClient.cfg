CONSTANTS
    Limit = 4
    MaxChunk = 5
    Sizes <- MCSizes
    MaxRef = 5
    MaxSession = 2
SPECIFICATION FairSpec
INVARIANTS
    TypeOK
    QueueBounded
    BytesAccounted
    NoLostWakeup
    GapIsRequested
    InFlightDecodable
    Converged
PROPERTIES
    ViewerDecodes
    CloseEndsWriter
