SPECIFICATION PartsSpec
CONSTANTS
    Channels = {"touch"}
    MaxEvents = 5
    Execs = {"e1", "e2"}
    Files = {"f1"}
    Commands = {c1, c2}
    Statuses = {s1, s2}
    MaxAngles = 3
    Nobody = Nobody
    Helpers = {1, 2, 3, 4, 5, 6, 7}
    MaxDeaths = 1
    MaxDrops = 1
    MaxBoots = 2
    MaxStrays = 2
    Devices = {a, b}
    First = a
    MaxAsks = 4
    Requests = {r1, r2}
    MaxRestarts = 1
    Values = {"light", "dark"}
    Opposite <- MCOpposite
    Default = "light"
    MaxClicks = 2
    MaxMounts = 2
    MaxPresses = 1
    MaxReads = 1
    MaxRecorders = 2
    MaxSequence = 3
    MaxSession = 2
    Descriptions = {1, 2}
INVARIANTS
    PartsTypeOK
    WireInOrder
    LatestAngleLands
    UrlAgreesUnlessRefused
    LastSetLands
    ExportsDecodable
PROPERTIES
    CallsSettle
    ComesBack
    StopEnds
    OnlyRefreshStalls
CHECK_DEADLOCK FALSE
