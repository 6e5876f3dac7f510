CONSTANTS
    Devices = {d1, d2}
    NoDevice = NoDevice
    Commands = {c1, c2}
    Ops = {"detach", "follow", "kill", "killAll"}
    MaxPid = 3
    MaxBegun = 3
    MaxFaults = 1
SPECIFICATION Spec
SYMMETRY Symmetry
INVARIANTS SequentialNeverOrphans
PROPERTIES OneHelperAfterStart StartsSpareOthers
CHECK_DEADLOCK FALSE
