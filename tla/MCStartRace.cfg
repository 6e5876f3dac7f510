CONSTANTS
    Devices = {d1}
    NoDevice = NoDevice
    Commands = {c1, c2}
    Ops = {"detach"}
    MaxPid = 3
    MaxBegun = 2
    MaxFaults = 0
SPECIFICATION Spec
PROPERTY LiveHelperNotReaped
CHECK_DEADLOCK FALSE
