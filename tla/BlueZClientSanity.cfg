SPECIFICATION Spec
CONSTANTS
    None = None
    Connects = {c1}
    Disconnects = {d1}
    UseCache = {}
    MaxTries = 1
    MaxFaults = 1
    MayOverlap <- Sequential
CHECK_DEADLOCK FALSE
INVARIANT DisconnectSanity
