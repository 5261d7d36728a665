SPECIFICATION FairSpec
CONSTANTS
    None = None
    Connects = {c1}
    Disconnects = {d1}
    UseCache = {}
    MaxTries = 1
    MaxFaults = 0
    MayOverlap <- Sequential
CHECK_DEADLOCK FALSE
PROPERTY IsConnectedRecovers
