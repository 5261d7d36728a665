SPECIFICATION FairSpec
CONSTANTS
    None = None
    Connects = {c1}
    Disconnects = {d1, d2}
    UseCache = {}
    MaxTries = 2
    MaxFaults = 1
    MayOverlap <- Overlapping
CHECK_DEADLOCK FALSE
INVARIANT RemoveFindsWatcher
INVARIANT RaisedClosesBus
PROPERTY CallsReturn
