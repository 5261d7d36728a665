SPECIFICATION FairSpec
CONSTANTS
    None = None
    a1 = a1
    a2 = a2
    p1 = p1
    d1 = d1
    Scanners <- AllThree
    Passive <- PassiveOne
    Stoppers = {1}
    MaxStarts <- P1Again
    MaxPower = 1
    MaxCancels = 1
    Devices = {d1}
    Accepted <- P1Sees
    MaxForgotten = 1
CHECK_DEADLOCK FALSE
INVARIANT ScansOwned
INVARIANT SeenIsKnown
INVARIANT CallbacksOwned
PROPERTY ScanCallsReturn
