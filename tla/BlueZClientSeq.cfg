SPECIFICATION Spec
CONSTANTS
    None = None
    Connects = {c1, c2}
    Disconnects = {d1, d2}
    UseCache = {c2}
    MaxTries = 2
    MaxFaults = 1
    MayOverlap <- Sequential
CHECK_DEADLOCK FALSE
INVARIANT SessionInv
PROPERTY SessionsInTurn
PROPERTY DisconnectSettled
SYMMETRY DisconnectSymmetry
PROPERTY LossReported
