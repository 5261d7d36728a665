SPECIFICATION Spec
CONSTANTS
    None = None
    Connects = {c1, c2}
    Disconnects = {d1, d2}
    Starts = {n1}
    Requests = {r1}
    Cancellable = {c2, d1, d2}
    Pairing = {c2}
    Services = {s1, s2}
    MaxRetries = 1
    MaxDrops = 1
SYMMETRY Symmetry
CHECK_DEADLOCK FALSE
INVARIANT NothingStranded
INVARIANT LossReported
INVARIANT NotifyTracked
PROPERTY SessionsInTurn
