SPECIFICATION Spec
CONSTANTS
    None = None
    Connects = {c1, c2}
    Disconnects = {d1}
    Starts = {n1}
    Requests = {r1}
    Cancellable = {}
    Pairing = {c2}
    Services = {s1, s2}
    MaxRetries = 1
    MaxDrops = 1
CHECK_DEADLOCK FALSE
INVARIANT FreshServices
