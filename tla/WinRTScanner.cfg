SPECIFICATION FairScanSpec
CONSTANTS
    None = None
    f = f
    s1 = s1
    p1 = p1
    d1 = d1
    d2 = d2
    Users <- AllUsers
    Finders = {f}
    Discoverers = {}
    Starters = {s1}
    Stoppers = {p1}
    CancellableUsers = {s1, p1}
    Devices = {d1, d2}
    Wanted = {d1}
    Tagged <- ServiceUuids
    MaxPackets = 2
    MaxAborts = 1
CHECK_DEADLOCK FALSE
INVARIANT FreshData
INVARIANT WatcherReachable
INVARIANT ListenersInUse
PROPERTY ScanCallsReturn
