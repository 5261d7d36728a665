SPECIFICATION FairScanSpec
CONSTANTS
    None = None
    s1 = s1
    s2 = s2
    Scanners = {s1, s2}
    CancellableScanners = {s2}
    MaxStarts = 2
    MaxResults = 2
    MaxFailures = 2
CHECK_DEADLOCK FALSE
INVARIANT ScanHeld
INVARIANT HolderCanStop
PROPERTY StartReturns
