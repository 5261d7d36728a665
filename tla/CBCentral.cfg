SPECIFICATION FairSpec
CONSTANTS
    None = None
    Connects = {c1, c2}
    Disconnects = {d1, d2}
    Cancellable <- CancelConnects
    ErrorGiven = {TRUE}
    MaxLosses = 2
CHECK_DEADLOCK FALSE
INVARIANT LossReported
PROPERTY TimeoutReleases
PROPERTY DiscoveryResolves
PROPERTY DisconnectReturns
