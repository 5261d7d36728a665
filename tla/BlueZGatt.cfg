SPECIFICATION FairSpec
CONSTANTS
    None = None
    a = a
    b = b
    c = c
    Chars <- ABC
    Acquirable <- AC
    Calls <- Names
    Kind <- Kinds
    On <- Where
    Forced = {}
    Cancellable = {"a1", "bx"}
    Fds = {f1}
    MaxSessions = 2
    MaxBusy = 1
CHECK_DEADLOCK FALSE
INVARIANT NotifyingHasCallback
INVARIANT ReadersOwned
PROPERTY StopSilences
PROPERTY CallsReturn
