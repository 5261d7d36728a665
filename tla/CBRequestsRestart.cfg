SPECIFICATION Spec
CONSTANTS
    None = None
    Calls <- Names
    Programs <- AnyOther
    Discriminator = TRUE
    Cancellable = FALSE
    MaxSent = 0
    MaxLosses = 1
CHECK_DEADLOCK FALSE
PROPERTY NotifyRestarts
