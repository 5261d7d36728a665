SPECIFICATION FairSpec
CONSTANTS
    None = None
    Calls <- Names
    Programs <- AnyOther
    Discriminator = TRUE
    Cancellable = FALSE
    MaxSent = 2
    MaxLosses = 1
CHECK_DEADLOCK FALSE
INVARIANT ReadsGetAnswers
INVARIANT NotifyingHasCallback
PROPERTY RequestsReturn
