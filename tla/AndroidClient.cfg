SPECIFICATION FairSpec
CONSTANTS
    None = None
    Connects = {c1, c2}
    Disconnects = {d1, d2}
    Requests <- Names
    ApiOf <- Answers
    Cancellable = {c2, d1}
    MaxLosses = 1
CHECK_DEADLOCK FALSE
INVARIANT NoLinkForgotten
PROPERTY CallsGoOn
PROPERTY SessionsInTurn
