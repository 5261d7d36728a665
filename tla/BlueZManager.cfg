SPECIFICATION FairSpec
CONSTANTS
    None = None
    hci = hci
    dev = dev
    srv = srv
    chr = chr
    Objects <- Tree
    KindOf <- Kind
    Parent <- Above
    Central = {hci}
    Callers = {t1, t2}
    MaxChanges = 2
    MaxResets = 1
CHECK_DEADLOCK FALSE
INVARIANT ViewAgrees
INVARIANT DanglingIsTransient
INVARIANT NoBusLeaked
PROPERTY InitReturns
