SPECIFICATION Spec
CONSTANTS
    None = None
    hci = hci
    dev = dev
    srv = srv
    chr = chr
    Objects <- Tree
    KindOf <- Kind
    Parent <- Above
    Central = {hci}
    Callers = {t1, t2}
    MaxChanges = 0
    MaxResets = 0
CHECK_DEADLOCK FALSE
INVARIANT CheckInProgress
