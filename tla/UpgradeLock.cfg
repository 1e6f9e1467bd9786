SPECIFICATION FairSpec
CONSTANTS
    p1 = p1
    Procs = {p1, p2, p3}
    None = None
    MaxDeaths = 2
    MaxOutages = 1
CHECK_DEADLOCK FALSE
INVARIANTS
    TypeOK
    Exclusive
    RecoveryFirst
PROPERTIES
    SlotComesBack
