SPECIFICATION FairSpec
CONSTANTS
    t1 = t1
    Pulls = {p1, p2}
    Ingests = {i1, i2}
    Stamps = {t1, t2}
    None = None
    MaxOwed = 2
    MaxLosses = 1
    MaxDeaths = 1
INVARIANTS
    TypeOK
PROPERTIES
    HandedOutOnce
    AnsweredOrParked
