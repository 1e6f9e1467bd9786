SPECIFICATION FairSpec
CONSTANTS
    c1 = c1
    Checks = {c1}
    Jobs = {j1, j2}
    Stamps = {t1, t2, t3}
    None = None
    MaxFailures = 1
INVARIANTS
    TypeOK
PROPERTIES
    LaneOutranksJobs
    ProbedOrParked
