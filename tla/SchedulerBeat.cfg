SPECIFICATION FairSpec
CONSTANTS
    dispatch = dispatch
    digest = digest
    Replicas = {r1, r2}
    Tasks = {dispatch, digest}
    Order <- Table
    SlotOf <- TableSlots
    None = None
    MaxTick = 4
    MaxLag = 2
    MaxRestarts = 1
    MaxOutages = 1
INVARIANTS
    TypeOK
PROPERTIES
    NeverTwice
    LatestRuns
