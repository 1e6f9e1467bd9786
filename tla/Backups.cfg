SPECIFICATION FairSpec
CONSTANTS
    b1 = b1
    Backups = {b1, b2, b3}
    Restorable = {b1}
    Restores = {r1, r2}
    None = None
    MaxFailures = 1
    MaxDeletes = 1
CHECK_DEADLOCK FALSE
INVARIANTS
    TypeOK
    Recoverable
    InventoryKept
PROPERTIES
    EverythingEnds
