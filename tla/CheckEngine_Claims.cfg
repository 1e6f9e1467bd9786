SPECIFICATION Spec
CONSTANTS
    c1 = c1
    c2 = c2
    a1 = a1
    Checks = {c1}
    Addresses = {a1}
    AddressOf <- OneAddress
    Jobs = {j1, j2}
    Requests = {}
    Dispatchers = {d1, d2}
    Stamps = {t1, t2, t3}
    None = None
    Profiles = {{"arm", "skip", "schedule"}}
    MaxCrashes = 1
    MaxSlow = 0
SYMMETRY Interchangeable
INVARIANTS
    TypeOK
    OneHolder
PROPERTIES
    LiveClaimKept
    ImplementsService
