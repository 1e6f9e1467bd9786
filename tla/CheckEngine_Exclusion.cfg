SPECIFICATION FairSpec
CONSTANTS
    c1 = c1
    c2 = c2
    a1 = a1
    Checks = {c1}
    Addresses = {a1}
    AddressOf <- OneAddress
    Jobs = {j1}
    Requests = {q1}
    Dispatchers = {d1}
    Stamps = {t1, t2}
    None = None
    Profiles = {{"exclude", "stale_save", "skip", "slow_run"}, {"exclude", "check_now", "arm"}}
    MaxCrashes = 1
    MaxSlow = 1
INVARIANTS
    ClaimsAreStamped
PROPERTIES
    ExcludedGoesQuiet
    KeepsBeingChecked
