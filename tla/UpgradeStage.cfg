SPECIFICATION FairSpec
CONSTANT MaxMishaps = 2
CHECK_DEADLOCK FALSE
INVARIANTS
    TypeOK
    ServesOneRelease
    NothingLost
    Truthful
PROPERTIES
    Settles
