SPECIFICATION FairSpec
CONSTANTS
    Requests = {r1, r2, r3}
    NoRequest = none
    LockTimeout = 1
    MaxClock = 3
INVARIANTS
    TypeOK
    LockNeverLeaks
    LeaseExclusionUnlessRaced
PROPERTIES
    HungHandlerLosesLock
    ImplementsLease
CHECK_DEADLOCK FALSE
