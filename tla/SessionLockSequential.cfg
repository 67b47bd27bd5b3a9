SPECIFICATION Spec
CONSTANTS
    Requests = {r1, r2, r3}
    NoRequest = none
    LockTimeout = 1
    MaxClock = 1
INVARIANTS
    LockedOnlyByAnother
CHECK_DEADLOCK FALSE
