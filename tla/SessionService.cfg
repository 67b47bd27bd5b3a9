SPECIFICATION Spec
CONSTANTS
    Calls = {c1, c2, c3, c4}
    Users = {u1, u2}
    Null = null
SYMMETRY Symmetry
INVARIANTS
    TypeOK
    LogoutRevokes
    ChallengeUsedOnce
    SessionUsable
PROPERTIES
    AdmissionLinearizable
    ImplementsAccountSession
CHECK_DEADLOCK FALSE
