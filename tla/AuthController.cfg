SPECIFICATION Spec
CONSTANTS
    Requests = {r1, r2, r3}
    Users = {alice, bob}
    Null = null
SYMMETRY Symmetry
INVARIANTS
    TypeOK
    FlowFinishesOnce
    RegisteredOwnsAccount
    FlowCompletes
PROPERTIES
    LogoutEndsFlows
CHECK_DEADLOCK FALSE
