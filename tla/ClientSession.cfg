SPECIFICATION Spec
CONSTANT Requests = {r1, r2, r3}
INVARIANTS
    TypeOK
    PendingAwaitRefresh
    WorkerOwnsClient
PROPERTIES
    ImplementsRequests
    ClickAnswered
    AnsweredOnceQuiet
CHECK_DEADLOCK FALSE
