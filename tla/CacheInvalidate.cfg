\* Every rtkQuery call resolves (the daemon client answers {data} or {error}).
CONSTANTS
    Invalidates <- MCInvalidates
    OnUpdate <- MCOnUpdate
    WithSkip <- MCWithSkip
    Payloads <- MCPayloads
    SkipTrue <- MCSkipTrue
    Outcomes <- MCOutcomesResolve
    MaxPushes = 3
    Undefined = Undefined

SPECIFICATION Spec

INVARIANT TypeOK
INVARIANT NoOrphanSubscription
PROPERTY ImplementsLifecycle
PROPERTY RemovalEventuallyClosesAll

\* The handler's life ends with the cache entry; pushes are bounded.
CHECK_DEADLOCK FALSE
