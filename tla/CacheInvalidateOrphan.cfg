\* One rtkQuery call rejects while a sibling call is still pending.
CONSTANTS
    Invalidates <- MCInvalidates
    OnUpdate <- MCOnUpdate
    WithSkip <- MCWithSkip
    Payloads <- MCPayloads
    SkipTrue <- MCSkipTrue
    Outcomes <- MCOutcomesAll
    MaxPushes = 3
    Undefined = Undefined

SPECIFICATION Spec

INVARIANT NoOrphanSubscription

CHECK_DEADLOCK FALSE
