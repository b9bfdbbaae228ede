SPECIFICATION PipelineSpec
CONSTANTS
    MaxDepth = 10
    MaxBreadth = 100
    MaxStringBytes = 32768
    Base64SizeGate = 10240
    MaxEventBytes = 102400
    EnvelopeBytes = 150
    KeyBytes = 20
    ScalarBytes = 5
    FieldLimits <- Limits
    r1 = r1
    r2 = r2
    Requests = {r1, r2}
    Lifecycles <- Arrivals
    NoLifecycle = NoLifecycle
    MaxChanges = 1
CHECK_DEADLOCK FALSE
INVARIANTS
    PipelineTypeOK
    SecretsRedacted
    LimitsKept
    ReducibleIsOffered
    EventsAttributed
    SiblingsAgree
PROPERTIES
    ImplementsEventFeed
