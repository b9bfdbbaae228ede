SPECIFICATION Spec
CONSTANTS
    DistinctIDs = {1, 2}
    PropertyKeys = {1, 2}
    PropertyValues = {v}
    MaxProperties = 2
    MoreKey = 1
    MoreValue = v
    Groups = {}
    Nil = Nil
    NoIdentity = NoIdentity
    Connections = {c1}
    GeneratedIds = {g1}
    DerivedIds = {d1}
    Servers = {srv}
    SessionLimit = 3
    Window = 1
    NoConnection = NoConnection
    NoSession = NoSession
    NoServer = NoServer
    MaxClock = 0
    MaxTouch = 24
    Requests = {r1, r2, r3}
    Kinds = {"request", "initialize", "tool", "probe", "other"}
    Callers = {d1}
    Conversations = {NoSession}
    Answers <- OwnProperties
    Layers = 1
    MaxInFlight = 1
SYMMETRY RequestSymmetry
CHECK_DEADLOCK FALSE
INVARIANTS
    VirtualAnswered
    ExceptionIffToolFailed
PROPERTIES
    NoRepeatedIdentify
