SPECIFICATION Spec
CONSTANTS
    DistinctIDs = {u1}
    PropertyKeys = {0, 1, 2, 3}
    PropertyValues = {v, more}
    MaxProperties = 2
    MoreKey = 0
    MoreValue = more
    Groups = {}
    Nil = Nil
    NoIdentity = NoIdentity
    Connections = {c1}
    GeneratedIds = {g1}
    DerivedIds = {d1}
    Servers = {srv}
    SessionLimit = 1
    Window = 1
    NoConnection = NoConnection
    NoSession = NoSession
    NoServer = NoServer
    MaxClock = 0
    MaxTouch = 24
    Requests = {r1, r2}
    Kinds = {"request"}
    Callers = {d1}
    Conversations = {NoSession}
    Answers <- TooManyProperties
    Layers = 1
    MaxInFlight = 1
SYMMETRY Symmetry
CHECK_DEADLOCK FALSE
PROPERTIES
    NoRepeatedIdentify
