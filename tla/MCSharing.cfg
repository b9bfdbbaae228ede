SPECIFICATION Spec
CONSTANTS
    DistinctIDs = {u1, u2}
    PropertyKeys = {1}
    PropertyValues = {v}
    MaxProperties = 1
    MoreKey = 1
    MoreValue = v
    Groups = {}
    Nil = Nil
    NoIdentity = NoIdentity
    Connections = {c1}
    GeneratedIds = {g1, g2, g3, g4}
    DerivedIds = {d1}
    Servers = {srv}
    SessionLimit = 1
    Window = 0
    NoConnection = NoConnection
    NoSession = NoSession
    NoServer = NoServer
    MaxClock = 1
    MaxTouch = 24
    Requests = {r1, r2}
    Kinds = {"tool"}
    Callers = {c1, NoConnection}
    Conversations = {NoSession, d1}
    Answers <- FullAnswers
    Layers = 1
    MaxInFlight = 2
SYMMETRY Symmetry
CHECK_DEADLOCK FALSE
INVARIANTS
    IdentityIsolation
    SessionsNotShared
    CaptureInheritsAttribution
    AnswerIsAttributed
    OriginalPanic
