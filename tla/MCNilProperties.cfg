SPECIFICATION Spec
CONSTANTS
    DistinctIDs = {u1}
    PropertyKeys = {1}
    PropertyValues = {v}
    MaxProperties = 1
    MoreKey = 1
    MoreValue = v
    Groups = {}
    Nil = Nil
    NoIdentity = NoIdentity
    Connections = {c1}
    GeneratedIds = {g1, g2, g3}
    DerivedIds = {d1}
    Servers = {srv}
    SessionLimit = 1
    Window = 1
    NoConnection = NoConnection
    NoSession = NoSession
    NoServer = NoServer
    MaxClock = 0
    MaxTouch = 24
    Requests = {r1, r2}
    Kinds = {"request"}
    Callers = {d1}
    Conversations = {NoSession}
    Answers <- AllAnswers
    Layers = 1
    MaxInFlight = 2
SYMMETRY Symmetry
CHECK_DEADLOCK FALSE
INVARIANTS
    AnswerIsAttributed
