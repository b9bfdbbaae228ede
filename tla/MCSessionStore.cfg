SPECIFICATION StoreSpec
CONSTANTS
    DistinctIDs = {u1}
    PropertyKeys = {1}
    PropertyValues = {v}
    MaxProperties = 1
    MoreKey = 1
    MoreValue = v
    Groups = {}
    Nil = Nil
    NoIdentity = NoIdentity
    Connections = {c1, c2}
    GeneratedIds = {g1, g2, g3, g4}
    DerivedIds = {d1}
    Servers = {srv}
    SessionLimit = 2
    Window = 1
    NoConnection = NoConnection
    NoSession = NoSession
    NoServer = NoServer
    MaxClock = 2
    MaxTouch = 5
SYMMETRY Symmetry
CHECK_DEADLOCK FALSE
INVARIANTS
    StoreTypeOK
    BoundedStore
    GeneratedMatchesSessions
    DistinctTouches
PROPERTIES
    RollsOnlyWhenIdle
    ImplementsLruCache
