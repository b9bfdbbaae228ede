SPECIFICATION Spec
CONSTANTS
    t = t
    more = more
    ToolNames = {t, more}
    MissingTool = more
    Replaceable = {}
    Pages <- OnePage
    Schemas <- AllKinds
    InjectContext = TRUE
    EnableConversationID = TRUE
    ReportMissing = TRUE
    Listings = {l1}
    Calls = {q1}
    MaxRestarts = 1
SYMMETRY Symmetry
CHECK_DEADLOCK FALSE
INVARIANTS
    StrippedAcrossRestarts
