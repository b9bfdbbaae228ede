SPECIFICATION Spec
CONSTANTS
    t = t
    more = more
    ToolNames = {t, more}
    MissingTool = more
    Replaceable = {more}
    Pages <- TwoPages
    Schemas <- TwoKinds
    InjectContext = TRUE
    EnableConversationID = TRUE
    ReportMissing = TRUE
    Listings = {l1, l2}
    Calls = {q1}
    MaxRestarts = 1
SYMMETRY Symmetry
CHECK_DEADLOCK FALSE
INVARIANTS
    ToolTypeOK
    OwnershipIsSound
    ListingRefreshes
    OrdinaryFieldsKept
    AdvertisedFieldsStripped
    
    MintedIdsAreTold
