CONSTANTS
    r1 = r1
    r2 = r2
    w1 = w1
    w2 = w2
    Requests = {r1, r2}
    Statuses = {4}
    Buckets = 1
    MaxBody = 1
    Workers = {w1, w2}
    MaxRequests = 2
    Warmups = {0, 1}
    Zoom = 3
    Count = 64
    Archives <- TheArchives
    MaxZoom = 2
    WordBits = 5
    Collections <- TheCollections
    Texts <- TheTexts
    Limits <- TheLimits
    Skips <- TheSkips
    Newcomers <- TheNewcomers
    MaxEdits = 1
    GridDim = 3
    DefaultLimit = 2
    MaxLimit = 3
    World = 40
    Ids = {0, 1, 2, 3, 4}
    Zooms = {0, 1, 2}
    TileCap = 2
    Settings <- TheSettings
    Worlds <- TheWorlds
    Swaps <- TheSwaps
    MaxLength = 3
    ReadOnlyRole = TRUE
SPECIFICATION ServingSpec
SYMMETRY Symmetry
INVARIANTS ServingTypeOK CountersAgree RecordedAsSent ReportExact ArchiveFinds CollectionExact SourceFits 
CHECK_DEADLOCK FALSE
