CONSTANTS
    q1 = q1
    q2 = q2
    q3 = q3
    n1 = n1
    n2 = n2
    Unknown = Unknown
    None = None
    Runs = {q1, q2}
    Networks = {n1, n2}
    MaxRev = 2
    Points = {0, 3, 4, 8, 12, 15}
    Levels = {0, 1}
    Quantum = 2
    Scale = 2
    DefaultSpeed = 1
    ElevatorTime = 5
    GridCells = 4
    ArcDegree = 111195
    GridDegree = 111320
    CheckInterval = 2
    PopInterval = 4
    Inputs <- Networks2
    Snap = 2
    Cutoffs = {3, 9}
    Traces <- SomeTraces
    Radius = 3
    MaxCandidates = 2
    Detour = 1
    Slack = 2
    Gap = 6
    Collections <- SomeCollections
    Eps = 3
    Densities = {1, 2, 3}
    HalfRange = 2
    CheckEvery = 2
    Drawings <- SomeDrawings
    CellSizes = {0, 1, 2}
    AutoParts = 4
    MinCell = 2
    MaxCells = 300
SPECIFICATION AllSpec
INVARIANTS
    AnalysesTypeOK
    OneGraph
    NotPoisoned
    GraphSound
    IndexesFind
    LeastCosts
    RoutesSound
    ChainBest
    ClustersDense
    PolygonsCover
PROPERTIES
    Settled
    RunsEnd
    SearchEnds
CHECK_DEADLOCK FALSE
