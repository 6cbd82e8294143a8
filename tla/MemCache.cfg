CONSTANTS
    k1 = k1
    k2 = k2
    k3 = k3
    r1 = r1
    r2 = r2
    NoTile = NoTile
    Keys = {k1, k2, k3}
    Revs = {r1, r2}
    Size <- Lengths
    MaxEntries = 2
    TTL = 1
    Scraped = TRUE
    MaxCount = 2
SPECIFICATION Spec
INVARIANTS Accounting KeepsRecent ReportBounded
PROPERTY ImplementsStore
