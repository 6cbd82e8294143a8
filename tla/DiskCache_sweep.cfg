CONSTANTS
    k1 = k1
    k2 = k2
    r1 = r1
    r2 = r2
    c1 = c1
    c2 = c2
    t1 = t1
    t2 = t2
    NoTile = NoTile
    None = None
    Torn = Torn
    Size <- Lengths
    Keys = {k1}
    Revs = {r1}
    Clients = {c1}
    Temps = {t1}
    Purging = TRUE
    Sweeping = TRUE
    TTL = 1
    OrphanAge = 1
    MaxBytes = 9
    MaxLag = 1
    MaxRestarts = 2
SPECIFICATION FairSpec
PROPERTIES SweepBounds OrphansGo
