CONSTANTS
    r1 = r1
    r2 = r2
    Requests = {r1, r2}
    MemTTL = 1
    DiskTTL = 2
    MaxRev = 2
SPECIFICATION Spec
SYMMETRY Symmetry
INVARIANT TypeOK FreshAfterLonePurge StaleBound
