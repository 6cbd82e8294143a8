CONSTANTS
    r1 = r1
    r2 = r2
    Requests = {r1}
    MemTTL = 1
    DiskTTL = 1
    MaxRev = 2
SPECIFICATION Spec
INVARIANT UncacheableSkipsCache
