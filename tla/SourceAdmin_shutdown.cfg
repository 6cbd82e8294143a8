CONSTANTS
    n1 = n1
    n2 = n2
    d1 = d1
    a1 = a1
    a2 = a2
    p1 = p1
    p2 = p2
    r1 = r1
    None = None
    Blank = Blank
    Names = {n1}
    Databases = {}
    DSNs = {}
    NetworkSources = {}
    InitialFile <- PlainFile
    Admins = {a1}
    Probes = {}
    Readers = {r1}
    MaxOpen = 2
SPECIFICATION Spec
INVARIANT NeverObserveClosed
