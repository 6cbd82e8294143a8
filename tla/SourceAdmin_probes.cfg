CONSTANTS
    n1 = n1
    n2 = n2
    d1 = d1
    a1 = a1
    a2 = a2
    p1 = p1
    p2 = p2
    r1 = r1
    None = None
    Blank = Blank
    Names = {n1, n2}
    Databases = {}
    DSNs = {}
    NetworkSources = {}
    InitialFile <- PlainFile
    Admins = {a1}
    Probes = {p1, p2}
    Readers = {r1}
    MaxOpen = 2
SPECIFICATION FairSpec
INVARIANTS VerdictCurrent InFlightOpen
PROPERTIES EditsEnd ProbesEnd
