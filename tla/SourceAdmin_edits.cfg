CONSTANTS
    n1 = n1
    n2 = n2
    d1 = d1
    a1 = a1
    a2 = a2
    p1 = p1
    p2 = p2
    r1 = r1
    None = None
    Blank = Blank
    Names = {n1, n2}
    Databases = {"postgis", "mysql"}
    DSNs = {d1}
    NetworkSources = {n2}
    InitialFile <- MixedFile
    Admins = {a1, a2}
    Probes = {}
    Readers = {}
    MaxOpen = 3
SPECIFICATION Spec
SYMMETRY Symmetry
INVARIANTS ConfigConsistent FileLoadable BackendsOwned
PROPERTY SerialEdits
