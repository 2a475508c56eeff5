SPECIFICATION Spec
CONSTANTS
    n1 = n1 n2 = n2 s1 = s1 s2 = s2 s3 = s3 c1 = c1 c2 = c2 c3 = c3 l1 = l1
    None = None
    Nodes = {n1}
    Socks = {s1, s2}
    NodeOf <- mcNodeOf
    Calls = {c1, c2}
    Readers = {l1}
    Declared = {"busy"}
    Faults = {"db", "redis", "crash"}
    MaxFaults = 1
SYMMETRY mcSymmetry
INVARIANTS TypeOK ListedIsThere CachedIsThere ListedAsDeclared
PROPERTIES EstablishedKeyIsSafe
CHECK_DEADLOCK FALSE
