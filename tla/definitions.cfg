SPECIFICATION Spec
CONSTANTS
    j1 = j1
    j2 = j2
    s1 = s1
    s2 = s2
    c1 = c1
    c2 = c2
    None = None
    Jobs = {j1, j2}
    Servers = {s1, s2}
    Commands = {c1, c2}
    Offered <- MCOffered
    Filter = None
INVARIANTS
    LiveIsStored
    InvalidIsExact
PROPERTIES
    StaysActive
