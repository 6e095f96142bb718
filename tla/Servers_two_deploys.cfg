CONSTANTS
    h1 = h1
    h2 = h2
    v1 = v1
    v2 = v2
    p1 = p1
    p2 = p2
    o1 = o1
    o2 = o2
    r1 = r1
    r2 = r2
    None = None
    Hosts = {h1}
    Servers = {v1, v2}
    Ports = {p1}
    Ops = {o1, o2}
    Reporters = {r1}
    Confused = FALSE
    MaxQueue = 2
    MaxDrops = 0
SYMMETRY MCSymmetry
SPECIFICATION Spec
INVARIANTS
    PortsExclusive
