CONSTANTS
    v1 = v1
    v2 = v2
    b1 = b1
    b2 = b2
    b3 = b3
    u1 = u1
    i1 = i1
    i2 = i2
    k1 = k1
    k2 = k2
    r1 = r1
    r2 = r2
    None = None
    Servers = {v1}
    BackupIds = {b1, b2}
    Users = {u1}
    Instances = {i1}
    Runs = {k1}
    Reporters = {r1}
    Settings <- TwoSettings
    Minute = 1
    Retention = 0
    TickSlack = 0
    Overlap = FALSE
    MaxTime = 1
    MaxQueue = 1
    MaxDrops = 1
    MaxDbFailures = 1
SYMMETRY MCSymmetry
SPECIFICATION Spec
CHECK_DEADLOCK FALSE
INVARIANTS
    TypeOK
    RestoresAreCompleted
    RunningIsHeld
PROPERTIES
    EndedIsFinal
