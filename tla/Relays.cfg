CONSTANTS
    t1 = t1
    h1 = h1
    h2 = h2
    p1 = p1
    p2 = p2
    None = None
    Panels = {t1}
    MaxChunks = 2
    Updates = {t1}
    Handlers = {h1, h2}
    MaxQueue = 2
    MaxDrops = 1
    MaxNotices = 2
    LatestLimit = 1
    Polls = {p1, p2}
SPECIFICATION RelaysSpec
INVARIANTS
    TerminalIsFaithful
    
    InboxHolds
PROPERTIES
    RelaysSettle
    BellComesTrue
CHECK_DEADLOCK FALSE
