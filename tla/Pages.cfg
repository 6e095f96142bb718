CONSTANTS
    t1 = t1
    t2 = t2
    h1 = h1
    h2 = h2
    n1 = n1
    c1 = c1
    j1 = j1
    j2 = j2
    j3 = j3
    l1 = l1
    l2 = l2
    w1 = w1
    w2 = w2
    g1 = g1
    g2 = g2
    NoSource = NoSource
    Tabs = {t1, t2}
    MaxLines = 2
    MaxRequests = 2
    ReplayLimit = 1
    RingLimit = 2
    NoBeat = NoBeat
    Views = {t1}
    Writers = {h1, h2}
    MaxBeats = 3
    MaxEvents = 2
    NoBackup = NoBackup
    MaxBackups = 2
    NoType = NoType
    NoticeTypes = {n1}
    Creations = {c1}
    NoToken = NoToken
    Joins = {j1, j2, j3}
    Visits = {l1, l2}
    MaxClock = 7
    WindowHours = 2
    ZoneOffset = 0
    NoServer = NoServer
    NoGame = NoGame
    MaxHosts = 9
    FleetServers = {w1, w2}
    Games = {g1, g2}
    MaxPlayers = 1
    NaN = NaN
    Whole = Whole
    NoStep = NoStep
    Schedules <- MCSchedules
    Times <- MCTimes
SPECIFICATION PagesSpec
INVARIANTS
    
    MetricsAreFaithful
    
    NoticesAreWanted
    
    UptimeIsTrue
    
    
CHECK_DEADLOCK FALSE
