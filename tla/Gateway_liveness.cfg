CONSTANTS
    h1 = h1
    h2 = h2
    s1 = s1
    s2 = s2
    s3 = s3
    None = None
    Hosts = {h1}
    Sockets = {s1, s2}
    OfflineAfter = 0
    TimerSlack = 1
    HelloInTime = TRUE
    MaxRestarts = 0
    MaxDbFailures = 0
SPECIFICATION FairSpec
INVARIANTS
    OnlineIsWatched
PROPERTIES
    SilentHostGoesOffline
