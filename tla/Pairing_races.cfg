CONSTANTS
    alice = alice
    bob = bob
    k1 = k1
    k2 = k2
    p1 = p1
    p2 = p2
    None = None
    Users <- MCUsers
    Codes <- MCCodes
    Requests <- MCRequests
    Ttl = 0
    MaxTime = 1
    MaxAttempts = 2
SPECIFICATION FairSpec
INVARIANTS
    TypeOK
    NoOrphanHost
    SingleUse
    AnswersTruthful
    ExpiredNeverPairs
PROPERTIES
    CodesAreStable
    ImplementsLedger
    EveryRequestEnds
