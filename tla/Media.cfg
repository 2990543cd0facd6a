SPECIFICATION FairSpec
CONSTANTS
    NoKey = NoKey
    Nobody = Nobody
    k1 = k1
    k2 = k2
    w1 = w1
    w2 = w2
    Keys <- TwoKeys
    Workers <- TwoWorkers
    CandidateLifetime = 1
    OrphanAge = 1
    MaxFaults = 1
INVARIANTS
    PhotoKept
    CompletedMeansGone
PROPERTIES
    OrphansGo
    JobsEnd
CHECK_DEADLOCK FALSE
