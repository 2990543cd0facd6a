SPECIFICATION FairSpec
CONSTANTS
    User = User
    Nobody = Nobody
    Departed = Departed
    t1 = t1
    t2 = t2
    n1 = n1
    w1 = w1
    w2 = w2
    TokenJobs <- TwoTokens
    Notices <- OneNotice
    Workers <- OneWorker
    Unreadable <- FirstCannotReadNotice
    MaxAttempts = 2
    MaxConcurrentSends = 1
    ClaimBatch = 2
    MaxFaults = 1
PROPERTIES
    EveryMailEnds
