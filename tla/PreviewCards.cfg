SPECIFICATION FairSpec
CONSTANTS
    s1 = s1
    Streams <- OneStream
    Public <- OneStream
    QueueDepth = 1
    MaxRevision = 3
    Versions <- ThreeVersions
    Offline = Offline
    NoCard = NoCard
    MaxRetries = 1
INVARIANTS
    NothingMissedSilently
    CardOfCurrentPage
PROPERTIES
    CurrentCardStays
    CardsBecomeCurrent
    StreamsCatchUp
ACTION_CONSTRAINT SecondChangeAtRest
CHECK_DEADLOCK FALSE
