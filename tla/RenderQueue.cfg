SPECIFICATION FairSpec
CONSTANTS
    r1 = r1
    r2 = r2
    Renders <- Two
    LowPriority <- One
    Public <- One
    Departing <- One
    Capacity = 2
    LowPriorityMaxWaiting = 0
INVARIANTS
    RedeemedNotExpired
    RenderJoinsCallbacks
PROPERTIES
    ArtifactsAuthorized
    SnapshotsHandedOnce
    EveryRenderReturns
    CloseReturns
CHECK_DEADLOCK FALSE
