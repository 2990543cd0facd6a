SPECIFICATION Spec
CONSTANTS
    Nobody = Nobody
    m1 = m1
    m2 = m2
    r1 = r1
    k1 = k1
    k2 = k2
    k3 = k3
    k4 = k4
    Mutations <- TwoMutations
    Readers <- OneReader
    Keys <- FourKeys
    KindOf <- AllKinds
    MaxRevision = 2
    MaxTurns = 1
SYMMETRY Symmetry
INVARIANTS
    OpenUnlessCommitIsLate
    AcknowledgedRevocation
    StaleMeansNotAppliedAlone
    ClosedOnlyWhenFresh
PROPERTIES
    WritesOnlyBehindTheFence
    ImplementsContract
CHECK_DEADLOCK FALSE
