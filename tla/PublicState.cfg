SPECIFICATION BoundedSpec
CONSTANTS
    NumResumes = 1
    MaxGen = 2
    MaxStarts = 2
    t1 = t1
    t2 = t2
    l1 = l1
    Transitions <- TwoTransitions
    Leases <- OneLease
INVARIANTS
    RevocationComplete
PROPERTIES
    GenerationNeverBack
    CanceledOnlyByRevoking
    ImplementsAdmission
    ClaimsEnd
    CloseEnds
    SealedAreCanceled
    ReadinessRecovers
