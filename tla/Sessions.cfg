SPECIFICATION Spec
CONSTANTS
    NoRow = NoRow
    s1 = s1
    s2 = s2
    s3 = s3
    q1 = q1
    q2 = q2
    Rows <- ThreeRows
    Requests <- TwoRequests
    RotationAge = 1
    RotationGrace = 0
    LastSeenThrottle = 1
    IdleTimeout = 3
    AbsoluteTimeout = 4
    MaxClock = 5
    MaxSpan = 1
    MaxEpoch = 1
    MaxSignIns = 1
SYMMETRY Symmetry
INVARIANTS
    EndedStaysOut
    OnePairPerSignIn
PROPERTIES
    DeadlineOnlyShrinksOnProof
    EndedCannotAct
CHECK_DEADLOCK FALSE
