SPECIFICATION Spec
CONSTANTS
    None = None
    x1 = x1
    x2 = x2
    g1 = g1
    g2 = g2
    c1 = c1
    c2 = c2
    i1 = i1
    i2 = i2
    i3 = i3
    Clients <- TwoClients
    Grants <- TwoGrants
    Codes <- TwoCodes
    Issues <- ThreeIssues
    GrantLimit = 1
    CodeTTL = 1
    AccessTTL = 1
    FamilyTTL = 2
    MaxClock = 2
    MaxEpoch = 1
SYMMETRY Symmetry
INVARIANTS
    EndedIsVoid
    EveryOldTokenTrips
    FamilyEndsInTime
CHECK_DEADLOCK FALSE
