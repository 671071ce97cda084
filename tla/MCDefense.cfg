SPECIFICATION MCSpec
CONSTANTS
    Events <- MCEvents
    Rows <- MCRows
    DigestRank <- MCDigestRank
    MaxTime = 5
    Configs <- MCConfigs
    p1 = p1
    p2 = p2
    p3 = p3
    good = good
    edited = edited
    poor = poor
    Provisioners = {p1, p2, p3}
    KeyFiles = 3
    MaxProvisionFaults = 2
    NoOwner = NoOwner
    Operators = {p1, p2}
    Checkouts = {good, edited, poor}
    Feasible = {good, edited}
    Often <- MCOften
    MaxMishaps = 1
    Nothing = Nothing
CHECK_DEADLOCK FALSE
INVARIANTS
    StreamExact
    RestartInvisible
    ComponentsExact
    AssignedOnce
    FirstComeFirstServed
    ProvisionedOnce
    ReleaseHolds
    HiddenOpenedOnce
PROPERTIES
    CasesOnlyGrow
