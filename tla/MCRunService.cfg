SPECIFICATION FairSpec
CONSTANTS
    Processes = {p1, p2}
    Requests = {r1}
    Budget = 1
    MaxKeys = 4
    MaxCommits = 1
    MaxFaults = 1
    NoRun = NoRun
INVARIANTS
    AnsweredRunsLoad
PROPERTIES
    ExecuteEnds
