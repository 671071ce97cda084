SPECIFICATION ConfirmatorySpec
CONSTANTS
    Operators = {o1, o2}
    Artifacts = 4
    MaxRuns = 2
    MaxKills = 0
CHECK_DEADLOCK FALSE
INVARIANTS
    ScoredOnce
