SPECIFICATION Spec
CONSTANTS
    Processes = {p1, p2}
    Keys = {1}
    EvaluationOf <- MCEvaluationOf
    MaxEvaluations = 1
    MaxKills = 2
    MaxLosses = 1
    MaxFaults = 0
INVARIANTS
    AnsweredKept
