SPECIFICATION Spec
CONSTANTS
    Processes = {p1, p2}
    Keys = {1}
    EvaluationOf <- MCEvaluationOf
    MaxEvaluations = 1
    MaxKills = 1
    MaxLosses = 0
    MaxFaults = 0
INVARIANTS
    BindingUsable
