SPECIFICATION MCSpec
CONSTANTS
    Processes = {p1, p2}
    Keys = {1, 2, 3}
    EvaluationOf <- MCEvaluationOf
    MaxEvaluations = 2
    MaxKills = 2
    MaxLosses = 1
    MaxFaults = 1
    Threads = {t1, t2}
    MaxHiddenCalls = 4
INVARIANTS
    AnswersLoad
    DecisionsSealed
PROPERTIES
    WorkersBounded
