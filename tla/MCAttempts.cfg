SPECIFICATION MCSpec
CONSTANTS
    p1 = p1
    p2 = p2
    Processes = {p1, p2}
    Chunks = 2
    MaxAttempts = 3
    MaxFaults = 3
    MaxLosses = 2
    Operators = {p1}
    Artifacts = 4
    MaxRuns = 3
    MaxKills = 2
    Runners = {p1, p2}
    Executions = {capacity, locked}
    Machines = {m1}
    Stages <- MCStages
    Arms = 2
    MaxRoots = 4
    MaxFailures = 1
CHECK_DEADLOCK FALSE
INVARIANTS
    EvidenceHasReceipt
    PublishedComplete
    ReceiptStands
    PublishedVerifies
PROPERTIES
    ExecutedOnce
    CallsEnd
