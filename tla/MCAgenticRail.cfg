SPECIFICATION MCSpec
CONSTANTS
    e1 = e1
    e2 = e2
    a1 = a1
    a2 = a2
    n1 = n1
    n2 = n2
    v1 = v1
    v2 = v2
    user = user
    shop = shop
    None = None
    NoEvidence = NoEvidence
    Currency = Currency
    Engines = {e1, e2}
    Requests <- MCRequests
    Registry <- MCRegistry
    Accounts <- MCAccounts
    Opening <- MCOpening
    Payer <- MCPayer
    Payee <- MCPayee
    Amount <- MCAmount
    Damages <- MCDamages
    Times = {0, 1, 2}
    Outcomes = {"approve", "challenge", "decline"}
    MaxRecords = 3
    MaxPlans = 4
    SetUps <- MCSetUps
CHECK_DEADLOCK FALSE
INVARIANTS
    TrustStory
