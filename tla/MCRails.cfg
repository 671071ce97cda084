SPECIFICATION MCSpec
CONSTANTS
    p1 = p1
    p2 = p2
    alice = alice
    bob = bob
    carol = carol
    holds = holds
    fees = fees
    chargebacks = chargebacks
    frozen = frozen
    Missing = Missing
    NoTerms = NoTerms
    Currency = Currency
    Created = "created"
    OpenersOf <- MCOpeners
    TransitionsOf <- MCTransitions
    TermsOKOf <- MCTermsOK
    MovementOf <- MCMovement
    PositionOf <- MCPosition
    Accounts <- MCAccounts
    Reserved <- MCReserved
    CommandsOf <- MCCommands
    Tampers <- MCTampers
    SetUps <- MCSetUps
    Vectors = {"a", "b", "d"}
    Default = "d"
    Frontier <- MCFrontier
    Near <- MCOthers
    OneField <- MCOthers
    Families <- MCFamilies
    Control = "control"
    Seeds <- MCSeeds
    RateFamilies = {"target"}
    QueryBudget = 3
    WallMs = 1
    NsPerMs = 2
    Verdicts <- MCVerdicts
    Session <- MCSession
    MaxNow = 3
    w1 = w1
    w2 = w2
    json = json
    text = text
    bytes = bytes
    NoDir = NoDir
    Writers = {w1, w2}
    Payloads = {bytes}
    MediaTypes = {json, text}
    Calls <- MCCalls
    MaxDirs = 3
    MaxFaults = 1
    MaxLosses = 1
CHECK_DEADLOCK FALSE
INVARIANTS
    OneStory
    MoneyFollowsStates
    RetriesHarmless
    OracleAgrees
    ClaimHonest
    UndisturbedPublishes
    ArtifactsDurable
PROPERTIES
    CorruptionContained
    PutEnds
    ImplementsStore
