SPECIFICATION MCSpec
CONSTANTS
    alice = alice
    bob = bob
    bank = bank
    usd = usd
    jpy = jpy
    xxx = xxx
    e1 = e1
    e2 = e2
    BlankAccount = BlankAccount
    BlankId = BlankId
    Accounts <- MCAccounts
    Currencies <- MCCurrencies
    Grain <- MCGrain
    CreditAccounts <- MCCreditAccounts
    CreditPairs <- MCCreditPairs
    Openings <- MCOpenings
    Requests <- MCRequests
    MaxTime = 1
    Profiles <- MCProfiles
CHECK_DEADLOCK FALSE
INVARIANTS
    BooksBalance
    NoOverdraft
    IndexAgrees
    DeliveryOrder
    LogCanonical
    HonestNeverRefused
PROPERTIES
    AppendOnly
    
    DueWorkServed
