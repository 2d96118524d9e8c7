\* A pool of two connections for three calls.
SPECIFICATION LivePoolSpec
CONSTANTS
    Requests = {r1, r2, r3}
    Identifiers = {u1}
    Amounts = {2}
    MAX_AMOUNT_AUTORIZED = 3
    SeedCredits <- MCSeedCredits
    SeedDebits <- MCSeedDebits
    DebitsInFlight = 1
    Transactional = TRUE
    MaxTotal = 2
INVARIANTS
    PoolTypeOK
    OverdraftBoundWithResets
PROPERTIES
    StableOnceFull
    ScriptWaitsForTransactions
    EveryCallAnswered
