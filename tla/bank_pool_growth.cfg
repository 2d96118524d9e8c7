\* A pool of two connections for three calls: what a growing pool does to the table.
SPECIFICATION PoolSpec
CONSTANTS
    Requests = {r1, r2, r3}
    Identifiers = {u1}
    Amounts = {2}
    MAX_AMOUNT_AUTORIZED = 3
    SeedCredits <- MCSeedCredits
    SeedDebits <- MCSeedDebits
    DebitsInFlight = 2
    Transactional = TRUE
    MaxTotal = 2
SYMMETRY Symmetry
INVARIANT AcknowledgedStored
