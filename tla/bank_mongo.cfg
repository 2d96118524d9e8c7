\* The Mongo store; the clients run two debits of an account at once.
SPECIFICATION Spec
CONSTANTS
    Requests = {r1, r2, r3}
    Identifiers = {u1, u2}
    Amounts = {4}
    MAX_AMOUNT_AUTORIZED = 4
    SeedCredits <- MCSeedCredits
    SeedDebits <- MCSeedDebits
    DebitsInFlight = 2
    Transactional = FALSE
SYMMETRY Symmetry
INVARIANTS
    OverdraftBound
    AcknowledgedStored
