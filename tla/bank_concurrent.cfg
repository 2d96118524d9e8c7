\* As bank_serial, with two debits of one account at once.
SPECIFICATION Spec
CONSTANTS
    Requests = {r1, r2, r3}
    Identifiers = {u1}
    Amounts <- MCFewAmounts
    MAX_AMOUNT_AUTORIZED = 3
    SeedCredits <- MCSeedCredits
    SeedDebits <- MCSeedDebits
    DebitsInFlight = 2
    Transactional = TRUE
SYMMETRY Symmetry
INVARIANT NonNegative
