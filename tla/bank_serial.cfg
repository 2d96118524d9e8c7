\* The JDBC store; the clients run one debit of an account at a time.
SPECIFICATION Spec
CONSTANTS
    Requests = {r1, r2, r3}
    Identifiers = {u1}
    Amounts <- MCAmounts
    MAX_AMOUNT_AUTORIZED = 3
    SeedCredits <- MCSeedCredits
    SeedDebits <- MCSeedDebits
    DebitsInFlight = 1
    Transactional = TRUE
SYMMETRY Symmetry
INVARIANTS
    TypeOK
    NonNegative
    SuccessIffStored
    SumsMatchRows
PROPERTIES
    NeverOverstated
    DebitAnswerCovered
    ImplementsAccount
