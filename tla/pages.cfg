\* One tab, two operations, two users.
SPECIFICATION LiveSpec
CONSTANTS
    MaxSubmissions = 2
    Users = {u1, u2}
    NoUser = NoUser
    Limit = 1
    Opening <- MCOpening
    MaxCalls = 2
    MaxVisits = 3
INVARIANTS
    TypeOK
    OwnOperationsShown
    BalanceOfListed
    OneOpenPerVisit
PROPERTIES
    ButtonComesBack
