SPECIFICATION Spec
CONSTANTS
    Rows = {r1, r2}
    Messages = {"said"}
    Actions <- MCActions
    Buttons <- MCButtons
    Values = {"active", "planned"}
    Allowed = {"active"}
    Risky = {"planned"}
    NotSelected = "said"
    NotValid = "said"
INVARIANTS
    TypeOK
    IconXorBox
    EveryMessageReachable
    RiskyIsAsked
PROPERTY
    KeptNotLost
SYMMETRY RowSymmetry
