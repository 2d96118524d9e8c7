SPECIFICATION Spec
CONSTANTS
    Columns = {"amount", "label"}
    Fixed <- MCFixed
    MaxReflows = 2
    AvoidSort = {"label"}
    Characters = {"a", "A", "b", "B", " "}
    UpperOf <- MCUpperOf
    Records = {"r1", "r2"}
    Cells <- MCCells
    CustomMatches <- MCCustomMatches
    Expressions <- MCExpressions
    NoExpression = NoExpression
    MaxTimers = 2
    MaxUnticked = 2
    Items <- MCItems
    Unknown = "x"
    Todays <- MCTodays
    MaxNumber = 2
    Pages = {"p", "q"}
    PageOf <- MCPageOf
INVARIANTS
    TypeOK
    StoreFollowsToolbar
    ToolbarWellFormed
    EventsComeBack
    ShownAreMatches
    LiveSearchCatchesUp
    EachInOneList
    UpAndDownByOne
    DecodedIsMeant
    CalledBackWithMessages
CHECK_DEADLOCK FALSE
