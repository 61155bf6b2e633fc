\* One service at a time: two processes or handlers, or three where it takes three.
SPECIFICATION Spec
CONSTANTS
    Process = {p1, p2}
    Handler = {p1, p2, p3}
    Item = {x1, x2}
    None = None
SYMMETRY Symmetry
INVARIANTS
    TypeOK
    IncomeIsOnce
    PaidBackOnce
    RunningHasMachine
    FailureLeavesNothing
    MoneyIsKept
    PendingUntilPatched
    DomainsFollow
    NothingHidden
    BandwidthFollows
    CopiesKept
    PortsKept
PROPERTIES
    MovesWithMachine
    Throttled
    NextPassHeals
CHECK_DEADLOCK FALSE
