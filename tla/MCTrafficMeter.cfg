\* One instance that changes hands, is restarted and deleted.
SPECIFICATION MCSpec
CONSTANTS
    i1 = i1
    u1 = u1
    u2 = u2
    c1 = c1
    a1 = a1
    r1 = r1
    Free = Free
    Lost = Lost
    Instance = {i1}
    User = {u1, u2}
    Collector = {c1}
    Reporter = {a1}
    Resetter = {r1}
    Ops = {"restart", "transfer", "delete"}
    MaxTraffic = 2
    MaxTime = 3
    Single = Nothing
INVARIANTS
    OldTrafficStaysOut
PROPERTIES
    BaselineForward
CHECK_DEADLOCK FALSE
