\* Two instances of one user, or one whose machine is disturbed; hosts answer late.
SPECIFICATION MCSpec
CONSTANTS
    i1 = i1
    i2 = i2
    u1 = u1
    c1 = c1
    a1 = a1
    r1 = r1
    Free = Free
    Lost = Lost
    Instance = {i1, i2}
    User = {u1}
    Collector = {c1}
    Reporter = {a1}
    Resetter = {r1}
    Ops = {"slow"}
    MaxTraffic = 1
    MaxTime = 3
    Single = i1
INVARIANTS
    UserUsageIsSum
    NoLostUpdate
