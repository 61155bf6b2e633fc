\* Fair requests and a gateway that repeats what is not acknowledged.
SPECIFICATION FairSpec
CONSTANTS
    l1 = l1
    l2 = l2
    h1 = h1
    h2 = h2
    Link = {l1, l2}
    First = l1
    Handler = {h1, h2}
    Kinds <- Crediting
    Provider = "yipay"
    Amount = 1
    Crashes = TRUE
    MaxRequests = 1
    MaxReclaimed = 2
INVARIANTS
    MarkedIsSettled
PROPERTIES
    PaidIsCredited
CHECK_DEADLOCK FALSE
