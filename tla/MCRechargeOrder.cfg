\* Every operation but completion on trust; the provider reports failures.
SPECIFICATION Spec
CONSTANTS
    l1 = l1
    l2 = l2
    h1 = h1
    h2 = h2
    Link = {l1, l2}
    First = l1
    Handler = {h1, h2}
    Kinds <- Untrusting
    Provider = "heleket"
    Amount = 1
    Crashes = TRUE
    MaxRequests = 1
    MaxReclaimed = 2
SYMMETRY Symmetry
PROPERTIES
    PaidOrderSpec
CHECK_DEADLOCK FALSE
