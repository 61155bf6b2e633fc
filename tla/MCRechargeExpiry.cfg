\* A new link is asked for after the expiry.
SPECIFICATION Spec
CONSTANTS
    l1 = l1
    l2 = l2
    h1 = h1
    h2 = h2
    Link = {l1, l2}
    First = l1
    Handler = {h1, h2}
    Kinds = {"callback", "repay", "repayExpired", "expire"}
    Provider = "yipay"
    Amount = 1
    Crashes = FALSE
    MaxRequests = 1
    MaxReclaimed = 2
SYMMETRY Symmetry
PROPERTIES
    PaidSurvivesExpiry
CHECK_DEADLOCK FALSE
