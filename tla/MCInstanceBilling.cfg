\* Five sets of operations, each with two handlers (MCInstanceBilling).
SPECIFICATION MCSpec
CONSTANTS
    Handler = {h1, h2}
    Kinds <- Renewing
    PromptDeletes = TRUE
    Crashes = TRUE
    Price = 1
    Period = 1
    Window = 1
    Grace = 0
    MaxAttempts = 1
    Deposit = 1
    MaxTime = 3
    MaxExpiry = 3
    MaxSpent = 3
    MaxVersion = 3
SYMMETRY Symmetry
INVARIANTS
    RefundsWithinPayments
    
    GoneIsDeleted
PROPERTIES
    ExpiryDeletesOnlyExpired
    ChargedTimeIsAdded
    AutoRenewalPaysNextPeriodOnly
CHECK_DEADLOCK FALSE
