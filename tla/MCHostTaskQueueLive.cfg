\* Fair scheduling: one backend node that may crash, two rows at a time, one deletion.
SPECIFICATION FairSpec
CONSTANTS
    n1 = n1
    n2 = n2
    h1 = h1
    i1 = i1
    i2 = i2
    u1 = u1
    u2 = u2
    Node <- OneNode
    Host <- OneHost
    Instance <- Instances
    User <- OneUser
    HostOf <- SharedHost
    MaxTasks = 2
    MaxAsked = 1
    MaxRetry = 1
    MaxCrashes = 1
    MaxDeletes = 1
INVARIANTS
    OneHeavyWorkPerHost
    ExecutedRowIsProcessing
PROPERTIES
    HostFreed
    PendingServed
CHECK_DEADLOCK FALSE
