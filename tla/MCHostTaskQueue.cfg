\* Two backend nodes, two rows at a time, deletions of instances.
SPECIFICATION Spec
CONSTANTS
    n1 = n1
    n2 = n2
    h1 = h1
    i1 = i1
    i2 = i2
    u1 = u1
    u2 = u2
    Node <- TwoNodes
    Host <- OneHost
    Instance <- Instances
    User <- OneUser
    HostOf <- SharedHost
    MaxTasks = 2
    MaxAsked = 1
    MaxRetry = 1
    MaxCrashes = 1
    MaxDeletes = 1
SYMMETRY Symmetric
INVARIANTS
    HostExclusive
    OneActivePerSubject
    OwnerDeletesIdleOnly
PROPERTIES
    TerminalIsFinal
    SlotsSpec
CHECK_DEADLOCK FALSE
