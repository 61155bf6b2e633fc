\* A refund takes a part of a row that a job of a process has read already.
SPECIFICATION Spec
CONSTANTS
    Process = {p1, p2}
    Owner <- Owners
    Instance = {i1}
    HostedBy <- OneHost
    MaxRows = 2
    MaxWithdrawals = 0
    MaxAmount = 2
    MaxNet = 0
    Fee = 1
    ShrinkRead = TRUE
SYMMETRY Symmetry
PROPERTY ReleasesWhatIsLeft
CHECK_DEADLOCK FALSE
