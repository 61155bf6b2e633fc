\* Incus may go on with a deletion its client has given up.
SPECIFICATION Spec
CONSTANTS
    MaxTasks = 3
    PromptDeletes = FALSE
    SharedSweep = FALSE
INVARIANTS
    LastCopy
