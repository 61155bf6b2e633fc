\* One node, deletions that end while their client waits.
SPECIFICATION Spec
CONSTANTS
    MaxTasks = 3
    PromptDeletes = TRUE
    SharedSweep = FALSE
INVARIANTS
    LastCopy
    PlainFailureKeepsOriginal
PROPERTIES
    CompletedIsRestored
CHECK_DEADLOCK FALSE
