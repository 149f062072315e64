CONSTANTS
    Docs = {d1}
    NumSteps = 3
    ReraisingSteps <- LastTwoSteps
    Workers = {w1, w2}
    NoMessage = NoMessage
    MaxCrashes = 1
    MaxDuplicates = 1
    MaxRefusals = 1
    MaxFailures = 1
SPECIFICATION FairSpec
INVARIANTS
    TypeOK
    CheckpointOrder
    MessagesNameRows
    NoAbandonedProcessing
    NoStrandedPending
PROPERTIES
    ImplementsCheckpoints
    DocumentsFinish
CHECK_DEADLOCK FALSE
