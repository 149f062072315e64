CONSTANTS
    Docs = {d1, d2, d3}
    NumSteps = 3
    ReraisingSteps <- LastTwoSteps
    Workers = {main}
    NoMessage = NoMessage
    MaxCrashes = 2
    MaxStops = 1
    MaxFailures = 1
SPECIFICATION FairSpec
INVARIANTS
    OneMessagePerRow
    QueueIsPendingRows
    ProcessingIsBeingHandled
PROPERTIES
    ImplementsCheckpoints
    DocumentsFinish
