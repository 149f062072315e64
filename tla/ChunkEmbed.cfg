CONSTANTS
    Docs = {d1}
    NumSteps = 2
    ReraisingSteps = {1, 2}
    Workers = {w1, w2}
    NoMessage = NoMessage
    MaxCrashes = 1
    MaxDuplicates = 1
    MaxRefusals = 1
    MaxFailures = 1
SPECIFICATION StoreSpec
INVARIANTS
    OneChunkSet
    CompletedMeansEmbedded
CHECK_DEADLOCK FALSE
