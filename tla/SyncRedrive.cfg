CONSTANTS
    Docs = {d1}
    NumSteps = 2
    ReraisingSteps <- LastTwoSteps
    Workers = {main}
    NoMessage = NoMessage
    MaxCrashes = 1
    MaxStops = 0
    MaxFailures = 0
SPECIFICATION FairSpec
PROPERTIES
    DeadRunsAreRedriven
