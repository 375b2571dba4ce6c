SPECIFICATION Spec
CONSTANTS
    Steps <- SmallSteps
    MaxAttempts = 3
    MaxInt = 3
    MaxBody = 3
    MaxRedirects = 3
    Addresses = {"public", "private"}
    Internal = {"private"}
    Scenarios <- SmallScenarios
    DefaultMax = 2
INVARIANTS
    StatusTruthful
    RunsOnWhatWasSent
PROPERTIES
    ResultTruthful
    StepReturns
