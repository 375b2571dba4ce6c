SPECIFICATION EngineSpec
CONSTANTS
    N = 5
    Deps <- FanDeps
    Dependents <- FanDependents
    Inputs <- FanInputs
    Roots <- FanRoots
    MaxAttempts <- FanAttempts
    NoBackoff = {2}
    MaxConcurrency = 2
    SlotCap = 0
    Inline = FALSE
    DetectMutation = FALSE
    Mutators = {}
    Aliases = {}
    Contents = {0}
PROPERTIES
    AbandonedWereRunning
