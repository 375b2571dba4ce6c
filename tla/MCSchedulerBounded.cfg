SPECIFICATION EngineSpec
CONSTANTS
    N = 5
    Deps <- WideDeps
    Dependents <- WideDependents
    Inputs <- WideInputs
    Roots <- WideRoots
    MaxAttempts <- WideAttempts
    NoBackoff = {1}
    MaxConcurrency = 2
    SlotCap = 3
    Inline = FALSE
    DetectMutation = FALSE
    Mutators = {}
    Aliases = {}
    Contents = {0}
INVARIANTS
    ConcurrencyBounded
PROPERTIES
    ReturnsOnceStopping
    Terminates
    SlotsComeBack
    Contract
