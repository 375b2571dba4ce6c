SPECIFICATION Spec
CONSTANTS
    N = 6
    Deps <- DiamondDeps
    Dependents <- DiamondDependents
    Inputs <- DiamondInputs
    Roots <- DiamondRoots
    MaxAttempts <- DiamondAttempts
    NoBackoff = {2}
    MaxConcurrency = 2
    SlotCap = 2
    Inline = TRUE
    DetectMutation = TRUE
    Mutators = {3, 4}
    Aliases = {3}
    Contents = {0, 1}
INVARIANTS
    TypeOK
    DependenciesFirst
    HonestReport
    CompletionsExact
    NeverCutShort
    MutationsExact
    SlotsConserved
PROPERTIES
    RetryWithinPolicy
    Contract
