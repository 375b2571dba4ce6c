SPECIFICATION Spec
CONSTANTS
    hook = hook
    tick = tick
    e1 = e1
    e2 = e2
    e3 = e3
    Pipelines <- Both
    Webhooks <- HookOnly
    Drop = {}
    MaxRuns = 2
    QuarantineAfter = 1
    Events <- SmallEvents
    PipelineOf <- MixedOf
    AdminOn = TRUE
INVARIANTS
    NotReadyWhileDraining
