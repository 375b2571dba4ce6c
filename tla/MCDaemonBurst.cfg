SPECIFICATION DaemonSpec
CONSTANTS
    hook = hook
    tick = tick
    e1 = e1
    e2 = e2
    e3 = e3
    Pipelines <- HookOnly
    Webhooks <- HookOnly
    Drop = {}
    MaxRuns = 2
    QuarantineAfter = 2
    Events <- SmallEvents
    PipelineOf <- BurstOf
    AdminOn = FALSE
INVARIANTS
    OverlapRespected
    QuarantineExact
PROPERTIES
    RegistrationCloses
    QuarantineBrakes
    ShutdownEnds
    EventsAnswered
