SPECIFICATION Spec
CONSTANTS
    NumInputs = 1
    N = 4
    Types = {"A", "B"}
    Catalog <- SmallCatalog
    ResponseTypes = {"B"}
    Files <- SmallFiles
INVARIANTS
    TypeOK
    AcceptsExactly
    PlanRunnable
    WindowsDisjoint
    CycleReal
    NothingHidden
