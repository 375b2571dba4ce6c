SPECIFICATION CliSpec
CONSTANTS
    Directories <- SmallDirectories
    Claims = {"POST /a", "POST /b", "POST /", "POST /{"}
    NoClaim = ""
    Matches <- Nested
    CommandLines <- SmallLines
    Plans <- SmallPlans
    Assignments <- SmallAssignments
    Contents <- SmallContents
    DirPath = "d"
INVARIANTS
    CliTypeOK
    NoHijack
    Accounted
    Deterministic
    ExitTruthful
    GateHolds
