SPECIFICATION Spec
CONSTANTS
    Directories <- SmallDirectories
    Claims = {"POST /a/{x}", "POST /{x}/b", "POST /c"}
    NoClaim = ""
    Matches <- Crossing
INVARIANT
    ServeComesUp
