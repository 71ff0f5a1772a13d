SPECIFICATION Spec
CONSTANTS
    hosts = hosts
    Bad = Bad
    NoRequest = NoRequest
    Conf <- MCConf
    Path <- MCPath
    Content <- MCContent
    Request <- MCRequest
    Worker = {w}
    Outcome = {"Pass", "Fail"}
    Today = 2050
    MaxDisk = 3
INVARIANTS
    TypeOK
    InstalledPairMatches
    WhitelistIsOneLoad
    ReadsMoveForward
    ExemptionMovesSeamlessly
    NoStaleExemption
\* A process that exited stops, and so does the operator at MaxDisk.
CHECK_DEADLOCK FALSE
