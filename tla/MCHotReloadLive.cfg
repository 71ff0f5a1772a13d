SPECIFICATION FairSpec
CONSTANTS
    hosts = hosts
    Bad = Bad
    NoRequest = NoRequest
    Conf <- MCFewConf
    Path <- MCPath
    Content <- MCFewContent
    Request <- MCFewRequest
    Worker = {w}
    Outcome = {"Fail"}
    Today = 2050
    MaxDisk = 3
PROPERTIES
    EveryRequestAnswered
    SighupTakesEffect
\* A process that exited stops, and so does the operator at MaxDisk.
CHECK_DEADLOCK FALSE
