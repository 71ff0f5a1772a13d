SPECIFICATION ServiceSpec
CONSTANTS
    hosts = hosts
    Bad = Bad
    NoRequest = NoRequest
    Conf <- MCConf
    Path <- MCPath
    Content <- MCFewContent
    Request <- MCServiceRequest
    Worker = {v, w}
    Outcome = {"Fail"}
    Today = 2050
    MaxDisk = 2
    MaxStarts = 2
SYMMETRY Connections
INVARIANTS
    ServiceTypeOK
    EvaluatorIsOfTheStart
PROPERTIES
    ImplementsPolicyService
\* A process that exited for the last time stops.
CHECK_DEADLOCK FALSE
