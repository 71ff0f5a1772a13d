SPECIFICATION Spec
CONSTANTS
    Domain = {"a", "b"}
    Verdict = {"Pass", "Fail"}
    SpfConfig <- MCSpfConfig
    Overrides <- MCOverrides
    Dns <- MCDns
INVARIANT OverrideKeysAreLowercase
\* Checks that have ended stop.
CHECK_DEADLOCK FALSE
