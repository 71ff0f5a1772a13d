SPECIFICATION Spec
CONSTANTS
    Cases <- MCCases
    Files <- MCFiles
INVARIANT SpfNotPassLetsOnlyPassThrough
CHECK_DEADLOCK FALSE
