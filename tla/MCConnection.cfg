SPECIFICATION FairSpec
CONSTANTS
    NL = nl
    EQ = eq
    Byte = {nl, eq, ch}
    MaxBytes = 6
    Window = 1
INVARIANTS
    TypeOK
    BufferIsTheRest
PROPERTY KeepsPromise
\* A closed connection stops.
CHECK_DEADLOCK FALSE
