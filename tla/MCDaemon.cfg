SPECIFICATION FairSpec
CONSTANTS
    tcp = tcp
    unix = unix
    Tcp = {tcp}
    Unix = {unix}
    Listen <- MCListen
    Client = {c, d}
    MaxStarts = 2
INVARIANTS
    TypeOK
    StatusIsTrue
PROPERTIES
    ListensAgain
    SigtermEnds
\* A process that exited for the last time stops.
CHECK_DEADLOCK FALSE
