SPECIFICATION FairSpec
CONSTANTS
    tcp = tcp
    unix = unix
    Tcp = {tcp}
    Unix = {unix}
    Listen <- MCListen
    Client = {c}
    MaxStarts = 1
PROPERTY OneLoopPerListener
\* A process that exited for the last time stops.
CHECK_DEADLOCK FALSE
