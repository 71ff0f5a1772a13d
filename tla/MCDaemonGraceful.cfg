SPECIFICATION Spec
CONSTANTS
    tcp = tcp
    unix = unix
    Tcp = {tcp}
    Unix = {unix}
    Listen <- MCListen
    Client = {c}
    MaxStarts = 1
INVARIANT GracefulShutdown
\* A process that exited for the last time stops.
CHECK_DEADLOCK FALSE
