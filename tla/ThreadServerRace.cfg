SPECIFICATION Spec
CONSTANTS
    c1 = c1
    c2 = c2
    Clients = {c1, c2}
    MaxMessage <- Talk
    MaxFds = 2
    MaxRefused = 0
    MaxLost = 0
    Eager = FALSE
INVARIANTS OneThreadPerClient
CHECK_DEADLOCK FALSE
