SPECIFICATION FairSpec
CONSTANTS
    d1 = d1
    d2 = d2
    p1 = p1
    Daemons = {d1}
    Ports = {p1}
    Port <- SamePort
    Backlog = 1
    MaxCrash = 0
PROPERTIES TermEnds
CHECK_DEADLOCK FALSE
