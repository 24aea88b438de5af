SPECIFICATION BusySpec
CONSTANTS
    d1 = d1
    d2 = d2
    p1 = p1
    Daemons = {d1, d2}
    Ports = {p1}
    Port <- SamePort
    Backlog = 1
    MaxCrash = 1
INVARIANTS TypeOK PidFileTells
PROPERTIES TermEnds
CHECK_DEADLOCK FALSE
