SPECIFICATION FairSpec
CONSTANTS
    c1 = c1
    c2 = c2
    Clients = {c1, c2}
    MaxMessage <- Talk
    MaxFds = 2
    MaxRefused = 1
    MaxLost = 1
    Eager = TRUE
INVARIANTS TypeOK OneThreadPerClient NoneOrphaned AnsweredBeforeClose
PROPERTIES ClientsFinish
CHECK_DEADLOCK FALSE
