SPECIFICATION FairSpec
CONSTANTS
    c1 = c1
    c2 = c2
    c3 = c3
    Clients = {c1, c2, c3}
    MAX_EVENTS = 2
    MaxFd = 2
    Window = 1
    MaxMessage <- Talk
INVARIANTS TypeOK NoLostEdge EventsNotStale EchoesKept
PROPERTIES AllServed
CHECK_DEADLOCK FALSE
