CONSTANTS
    c1 = c1
    c2 = c2
    BUF_LEN = 3
    MaxTyped = 7
    Roses = {r, w}
    UdpClients = {u1, u2}
    Stranger = s
    RcvBuf = 2
    MaxLines = 2
    MaxStarts = 2
    MaxStray = 1
    MaxSaid = 2
    MaxWords = 3
    Clients = {c1, c2}
    MaxMessage <- Talk
    Rounds = 5
    Values = {1, 2}
SPECIFICATION StudiesSpec
INVARIANTS StudiesTypeOK MutualExclusion InStep NothingCut RingInOrder
PROPERTIES SlotSpec Answered ThreadsEnd
CHECK_DEADLOCK FALSE
