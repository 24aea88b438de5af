SPECIFICATION FairSpec
CONSTANTS
    c1 = c1
    c2 = c2
    Clients = {c1, c2}
    MaxMessage <- Talk
    MaxRefused = 1
INVARIANTS ZombieNoticed DescriptorsPrivate AnsweredBeforeClose
PROPERTIES ZombiesReaped ClientsFinish
CHECK_DEADLOCK FALSE
