SPECIFICATION FairSpec
CONSTANTS
    BUFFER_SIZE = 1
    MaxItem = 2
    MaxSpurious = 0
PROPERTIES ExitsByItself
CHECK_DEADLOCK FALSE
