SPECIFICATION RunningSpec
CONSTANTS
    BUFFER_SIZE = 2
    MaxItem = 4
    MaxSpurious = 2
INVARIANTS AccessInBounds NoMissedSignal
PROPERTIES KeepsMoving ExitsUnlessStranded StackSpec
CHECK_DEADLOCK FALSE
