SPECIFICATION FairSpec
CONSTANTS
    Threads <- AllThreads
    Programs <- AllPrograms
INVARIANTS Exact
PROPERTIES CounterSpec ReadersUndisturbed Terminates
CHECK_DEADLOCK FALSE
