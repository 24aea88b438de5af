SPECIFICATION FairSpec
CONSTANTS
    Threads <- AllThreads
    Programs <- WriterPreferring
PROPERTIES WaitingWriterStopsReaders
CHECK_DEADLOCK FALSE
