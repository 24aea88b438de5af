SPECIFICATION FairSpec
CONSTANTS
    Scenarios <- AllScenarios
    Names <- AllNames
    Capacity = 2
    MaxRuns = 3
    MaxLines = 3
    MaxCuts = 1
INVARIANTS TypeOK OneInside FromOwnRun NoNameLeft
PROPERTIES EndsUnlessDeserted
CHECK_DEADLOCK FALSE
