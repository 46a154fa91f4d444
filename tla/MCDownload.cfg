CONSTANTS
    Objects <- SomeObjects
    Ranges <- SomeRanges
    Fronts = {"rpc", "http"}
    Places = {"store", "away", "nowhere"}
    NoRange = NoRange
    Open = Open
    None = None
    Step = 2
    Ring = 3
    MaxAsks = 2
    MaxFaults = 1
SPECIFICATION FairSpec
INVARIANTS ClosedOnce OrderKept LosesAtMostLast StaleNeedsEarlyReader
PROPERTIES Drains
CHECK_DEADLOCK FALSE
