CONSTANTS
    Objects <- SomeObjects
    Ranges <- SomeRanges
    Fronts = {"rpc", "http"}
    Places = {"store", "away", "nowhere"}
    NoRange = NoRange
    Open = Open
    None = None
    Step = 2
    Ring = 3
    MaxAsks = 1
    MaxFaults = 0
SPECIFICATION Spec
INVARIANT WholeObject
CHECK_DEADLOCK FALSE
