\* Two sessions, two recalls of pages of one, a suspension and a fault.
CONSTANTS
    States = {"active", "resolved"}
    Sessions = {s, t}
    Learned <- MCLearned
    Authored <- MCAuthored
    Supported <- MCSupported
    Selectors <- MCSelectors
    PageSize = 1
    MaxRecalls = 2
    MaxOverviews = 1
    MaxEpoch = 1
    MaxWaits = 1
    MaxEvents = 3
    MaxFaults = 1
SYMMETRY MCSymmetry
CHECK_DEADLOCK FALSE
SPECIFICATION MemorySpec
INVARIANT StoreIsWhole
INVARIANT WordsAreKept
INVARIANT HistoryIsWhole
INVARIANT SupportsAreGrounded
INVARIANT RecallIsExact
PROPERTY BindsCurrentTasks
