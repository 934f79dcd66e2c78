SPECIFICATION SemSpec
CONSTANTS
    a = a
    b = b
    c = c
    idle = idle
    NoTask = NoTask
    Forever = Forever
    Task <- ThreeTasks
    Idle <- idle
    Prio <- PeersAboveOne
    MaxPrio = 2
    Half = 4
    TimeSlice = 2
    TimeSlicing = TRUE
    Delays = {1}
    Elapsed = {1}
    MaskedSwitch = FALSE
    InitialCount = 0
    MaximumCount = 2
    Timeouts = {1, 2}
    NestedGive = FALSE
INVARIANTS
    WaitMembership
    UnitsConserved
    TakeIsDecided
    ExpiryIsValid
    DecisionIsHighest
PROPERTIES
    ServedInOrder
    NoEarlyTimeout
