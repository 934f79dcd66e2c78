SPECIFICATION LiveSpec
CONSTANTS
    a = a
    b = b
    c = c
    idle = idle
    NoTask = NoTask
    Task <- ThreeTasks
    Idle <- idle
    Prio <- PeersAboveOne
    MaxPrio = 2
    Half = 3
    TimeSlice = 2
    TimeSlicing = TRUE
    Delays = {1, 2}
    Elapsed = {1, 2}
    MaskedSwitch = TRUE
PROPERTIES
    KeepsPromise
    KeepsFairPromise
    DelayedTaskWakes
    TopPriorityRuns
