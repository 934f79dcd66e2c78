SPECIFICATION Spec
CONSTANTS
    a = a
    b = b
    c = c
    idle = idle
    NoTask = NoTask
    Task <- ThreeTasks
    Idle <- idle
    MaxPrio = 4
    Period <- Periods
    Relative <- Deadlines
    Budget <- Budgets
    Jitter = {0, 1}
    TimeSlice = 2
    Half = 7
INVARIANTS
    MostUrgentRuns
    DeadlinesMet
PROPERTIES
    PeersKeepTheirTurn
