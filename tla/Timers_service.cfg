SPECIFICATION TimersSpec
CONSTANTS
    a = a
    b = b
    service = service
    idle = idle
    p = p
    q = q
    NoTask = NoTask
    NoTimer = NoTimer
    Task <- FourTasks
    Idle <- idle
    Service <- service
    Prio <- ServiceBetween
    MaxPrio = 3
    Half = 9
    TimeSlice = 1
    TimeSlicing = FALSE
    Delays = {1}
    Elapsed = {1, 7}
    MaskedSwitch = TRUE
    Timer = {p, q}
    Period <- PeriodsThree
    Periodic <- FirstIsPeriodic
    Generations = 2
VIEW InUse
INVARIANTS
    TimersCoherent
    TimersOnTime
    WorkKeepsServiceAwake
PROPERTIES
    CallbackIsOwed
CHECK_DEADLOCK FALSE
