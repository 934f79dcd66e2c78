SPECIFICATION TicklessSpec
CONSTANTS
    a = a
    service = service
    idle = idle
    p = p
    NoTask = NoTask
    NoTimer = NoTimer
    Forever = Forever
    Task <- OneTask
    Idle <- idle
    Service <- service
    Prio <- TaskAboveService
    MaxPrio = 2
    Half = 4
    TimeSlice = 1
    TimeSlicing = FALSE
    Delays = {1}
    Elapsed = {1}
    MaskedSwitch = TRUE
    InitialCount = 0
    MaximumCount = 1
    Timeouts = {3}
    NestedGive = FALSE
    Timer = {p}
    Period <- EveryTwo
    Periodic <- IsPeriodic
    Generations = 1
    MaxSleep = 3
    QuietSleep = FALSE
PROPERTY
    NoEarlyDelayEnd
