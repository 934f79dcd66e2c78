SPECIFICATION Spec
CONSTANTS
    a = a
    b = b
    c = c
    idle = idle
    NoTask = NoTask
    Task <- ThreeTasks
    Idle <- idle
    Prio <- PeersAboveOne
    MaxPrio = 2
    Half = 4
    TimeSlice = 2
    TimeSlicing = TRUE
    Delays = {1, 2, 3}
    Elapsed = {1, 3}
    MaskedSwitch = FALSE
INVARIANTS
    QueueMembership
    PlanCoherent
    DecisionIsHighest
    NoLostReschedule
    CallsCoherent
    DelaysOnTime
    HalfRangeUnreached
PROPERTY
    NoEarlyWake
    NoOvertaking
