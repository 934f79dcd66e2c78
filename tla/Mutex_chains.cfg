SPECIFICATION Spec
CONSTANTS
    a = a
    b = b
    c = c
    d = d
    idle = idle
    NoTask = NoTask
    NoMutex = NoMutex
    Forever = Forever
    Task <- FourTasks
    Idle <- idle
    Base <- PeersBelowTwo
    MaxPrio = 3
    m1 = m1
    m2 = m2
    m3 = m3
    Mutexes <- ThreeMutexes
    MaxOwned = 2
    Half = 2
    Delays = {1}
    Timeouts = {1}
SYMMETRY
    MutexSymmetry
INVARIANTS
    QueueMembership
    OwnershipIsBounded
    InheritanceExact
    WalkIsAcyclic
    InversionIsBounded
    MutualExclusion
PROPERTIES
    HandedToMostUrgent
