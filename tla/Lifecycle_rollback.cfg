SPECIFICATION Spec
CONSTANTS
    idle = idle
    service = service
    NoTask = NoTask
    Idle <- idle
    Service <- service
    MaxTasks = 3
    MaxTimers = 2
    MaxPrio = 3
    ServicePrio = 2
    Half = 4
INVARIANTS
    TasksAsCreated
PROPERTIES
    FailedCallChangesNothing
