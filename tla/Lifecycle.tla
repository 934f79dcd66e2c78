----------------------------- MODULE Lifecycle ------------------------------
(***************************************************************************)
(* From reset to the first task: rts_init, rts_task_create, rts_timer_init *)
(* and rts_start, with the task pool, the timer pool and every point at    *)
(* which the port may fail.  Each call does its work in one critical       *)
(* section, before any task runs, so each is one step; within it, the      *)
(* operators on the kernel record follow the order of the code.            *)
(*                                                                         *)
(* The kernel runs on the host port, whose failures are injected, or on    *)
(* the S32K148 target; the initial state chooses one.  A configuration is  *)
(* its priority and whether its other fields pass validation.  The policy  *)
(* is the fixed-priority one: Policies has the creation of EDF and RMS     *)
(* tasks.  A call from an interrupt is refused, as in a build without      *)
(* assertions.                                                             *)
(***************************************************************************)
EXTENDS KernelQueues

CONSTANTS
    MaxTasks,       \* RTS_MAX_TASKS
    MaxTimers,      \* RTS_MAX_TIMERS
    MaxPrio,        \* RTS_PRIORITY_COUNT - 1
    ServicePrio,    \* RTS_TIMER_SERVICE_PRIORITY
    Idle,           \* &kernel->idle_task_storage
    Service,        \* &kernel->timer_service_task_storage
    NoTask          \* NULL

ASSUME LifecycleAssumption ==
    /\ MaxTasks \in Nat \ {0} /\ MaxTimers \in Nat \ {0}
    /\ MaxPrio \in Nat /\ ServicePrio \in 1 .. MaxPrio
    /\ Idle # Service
    /\ {Idle, Service} \cap 0 .. (MaxTasks - 1) = {}

VARIABLES
    port,           \* the port the kernel is linked with
    kernel,         \* rts_kernel_state_t
    timers,         \* rts_timer_manager: its slots
    tick,           \* the state of the tick source
    handoff,        \* the start hand-off of the port
    result,         \* what the last call returned
    handles,        \* history: the tasks handed out, in order, with the priority asked for
    timerHandles    \* history: the timers handed out, in order

vars == <<port, kernel, timers, tick, handoff, result, handles, timerHandles>>

TaskSlots == 0 .. (MaxTasks - 1)
TimerSlots == 0 .. (MaxTimers - 1)

\* The fields of a task object that later steps read.
ZeroObject == [state |-> "DORMANT", priority |-> 0, stack |-> FALSE]

Object(state, p) == [state |-> state, priority |-> p, stack |-> FALSE]

\* rts_task_pool_initialize, rts_timer_manager_initialize.
EmptyPool(slots) == [slot |-> [i \in slots |-> "FREE"], count |-> 0, hint |-> 0]

\* The static-zero aggregate, which rts_policy_initialize leaves as it is.
ZeroKernel ==
    [lifecycle |-> "RESET",
     pool      |-> EmptyPool(TaskSlots),
     object    |-> [t \in TaskSlots \cup {Idle, Service} |-> ZeroObject],
     ready     |-> [p \in 0 .. MaxPrio |-> << >>],
     internal  |-> {},
     current   |-> NoTask]

Init ==
    /\ port \in {"host", "s32k148"}
    /\ kernel = ZeroKernel
    /\ timers = EmptyPool(TimerSlots)
    /\ tick = "UNINITIALIZED"
    /\ handoff = "none"
    /\ result = [call |-> "none", status |-> "OK"]
    /\ handles = << >>
    /\ timerHandles = << >>

Returns(call, status) == result' = [call |-> call, status |-> status]

Check(fails, status) == IF fails THEN status ELSE "OK"

\* Early returns: the status of the first check that fails.
FirstFailure(checks) ==
    LET failed == {i \in DOMAIN checks : checks[i] # "OK"}
    IN  IF failed = {} THEN "OK" ELSE checks[Min(failed)]
-----------------------------------------------------------------------------
(* The pools of tasks and timers. *)

\* The slots the circular scan from next_free_hint can stop at.
FreeSlots(pool) == {i \in DOMAIN pool.slot : pool.slot[i] = "FREE"}

\* The first of them in the order of the scan.
FirstFree(pool) ==
    LET Distance(i) == (i - pool.hint) % Cardinality(DOMAIN pool.slot)
    IN  CHOOSE i \in FreeSlots(pool) :
            \A j \in FreeSlots(pool) : Distance(i) <= Distance(j)

\* rts_task_pool_reserve and rts_timer_reserve of that slot.
Reserve(pool, i) ==
    [pool EXCEPT !.slot = [@ EXCEPT ![i] = "RESERVED"],
                 !.hint = (i + 1) % Cardinality(DOMAIN pool.slot)]

Commit(pool, i) == [pool EXCEPT !.slot = [@ EXCEPT ![i] = "ALLOCATED"], !.count = @ + 1]

\* Faulty variant: the slot of a failed creation stays reserved.
RollbackNothing(pool, i) == [pool EXCEPT !.hint = i]

Rollback(pool, i) == [pool EXCEPT !.slot = [@ EXCEPT ![i] = "FREE"], !.hint = i]
-----------------------------------------------------------------------------
(* Initialisation. *)

\* What rts_init returns without entering its work.
InitStatus(isr) ==
    FirstFailure(<<Check(isr, "INVALID_CONTEXT"),
                   Check(kernel.lifecycle = "INITIALIZED", "ALREADY_INITIALIZED"),
                   Check(kernel.lifecycle = "RUNNING", "ALREADY_STARTED")>>)

InitRejected(isr) ==
    /\ InitStatus(isr) # "OK"
    /\ Returns("init", InitStatus(isr))
    /\ UNCHANGED <<port, kernel, timers, tick, handoff, handles, timerHandles>>

\* The tick source after rts_port_initialize failed: the target fails before,
\* in or after rts_s32k148_tick_initialize.
TickAfterFailedPort ==
    IF port = "host" THEN {tick} ELSE {tick, "UNINITIALIZED", "READY"}

ServiceObject == Object("BLOCKED", ServicePrio)

IdleObject == Object("DORMANT", 0)

\* rts_port_stack_initialize succeeds: the frame of the entry is in place.
BuildStack(object) == [object EXCEPT !.stack = TRUE]

\* The service object, its stack, the idle object, its stack and its insertion.
Bootstrapped ==
    [ZeroKernel EXCEPT
        !.lifecycle = "INITIALIZED",
        !.object = [@ EXCEPT
            ![Service] = BuildStack(ServiceObject),
            ![Idle] = [BuildStack(IdleObject) EXCEPT !.state = "READY"]],
        !.ready = ReadyInsert(@, 0, Idle),
        !.internal = {Idle, Service}]

\* The kernel when the stack of an internal task could not be built.
HalfBootstrapped(fault) ==
    [ZeroKernel EXCEPT
        !.object = [@ EXCEPT
            ![Service] = IF fault = "idle" THEN BuildStack(ServiceObject) ELSE ServiceObject,
            ![Idle] = IF fault = "idle" THEN IdleObject ELSE ZeroObject],
        !.internal = {Service}]

\* rts_kernel_restore_reset.
RestoreReset(k) == ZeroKernel

InitSucceeds ==
    /\ InitStatus(FALSE) = "OK"
    /\ kernel' = Bootstrapped
    /\ timers' = EmptyPool(TimerSlots)
    /\ tick' = "READY"
    /\ Returns("init", "OK")
    /\ UNCHANGED <<port, handoff, handles, timerHandles>>

InitPortFails ==
    /\ InitStatus(FALSE) = "OK"
    /\ kernel' = RestoreReset(ZeroKernel)
    /\ timers' = EmptyPool(TimerSlots)
    /\ tick' \in TickAfterFailedPort
    /\ Returns("init", "PORT_ERROR")
    /\ UNCHANGED <<port, handoff, handles, timerHandles>>

\* The host port injects a failure; on the target the stacks of the internal
\* tasks cannot be refused.
InternalStackRefused == port = "host"

InitStackFails(fault) ==
    /\ InternalStackRefused
    /\ InitStatus(FALSE) = "OK"
    /\ kernel' = RestoreReset(HalfBootstrapped(fault))
    /\ timers' = EmptyPool(TimerSlots)
    /\ tick' = "READY"
    /\ Returns("init", "PORT_ERROR")
    /\ UNCHANGED <<port, handoff, handles, timerHandles>>
-----------------------------------------------------------------------------
(* Creation of a task. *)

\* Which of the output pointer, the configuration, its entry, its timing and its
\* stack is not fit, if any.
Fields == {"fit", "no handle", "no config", "no entry", "bad timing", "bad stack"}

Configs == [priority : 0 .. (MaxPrio + 1), fields : Fields]

\* rts_task_config_validate and the checks around it, in their order.
CreateStatus(config, isr) ==
    FirstFailure(<<Check(config.fields = "no handle", "INVALID_ARGUMENT"),
                   Check(isr, "INVALID_CONTEXT"),
                   Check(config.fields = "no config", "INVALID_ARGUMENT"),
                   Check(kernel.lifecycle # "INITIALIZED", "INVALID_STATE"),
                   Check(config.fields = "no entry", "INVALID_TASK_CONFIG"),
                   Check(config.priority \notin 1 .. MaxPrio, "INVALID_PRIORITY"),
                   Check(config.fields = "bad timing", "INVALID_TASK_CONFIG"),
                   Check(config.fields = "bad stack", "INVALID_STACK"),
                   Check(FreeSlots(kernel.pool) = {}, "CAPACITY_EXHAUSTED")>>)

CreateRejected(config, isr) ==
    /\ CreateStatus(config, isr) # "OK"
    /\ Returns("create", CreateStatus(config, isr))
    /\ UNCHANGED <<port, kernel, timers, tick, handoff, handles, timerHandles>>

\* Reserved and initialised, with the stack not yet built.
Prepared(k, i, config) ==
    [k EXCEPT !.pool = Reserve(@, i),
              !.object = [@ EXCEPT ![i] = Object("DORMANT", config.priority)]]

\* rts_task_create_rollback of a task that is not yet queued.
CreateRollback(k, i) ==
    [k EXCEPT !.pool = Rollback(@, i), !.object = [@ EXCEPT ![i] = ZeroObject]]

CreateSucceeds(config) ==
    /\ CreateStatus(config, FALSE) = "OK"
    /\ LET i == FirstFree(kernel.pool)
           k == Prepared(kernel, i, config)
       IN  /\ kernel' = [k EXCEPT
                !.object[i] = [BuildStack(k.object[i]) EXCEPT !.state = "READY"],
                !.ready = ReadyInsert(@, config.priority, i),
                !.pool = Commit(@, i)]
           /\ handles' = Append(handles, [task |-> i, priority |-> config.priority])
    /\ Returns("create", "OK")
    /\ UNCHANGED <<port, timers, tick, handoff, timerHandles>>

\* rts_port_stack_initialize refuses the entry or the argument.
CreateStackFails(config) ==
    /\ CreateStatus(config, FALSE) = "OK"
    /\ LET i == FirstFree(kernel.pool)
       IN  kernel' = CreateRollback(Prepared(kernel, i, config), i)
    /\ Returns("create", "PORT_ERROR")
    /\ UNCHANGED <<port, timers, tick, handoff, handles, timerHandles>>
-----------------------------------------------------------------------------
(* Registration of a timer. *)

TimerStatus(fit, isr) ==
    FirstFailure(<<Check(~fit, "INVALID_ARGUMENT"),
                   Check(isr, "INVALID_CONTEXT"),
                   Check(kernel.lifecycle # "INITIALIZED", "INVALID_STATE"),
                   Check(FreeSlots(timers) = {}, "CAPACITY_EXHAUSTED")>>)

TimerInit ==
    /\ TimerStatus(TRUE, FALSE) = "OK"
    /\ LET i == FirstFree(timers)
       IN  /\ timers' = Commit(Reserve(timers, i), i)
           /\ timerHandles' = Append(timerHandles, i)
    /\ Returns("timer", "OK")
    /\ UNCHANGED <<port, kernel, tick, handoff, handles>>

TimerInitRejected(fit, isr) ==
    /\ TimerStatus(fit, isr) # "OK"
    /\ Returns("timer", TimerStatus(fit, isr))
    /\ UNCHANGED <<port, kernel, timers, tick, handoff, handles, timerHandles>>
-----------------------------------------------------------------------------
(* Start. *)

\* rts_start_preflight_is_coherent; nothing delays or is planned before it.
PreflightIsCoherent ==
    /\ kernel.current = NoTask
    /\ kernel.internal = {Idle, Service}
    /\ kernel.object[Idle].state = "READY" /\ Queued(kernel.ready[0], Idle)
    /\ kernel.object[Service].state = "BLOCKED"

StartStatus(isr) ==
    FirstFailure(<<Check(isr, "INVALID_CONTEXT"),
                   Check(kernel.lifecycle = "RESET", "INVALID_STATE"),
                   Check(kernel.lifecycle = "RUNNING", "ALREADY_STARTED"),
                   Check(~PreflightIsCoherent, "INVALID_STATE")>>)

StartRejected(isr) ==
    /\ StartStatus(isr) # "OK"
    /\ Returns("start", StartStatus(isr))
    /\ UNCHANGED <<port, kernel, timers, tick, handoff, handles, timerHandles>>

\* rts_scheduler_current_establish of the selected task, and RUNNING.
Established(k) ==
    LET first == PickNext(k.ready)
    IN  [k EXCEPT !.lifecycle = "RUNNING",
                  !.object = [@ EXCEPT ![first].state = "RUNNING"],
                  !.current = first]

\* rts_start_rollback.
StartRollback(k) ==
    [k EXCEPT !.lifecycle = "INITIALIZED",
              !.object = [@ EXCEPT ![k.current].state = "READY"],
              !.current = NoTask]

\* rts_port_tick_start: the host counts at once, the target when the first
\* task is entered.
TickStarted == IF port = "host" THEN "RUNNING" ELSE "ARMED"

\* The tick source refuses, by injection on the host or because it is not ready.
TickStartRefused == port = "host" \/ tick # "READY"

\* rts_port_start_first_task: the host enters the task at once, the target
\* prepares the hand-off and raises SVC.
HandedOff == IF port = "host" THEN "consumed" ELSE "valid"

\* The hand-off is refused, by injection on the host or because one was made.
FirstTaskRefused == port = "host" \/ handoff # "none"

\* Faulty variant: the tick source stays as it was started.
TickStopNothing(source) == source

\* rts_port_tick_stop.
TickStop(source) == IF source = "UNINITIALIZED" THEN source ELSE "READY"

StartSucceeds ==
    /\ StartStatus(FALSE) = "OK"
    /\ tick = "READY" /\ handoff = "none"
    /\ kernel' = Established(kernel)
    /\ tick' = TickStarted
    /\ handoff' = HandedOff
    /\ Returns("start", "OK")
    /\ UNCHANGED <<port, timers, handles, timerHandles>>

StartTickFails ==
    /\ StartStatus(FALSE) = "OK"
    /\ TickStartRefused
    /\ kernel' = StartRollback(Established(kernel))
    /\ tick' = TickStop(tick)
    /\ Returns("start", "PORT_ERROR")
    /\ UNCHANGED <<port, timers, handoff, handles, timerHandles>>

\* The tick source was started.
StartFirstTaskFails ==
    /\ StartStatus(FALSE) = "OK"
    /\ tick = "READY"
    /\ FirstTaskRefused
    /\ kernel' = StartRollback(Established(kernel))
    /\ tick' = TickStop(TickStarted)
    /\ Returns("start", "PORT_ERROR")
    /\ UNCHANGED <<port, timers, handoff, handles, timerHandles>>

\* The SVC handler consumes the hand-off, starts SysTick and enters the task.
SvcEntersTask ==
    /\ handoff = "valid" /\ tick = "ARMED"
    /\ kernel.lifecycle = "RUNNING" /\ kernel.object[kernel.current].stack
    /\ handoff' = "consumed"
    /\ tick' = "RUNNING"
    /\ UNCHANGED <<port, kernel, timers, result, handles, timerHandles>>
-----------------------------------------------------------------------------
\* On the target, rts_start has not returned while its hand-off is pending.
Callable == handoff # "valid"

Next ==
    \/ Callable /\ \E isr \in BOOLEAN : InitRejected(isr) \/ StartRejected(isr)
    \/ Callable /\ (InitSucceeds \/ InitPortFails)
    \/ Callable /\ \E fault \in {"service", "idle"} : InitStackFails(fault)
    \/ Callable /\ \E config \in Configs, isr \in BOOLEAN : CreateRejected(config, isr)
    \/ Callable /\ \E config \in Configs : CreateSucceeds(config) \/ CreateStackFails(config)
    \/ Callable /\ TimerInit
    \/ Callable /\ \E fit, isr \in BOOLEAN : TimerInitRejected(fit, isr)
    \/ Callable /\ (StartSucceeds \/ StartTickFails \/ StartFirstTaskFails)
    \/ SvcEntersTask

Spec == Init /\ [][Next]_vars
-----------------------------------------------------------------------------
\* The tasks handed out with priority p, oldest first.
CreatedWith(p) ==
    LET asked == SelectSeq(handles, LAMBDA h : h.priority = p)
    IN  [n \in DOMAIN asked |-> asked[n].task]

\* The slots of a pool that are in use are those handed out, each once.
HandedOut(pool, given) ==
    /\ Distinct(given) /\ pool.count = Len(given)
    /\ \A i \in DOMAIN pool.slot :
          pool.slot[i] = IF Queued(given, i) THEN "ALLOCATED" ELSE "FREE"

\* Whatever failed in between, the kernel is what the successful calls made of
\* it: the pools hold the handles given out and nothing else, so they are
\* exhausted only when all of their slots were handed out; the ready queues
\* hold the tasks in the order of their creation; and the kernel starts with
\* the oldest task of the highest priority, or the idle task
\* (task_create.c rts_task_create, task_pool.c, timer.c rts_timer_init,
\* scheduler_start.c rts_start).
TasksAsCreated ==
    /\ HandedOut(kernel.pool, [n \in DOMAIN handles |-> handles[n].task])
    /\ HandedOut(timers, timerHandles)
    /\ \A p \in 1 .. MaxPrio : kernel.ready[p] = CreatedWith(p)
    /\ kernel.lifecycle = "RUNNING" =>
          kernel.current = LET asked == {handles[n].priority : n \in DOMAIN handles}
                           IN  IF asked = {} THEN Idle ELSE Head(CreatedWith(Max(asked)))
    /\ result = [call |-> "create", status |-> "CAPACITY_EXHAUSTED"] =>
          Len(handles) = MaxTasks

\* A call that returns an error leaves the kernel and the timers as they were,
\* and one that fails after initialisation also the tick source and the
\* hand-off, so that it can be retried (the rollbacks of scheduler_init.c,
\* task_create.c and scheduler_start.c).  Only the statistics and the trace,
\* which are not modelled, keep a record of a failed start.
FailedCallChangesNothing ==
    [][result'.status # "OK" =>
          /\ UNCHANGED <<kernel, timers>>
          /\ result'.call # "init" => UNCHANGED <<tick, handoff>>]_vars
-----------------------------------------------------------------------------
\* The scan of a pool finds the slot at its hint: slots are handed out in order.
InOrder(pool) ==
    \/ \A i \in DOMAIN pool.slot : pool.slot[i] = IF i < pool.hint THEN "ALLOCATED" ELSE "FREE"
    \/ pool.hint = 0 /\ \A i \in DOMAIN pool.slot : pool.slot[i] = "ALLOCATED"

States == {"DORMANT", "READY", "RUNNING", "BLOCKED"}

ObjectType == [state : States, priority : 0 .. MaxPrio, stack : BOOLEAN]

Tasks == TaskSlots \cup {Idle, Service}

PoolType ==
    [slot : [TaskSlots -> {"FREE", "RESERVED", "ALLOCATED"}], count : Nat, hint : TaskSlots]

Lifecycles == {"RESET", "INITIALIZED", "RUNNING"}

Objects == [Tasks -> ObjectType]

KernelType ==
    [lifecycle : Lifecycles, pool : PoolType, object : Objects,
     ready     : [0 .. MaxPrio -> Seq(Tasks)],
     internal  : SUBSET {Idle, Service},
     current   : Tasks \cup {NoTask}]

\* What makes a rollback exact.
RollbackInv ==
    /\ kernel \in KernelType
    /\ kernel.lifecycle = "RESET" => kernel = ZeroKernel /\ timers = EmptyPool(TimerSlots)
    /\ InOrder(kernel.pool)
    /\ \A i \in TaskSlots : kernel.pool.slot[i] = "FREE" => kernel.object[i] = ZeroObject
    /\ kernel.lifecycle = "INITIALIZED" =>
          /\ kernel.current = NoTask /\ tick = "READY"
          /\ \A p \in 0 .. MaxPrio : \A n \in 1 .. Len(kernel.ready[p]) :
                kernel.object[kernel.ready[p][n]].state = "READY"
    /\ kernel.lifecycle # "RUNNING" => handoff = "none"
    /\ handoff = "valid" => result.status = "OK"
=============================================================================
