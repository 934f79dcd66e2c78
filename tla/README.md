# Verification of the real-time scheduler

TLA+ specifications of the single-core RTOS kernel in `src/kernel`, of the way
its Cortex-M4F port drives it, TLC configurations that check them on small
instances, and TLAPS proofs for every value of the constants.

## The system

One processor runs tasks, two kernel exceptions and application interrupts.

* **Tasks** call the kernel. A call masks interrupts (PRIMASK) between
  `rts_kernel_lock_enter` and `rts_kernel_lock_exit`. Whatever it decides is
  written into the *switch plan*; if a plan was created, the call pends PendSV
  *after* the unlock.
* **SysTick** (`SysTick_Handler`, `rts_kernel_tick_advance`) advances the
  clock, ends delays, timed waits and timers, charges the slice of the running
  task and plans a switch if the choice changed.
* **PendSV**, the exception of the lowest priority, acquires the plan, swaps
  the stacks and completes the plan. If an event arrived in between it chooses
  again.

### Inventory

| part | state | operations | what makes it hard |
|---|---|---|---|
| tick arithmetic | 32-bit ticks | before, reached, elapsed | wrap-around, the ambiguous half range |
| ready set | FIFO per priority, bitmap | insert, remove, rotate, peek | one queue per task, order of peers |
| delay queue | list by wake tick | insert, remove, peek expired | order under wrap-around |
| switch plan | from, to, pending, active, reselect | prepare, acquire, complete, reselect | events before, during and after PendSV; one notification per plan |
| scheduler core | lifecycle, task states, current, slices | create, start, delay, yield, tick | preemption between unlock and request |
| semaphores | count, waiters | take, give, give from an interrupt, timeout | a give racing the timeout, nested interrupts |
| mutexes | owner, waiters, owned list | lock, unlock, timeout | inheritance chains, hand-off, cycles |
| software timers | armed list, callback ring, service task | start, stop, restart, expire, run | stop against a queued or running callback, ring overflow |
| tickless idle | sleep plan, LPTMR0 | compute, sleep, skip | early wakes, interrupts in the window of the sleep |
| EDF, RMS | deadlines, ranks | insert, pick, yield, tick | deadlines under wrap-around, ranks that change |
| lifecycle, pools | lifecycle, slots, tick source, start hand-off | init, create, timer init, start | a port error half way through |

## Modules

| module | models |
|---|---|
| `TickTime` | `time_internal.h`: wrapped arithmetic. The 32-bit range is `2 * Half` with `Half` a constant. |
| `KernelQueues` | `ready_queue.c`, `delay_queue.c`, `intrusive_list.c` as operators on sequences. The bitmap is the set of nonempty priorities. |
| `SwitchPlan` | `switch_plan.c` as operators on a plan record. |
| `Scheduler` | the fixed-priority core as a state machine (below). |
| `PriorityScheduler` | the abstract promise: the processor only passes to a runnable task of the highest priority. |
| `WaitObject` | `wait_object.c`: the queue of waiters, by priority and age. |
| `Semaphore` | `semaphore.c` and its branches of the tick handler, composed with the whole of `Scheduler` (below). |
| `Mutex` | `mutex.c` and `priority_inheritance.c`, with the scheduler around them (below). |
| `Timers` | `timer.c`, `timer_queue.c`, `timer_callback_queue.c` and `timer_service.c`, composed with the whole of `Scheduler` (below). |
| `TicklessIdle` | `power.c` and `target_power.c`, composed with `Semaphore`, `Timers` and `Scheduler` (below). |
| `Policies` | `policy_edf.c`, `policy_rms.c` and `scheduler_policy.c` with the scheduler around them (below). |
| `Lifecycle` | `scheduler_init.c`, `task_create.c`, `task_pool.c`, `scheduler_start.c`, the registration in `timer.c`, and the start of both ports (below). |
| `MCScheduler`, `MCSemaphore`, `MCMutex`, `MCTimers`, `MCTicklessIdle`, `MCPolicies`, `MCLifecycle` | instances for TLC. |
| `TickTimeProofs`, `KernelQueuesProofs`, `SchedulerProofs`, `LifecycleProofs` | the proofs. |

Operators called *faulty variant* are plausible mistakes next to the
definition they distort. They are not part of any specification; they show
that a property notices the mistake.

### Scheduler

Variables carry the names of the kernel's fields. `pendsv` is the pending bit
of PendSV, `owes[t]` says that task `t` has left the lock and has still to
request PendSV, `tick` holds the phase and the locals of the tick handler.
`left` is a history variable: the true number of ticks until a delay ends, to
compare the wrapped clock with.

The locked part of a call is one action (`Delay`, `Yield`, `Create`, `Start`),
the request after the unlock another (`Request`). The tick handler is followed
step by step: `TickEnter`, one `TickWake` per expired task, `TickFinish`,
`TickReturn`. PendSV is `SwitchAcquire` (or `SwitchNoPlan`) and
`SwitchComplete`. `MaskedSwitch` says whether ticks can arrive between the
two: the Cortex-M4F handler masks interrupts (`port_asm.S`), but
`switch_plan.c` is written for ports that do not.

Abstracted: the plan's generation counter (an active plan never changes, so
the snapshot always matches), statistics and trace. Rejected calls change
nothing and are stutters, and so is a start that the port refuses, because it
is rolled back under the lock; that the rollback is exact is what `Lifecycle`
shows.

### Semaphore

Extends `Scheduler` with one counting semaphore. `wait` is the task's wait
metadata (reason, `timeout_active`, result), `taking[t]` says that `t` is
between the lock of `rts_semaphore_take` and its return, `expired` is the local
of the expiry loop between `rts_delay_peek_expired` (`TickPeek`) and
`rts_tick_wake_task` (`TickWakeDelayed`, `TickTimeout`). `balance` is a history
variable: what was given minus what was taken.

A task's give is one locked step and a request; a give from an interrupt
(`GiveFromIsr`) is one step because its handler is not preempted by anything
the model contains; `GiveFromTickHook` is the give inside `SysTick_Handler`.
`NestedGive` says whether an interrupt that gives may preempt the tick handler.
A take with timeout 0 that finds no unit and a give to a full semaphore change
nothing and are stutters.

### Mutex

Inheritance changes priorities, which are constants in `Scheduler`, so `Mutex`
is a state machine of its own over `WaitObject` and `SwitchPlan`. It starts
after `rts_start` with the tasks created in any order. The locked call or tick
handler in progress is `call`; while it is not `NoCall` nothing else happens.
`rts_priority_recompute_chain` takes one `ChainStep` for each task it visits,
so that the invariants also hold in the middle of the walk; `CallFinish` or
`TickFinish` ends the call. `locking[t]` says that `t` is inside
`rts_mutex_lock`, `holds[t]` is a history variable: the mutexes whose lock has
returned to `t`.

Simplified against `Scheduler`: no time slicing, no yield, ticks of 1, and
PendSV is one step (`Switch`), as on the Cortex-M4F port, possible as soon as
there is a plan. The list of owned mutexes is the set `Owned(t)`. The branch
of `rts_priority_set_effective` for a task that waits for a semaphore is not
reached. A lock that is refused (cycle, limit, own mutex, timeout 0) changes
nothing and is a stutter. `MaxOwned` is `RTS_MAX_MUTEXES_PER_TASK`, which is
tested when a lock is asked for, while the mutex may be handed over much later.

### Timers

Extends `Scheduler` with registered timers and the service task, which
`rts_init` leaves `BLOCKED`. `running` is the timer whose callback the service
is inside, i.e. the local `work.timer` of `rts_timer_service_process_one`
between its two locked parts (`ServiceBegin`, `ServiceEnd`). `TickTimer` is one
round of `rts_timer_manager_process_expired` and comes after the delays.
Callbacks and tasks may start, restart and stop timers and yield. `due` (true
ticks to the expiry) and `owed` (an expiry that no stop or restart has
overtaken) are history variables. Where an assertion of the kernel fails, the
model has no further step.

`TimersOnTime` holds for jumps of the clock that, added to the period of a
periodic timer, are at most `Half + 1` (`JumpsFit`); `MCTimers` assumes it of
its instances. `rts_kernel_tick_advance` (`time.c:155`) accepts every jump up to
`Half - 1`, and beyond `JumpsFit` a timer can be late: while
`rts_timer_manager_process_expired` has taken only the first of two late timers
and reinserts it, `rts_timer_queue_insert` (`timer_queue.c:41`) compares its
next deadline with one more than `Half` ticks before it and puts it in front.
The loop then sees a head that has not expired and leaves the other timer active
and overdue. On a clock of 16 values a jump of 7 with two timers of 3 ticks does
this: TLC finds it when `Half` is 8 and `JumpsFit` is left out. No caller in the
repository makes such a jump: `SysTick_Handler` reports one tick, and
`rts_kernel_time_skip` gets at most a sleep that was planned up to the nearest
deadline, so that (outside the window of `tickless_window`) no timer is late.

### TicklessIdle

The composition of everything above except mutexes: tasks, the semaphore, the
timers and their service, and the idle task's `rts_power_idle`. `sleep` follows
the idle task through `rts_port_power_sleep`: `SleepEnter` (the lock, the plan
of `rts_power_plan_compute`, SysTick off, LPTMR0 armed, PRIMASK cleared),
`WaitForInterrupt`, the end of the sleep by LPTMR0 (`SleepTick`) or by an
interrupt (`ForeignInterrupt`, `DeviceInterrupt`), then `ResumeAtOnce` or
`ResumeAndSkip`. `rts_kernel_time_skip` uses the steps of the tick handler and
ends with `SkipReturn`. While SysTick is off `now` stands still; the histories
`left` and `due` and the LPTMR0 count go on. The count stops where LPTMR0 wakes
the processor, so the clamp of a larger one (`target_power.c:80`) is not reached.

`QuietSleep` says that no interrupt in the unmasked window wakes a task and
that no SysTick is left pending by the lock. PendSV runs before the next tick:
the interleavings in between are checked in the modules that are extended.

### Policies

EDF and RMS replace the ready set, so `Policies` is a state machine of its own
over `KernelQueues` and `SwitchPlan`; the initial state chooses the policy the
program is compiled for. `EdfInsert` follows `rts_policy_edf_insert`,
`AssignPriorities` ranks slot by slot and moves linked tasks like
`rts_policy_rms_assign_priorities`. Tasks are periodic: a job computes for at
most its execution budget (which the kernel records and does not enforce) and
then delays to its next period or `Jitter` ticks longer. `age` and `work` are
history variables. The 32-bit `release_sequence` is left out: a task that
enters a queue always has the newest.

### Lifecycle

Everything up to the first task, on the host port or on the S32K148. `kernel`
is the kernel aggregate as a record, so that the partial work of a call and its
rollback are operators on it: `Prepared` and `CreateRollback`, `Established`
and `StartRollback`. Every call is one critical section before any task runs
and therefore one step. There is an action for each place where the port can
fail: its initialisation, the stacks of the internal tasks and of a created
task, the tick source, the hand-off. Early returns are `FirstFailure` of the
checks in the order of the code. `handles` and `timerHandles` record what was
handed out.

## Runs

| run | instance | checks |
|---|---|---|
| `scheduler_portable` | tasks a, b at priority 2, c at 1, idle; clock of 8 values; quantum 2; ticks of 1 or 3; ticks may interrupt PendSV | queue membership, coherence of current task and plan, freshness of the decision, no lost reschedule, call assertions, delays on time, half range unreached, no early wake, FIFO among peers |
| `scheduler_live` | the same tasks, clock of 6 values, ticks of 1 or 2, PendSV masked | refinement of `PriorityScheduler`, refinement of its fair version, delays end, tasks of the highest priority take turns |
| `semaphore_waits` | the tasks of `scheduler_portable`, quantum 2, timeouts of 1, 2 or none, maximum 2; no interrupt preempts the tick handler | queue membership and wait metadata, units conserved and none idle while somebody waits, takes are decided when they return, expiries are valid, freshness of the decision, service order, no early timeout |
| `semaphore_nested` | `semaphore_waits` with `NestedGive` | violation, see *Findings* |
| `mutex_chains` | three mutexes of which a task may own two, two peers at priority 1, one task each at 2 and 3, idle; clock of 4 values; timeouts of 1 or none | queue membership also inside a walk, the limit on owned mutexes across hand-offs, effective priorities exact, no cycle, inversion bounded, mutual exclusion as the tasks see it, hand-off to the most urgent waiter |
| `timers_service` | a periodic timer and a one-shot of 3 ticks, the service between two application tasks; clock of 18 values; ticks of 1 or 7 | queue and ring agree with the timers, expiries on time without drift for jumps that fit (`JumpsFit`), no lost wake-up of the service, no callback after stop or restart |
| `timers_wake`, `timers_cancel` | the same | violations, see *Findings* |
| `tickless_sleep` | a task above the service, a periodic timer of 2 ticks, a semaphore with timeouts of 3, sleeps of at most 3 ticks; clock of 8 values; `QuietSleep` | no sleep runs past a delay, a timeout or a timer; the kernel clock is behind real time by exactly what LPTMR0 has counted; takes of the most urgent task return once they time out or are decided |
| `tickless_window` | the same without `QuietSleep` | violation, see *Findings* |
| `policies_deadlines` | EDF: jobs of 1, 1 and 2 ticks every 3, 4 and 5; RMS: jobs of 1 tick every 3, 4 and 3, to be done in 2, 3 and 2; releases up to one tick late; clock of 14 values | the task that runs has the earliest true deadline or the shortest period, feasible task sets meet all deadlines, peers keep their turn also when ranks are assigned again |
| `lifecycle_rollback` | three task slots, two timer slots, priorities up to 3, both ports | after any failures the pools, the ready queues and the first task are those of the successful calls alone; a failed call changes nothing |

**Bounds.** The state space is finite without further bounds: the clock wraps.
A clock of 8 values has delays up to 3 and wraps in the middle of them, so
every relative position of two wake ticks occurs. Two peers and one lower task
give rotation, preemption and a lower task that only runs while both peers are
delayed. Three mutexes and four tasks give a chain of two waiting tasks, an
owner of two contended mutexes that asks for a third, and an attempted cycle;
the mutexes are interchangeable (`MutexSymmetry`) and no liveness is checked
there. Timeouts and delays of 1 are the longest a clock of 4 values has. In the
timer runs a tick of 7 skips up to two whole periods of 3, and both timers can
be due on the same tick in either order; `7 + 3 = Half + 1` is the longest jump
that `JumpsFit` allows. Generations are counted modulo 2,
enough to tell a queued callback from the next generation; in the tickless runs,
which ask nothing about stale callbacks, modulo 1.

A sleep of 3 ticks is longer than a period of the timer and as long as a
timeout, so each of the three limits of a sleep is the shortest in some state.
The EDF task set uses 59/60 of the processor, which fixed ranks cannot
schedule; the RMS deadlines are the shortest that response-time analysis
allows, with two tasks of equal rank. One late release and unused budgets reach
other phases than the synchronous one. Three slots exhaust the pool, wrap its
hint and leave room for a failure before, between and after two creations.

The timer runs use a view (`InUse`) that leaves out the wake ticks of tasks
that are not delayed and the deadlines of timers that are not active: no
action and no property reads them before they are written again. Deadlock is
not checked there because the model stops at a failing assertion.

**Fairness** (`Fairness`). SysTick and PendSV are latched by the interrupt
controller and handlers are short against the tick period, so the handlers'
steps, and the request that follows an unlock, are fair. They are strongly
fair where another exception can preempt them for a while. No fairness is
assumed of the calls that tasks make.

`TicklessLiveSpec` has the same for the whole kernel: time passes
(`TimePasses`), whether SysTick or LPTMR0 counts it; a handler or the time skip
goes on; the idle task gets through a sleep it has begun, but need not begin
one; PendSV is taken; the request after an unlock and the rest of
`rts_semaphore_take` happen once their task executes again. Calls, gives and
device interrupts are not fair.

## Findings

`semaphore_nested`. `docs/implementation/sprint-8a-semaphore-wait-infrastructure.md`
says (line 84) that give and expiry "serialize under the same single-core
PRIMASK contract". `SysTick_Handler` and the expiry loop of
`rts_kernel_time_advance_common` do not mask interrupts. An interrupt above
SysTick's priority, which line 101 of the same document allows, may give after
the loop has looked up an expired waiter and before it wakes it. The task is
then no longer blocked and `RTS_FATAL_UNLESS(valid)` (`time.c:35`) stops the
system. In `semaphore_waits`, where no such interrupt exists, the property
holds. The FlexCAN example has such an interrupt (priority 6, SysTick 14), but
its waiter has no timeout.

`timers_wake`. `rts_scheduler_timer_service_wake` (`scheduler_select.c:286`)
makes the service `READY` also when it has blocked but is still the current
task because its PendSV has not run. Every other wake-up makes such a task
`RUNNING` again. The tick handler then chooses, and
`RTS_ASSERT(rts_switch_outgoing_is_valid(...))` (`switch_plan.c:43`) fails; the
`RTS_FATAL_UNLESS` in `time.c:139` would follow.

`timers_cancel`. A task above the service preempts it inside a callback, whose
work has already left the ring, and stops or restarts a timer. The ring is
empty, so `rts_timer_invalidate_pending` (`timer.c:209`) calls
`rts_scheduler_timer_service_cancel_wake`, which finds the service `READY` and
blocks it in the middle of the callback until an expiry queues new work.
`docs/implementation/sprint-10b-timer-callback-service.md` says (line 75) "A
running callback is never cancelled retroactively."

`tickless_window`. `rts_port_power_sleep` clears PRIMASK before WFI and sets it
again afterwards (`target_power.c:72`). The comment above it says "Close the
final race in the target layer: unmask and sleep atomically.", but the handler
of the interrupt that ends WFI, and PendSV behind it, run before interrupts are
masked again. A task woken by that handler calls `rts_task_delay` while SysTick
is off and the clock has not been advanced by the sleep; when the idle task
resumes, the skip (`power.c:199`) counts ticks that had passed before the delay
was asked for. `docs/architecture/version-1-public-api.md` says (line 246)
"Nonzero delay is relative to call time, accepts at most `RTS_DELAY_MAX`, is
wrap-safe, and has no early wakeup." In `tickless_sleep`, where no interrupt of
the window wakes a task, the clock is exact.

## Proofs

The theorems about the core hold for every set of tasks, every assignment of
priorities in which only the idle task has priority 0, every clock width,
quantum and port (`SchedulerAssumption`, `HalfAssumption`); the one about the
lifecycle for pools of every size and every number of priorities
(`LifecycleAssumption`).

* `TickBeforeIsTrueOrder`, `TickReachedIsExact`, `FutureTicksUnambiguous`: the
  wrapped comparisons are exact within the half range.
* `KernelQueuesProofs`: what insertion, removal and rotation do to membership,
  duplicates and order.
* `Invariance` : `Spec => []IndInv`. `IndInv` adds to the checked invariants
  what makes them inductive: `DecisionFresh` (the choice is current unless
  this tick has woken someone and not chosen yet), `TickCoherent` (the
  handler's locals), `DelayClock` (the wrapped wake tick agrees with `left`
  also inside the expiry loop, where `left` may be negative) and
  `BootCoherent`. There is one lemma per action.
* From it: `TypeCorrect`, `QueuesAgreeWithStates`, `PlansAreCoherent`,
  `ReschedulesAreNotLost`, `DecisionsAreFresh`, `ChoiceIsHighestPriority`,
  `CallsAreCoherent`, `DelaysExpireOnTime`, `HalfRangeIsUnreached`, the action
  property `NoDelayEndsEarly`, and the refinement `SchedulerKeepsPromise`
  (with `MaskedWindowHolds`: no event falls into the ACTIVE window of a port
  that masks interrupts).

* `FailedCallsChangeNothing`: every call of `Lifecycle` that returns an error
  leaves kernel and timers as they were, and after initialisation also the tick
  source and the hand-off (a failed `rts_init` may leave the tick source ready).
  The rollbacks are exact only in the
  states they are used in: `CreateRollback` zeroes the object and moves the
  hint back, so it needs that free slots are zero and that the scan stopped at
  the hint (slots are handed out in order, `InOrder`); `StartRollback` makes the
  task `READY` and the tick source ready again, so it needs that queued tasks
  were `READY` and the tick source ready before. That is the inductive invariant
  `RollbackInv`. `CreateRollbackIsExact` and `StartRollbackIsExact` are the two
  central lemmas, `LifecycleStep` has one case per kind of call.

Only model-checked: liveness and the fair refinement, because they need
fairness, which is out of the prover's reach; `NoOvertaking` and
`TasksAsCreated`; and everything about semaphores, mutexes, timers, sleep and
the EDF and RMS policies, whose invariants have not been made inductive.

## Possible extensions

* Proofs of mutual exclusion and the inheritance invariant of mutexes, token
  conservation of semaphores and FIFO order of peers.
* Mutexes in the composition of `TicklessIdle`, and a task that inherits while
  it waits for a semaphore.
* Releases of EDF and RMS tasks by semaphores.

## Not modelled

* The invariant checker (`invariant_check.c`) reads the state and changes nothing; its
  conditions are the invariants of the modules above.
* Trace, statistics, stack checks and the fatal record are diagnostics that no
  scheduling decision reads. A failed start is not undone in them: it stays
  counted and traced.
* Register frames, clock set-up, LED and timing probes are hardware access. The
  host port beyond its tick source, stack and start records calls for unit
  tests. The examples are applications.
* Node links, bitmap words and handle magic are abstracted to membership, order
  and slot indices.
* Wakes of a sleep within a tick: the model counts whole ticks, so that frequent
  interrupts might hold up the clock of an idle system is outside of it.
* The wrap of the 32-bit release sequence of EDF during the stay of one task in
  the queue.
