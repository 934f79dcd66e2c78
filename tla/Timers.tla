------------------------------- MODULE Timers -------------------------------
(***************************************************************************)
(* Software timers and the timer service task (kernel/timer.c,             *)
(* timer_queue.c, timer_callback_queue.c and timer_service.c) on top of    *)
(* the scheduler core.                                                     *)
(*                                                                         *)
(* The timers have been registered by rts_timer_init.  The callback ring   *)
(* is a sequence of work items; a timer's generation is counted modulo     *)
(* Generations.  A build with assertions is modelled: where one fails, the *)
(* system stops, and here no further step is possible.                     *)
(***************************************************************************)
EXTENDS Scheduler

CONSTANTS
    Service,        \* kernel->timer_service_task
    Timer,          \* the registered timers
    NoTimer,
    Period,         \* Period[m]: timer->period
    Periodic,       \* Periodic[m]: timer->mode is RTS_TIMER_PERIODIC
    Generations     \* the values of timer->generation

ASSUME TimersAssumption ==
    /\ Service \in Task \ {Idle}
    /\ NoTimer \notin Timer
    /\ Period \in [Timer -> 1 .. MaxAdvance]
    /\ Periodic \in [Timer -> BOOLEAN]
    /\ Generations \in Nat \ {0}

VARIABLES
    timerState,     \* timer->state
    callback,       \* timer->callback_state
    deadline,       \* timer->expiration_tick
    generation,     \* timer->generation
    timerQ,         \* manager->active_queue
    ring,           \* manager->callback_queue
    running,        \* the timer whose callback the service is inside
    due,            \* history: true ticks until the timer expires
    owed            \* history: an expiry since the last stop or restart has
                    \* been queued and its callback not begun

timerVars == <<timerState, callback, deadline, generation, timerQ, ring, running,
               due, owed>>
timersAll == <<vars, timerVars>>

\* rts_init leaves the service task BLOCKED, outside the application's pool.
TimersInit ==
    /\ InitWith([t \in Task |-> IF t = Idle THEN "READY"
                                ELSE IF t = Service THEN "BLOCKED" ELSE "FREE"])
    /\ timerState = [m \in Timer |-> "STOPPED"]
    /\ callback = [m \in Timer |-> "IDLE"]
    /\ deadline = [m \in Timer |-> 0]
    /\ generation = [m \in Timer |-> 0]
    /\ timerQ = << >>
    /\ ring = << >>
    /\ running = NoTimer
    /\ due = [m \in Timer |-> 0]
    /\ owed = [m \in Timer |-> FALSE]
-----------------------------------------------------------------------------
(***************************************************************************)
(* rts_timer_start, rts_timer_restart and rts_timer_stop.                  *)
(***************************************************************************)
\* Task t executes code of the application; the service does so inside a
\* callback.
InTaskCode(t) == InApplication(t) /\ t # Idle /\ (t = Service => running # NoTimer)

\* Before the start the initialising thread controls timers, then the tasks.
MayControl == lifecycle = "INITIALIZED" \/ \E t \in Task : InTaskCode(t)

\* rts_timer_queue_remove, and nothing if the timer is not active.
Disarmed(m) == IF timerState[m] = "ACTIVE" THEN Unlink(timerQ, m) ELSE timerQ

TimerInsert(queue, deadlines, m) == DelayInsert(queue, deadlines, m)

\* rts_timer_queue_peek_expired finds a timer.
TimerExpired == HeadExpired(timerQ, deadline, now)

\* The common end of rts_timer_arm.
Arm(m, queue) ==
    /\ deadline' = [deadline EXCEPT ![m] = TickAdd(now, Period[m])]
    /\ timerState' = [timerState EXCEPT ![m] = "ACTIVE"]
    /\ timerQ' = TimerInsert(queue, deadline', m)
    /\ due' = [due EXCEPT ![m] = Period[m]]

\* rts_timer_callback_queue_enqueue and rts_timer_callback_queue_remove_timer.
RingEnqueue(m) == Append(ring, [timer |-> m, generation |-> generation[m]])
RingRemove(m) == SelectSeq(ring, LAMBDA work : work.timer # m)

\* rts_scheduler_timer_service_cancel_wake.
CancelWake ==
    IF state[Service] = "READY"
      THEN /\ plan' = IF plan.pending /\ plan.to = Service
                        THEN PrepareSwitch(plan, current, current) ELSE plan
           /\ ready' = ReadyRemove(ready, Prio[Service], Service)
           /\ state' = [state EXCEPT ![Service] = "BLOCKED"]
      ELSE UNCHANGED <<plan, ready, state>>

\* Faulty variant: queued work stays in the ring.
InvalidateFlagOnly(m) ==
    /\ generation' = [generation EXCEPT ![m] = (@ + 1) % Generations]
    /\ callback' = [callback EXCEPT ![m] = IF @ = "PENDING" THEN "IDLE" ELSE @]
    /\ owed' = [owed EXCEPT ![m] = FALSE]
    /\ ring' = ring
    /\ UNCHANGED <<plan, ready, state>>

\* Faulty variant: a callback that is already queued is let through.
InvalidateNothing(m) ==
    /\ owed' = [owed EXCEPT ![m] = FALSE]
    /\ UNCHANGED <<generation, callback, ring, plan, ready, state>>

\* A new generation, and rts_timer_invalidate_pending: queued work is taken
\* out, and an empty ring cancels the wake-up of the service.
Invalidate(m) ==
    /\ generation' = [generation EXCEPT ![m] = (@ + 1) % Generations]
    /\ callback' = [callback EXCEPT ![m] = IF @ = "PENDING" THEN "IDLE" ELSE @]
    /\ owed' = [owed EXCEPT ![m] = FALSE]
    /\ ring' = RingRemove(m)
    /\ IF ring' = << >> THEN CancelWake ELSE UNCHANGED <<plan, ready, state>>

TimerStart(m) ==
    /\ MayControl
    /\ timerState[m] = "STOPPED" /\ callback[m] = "IDLE"
    /\ Arm(m, timerQ)
    /\ UNCHANGED <<vars, callback, generation, ring, running, owed>>

TimerRestart(m) ==
    /\ MayControl
    /\ Arm(m, Disarmed(m))
    /\ Invalidate(m)
    /\ UNCHANGED <<lifecycle, delayQ, wakeTick, now, slice, current, pendsv, owes,
                   tick, left, running>>

TimerStop(m) ==
    /\ MayControl
    /\ timerState[m] = "ACTIVE" \/ callback[m] # "IDLE"
    /\ timerQ' = Disarmed(m)
    /\ timerState' = [timerState EXCEPT ![m] = "STOPPED"]
    /\ Invalidate(m)
    /\ UNCHANGED <<lifecycle, delayQ, wakeTick, now, slice, current, pendsv, owes,
                   tick, left, deadline, running, due>>
-----------------------------------------------------------------------------
(***************************************************************************)
(* The tick handler.                                                       *)
(***************************************************************************)
TimersTickEnter(e) ==
    /\ TickEnter(e)
    /\ due' = [m \in Timer |-> IF timerState[m] = "ACTIVE" THEN due[m] - e ELSE due[m]]
    /\ UNCHANGED <<timerState, callback, deadline, generation, timerQ, ring, running,
                   owed>>

\* Faulty variant: the next period is counted from now.
PeriodicNextDrifting(m) == TickAdd(now, Period[m])

\* rts_timer_periodic_next: the first multiple of the period after now.
PeriodicNext(m) ==
    LET periods == TickElapsed(deadline[m], now) \div Period[m] + 1
    IN  TickAdd(deadline[m], periods * Period[m])

\* One timer of rts_timer_manager_process_expired, after the delays.  A timer
\* whose last callback has not ended is not queued again.  The service is
\* made READY even if it is the current task (rts_scheduler_timer_service_wake).
TickTimer ==
    /\ tick.phase = "wake"
    /\ ~HeadExpired(delayQ, wakeTick, now)
    /\ TimerExpired
    /\ LET m == Head(timerQ)
           queues == callback[m] = "IDLE"
           wakes == queues /\ state[Service] = "BLOCKED"
       IN  /\ IF Periodic[m]
                THEN /\ deadline' = [deadline EXCEPT ![m] = PeriodicNext(m)]
                     /\ timerQ' = TimerInsert(Tail(timerQ), deadline', m)
                     /\ due' = [due EXCEPT ![m] = @ + ((-@) \div Period[m] + 1) * Period[m]]
                     /\ timerState' = timerState
                ELSE /\ timerQ' = Tail(timerQ)
                     /\ timerState' = [timerState EXCEPT ![m] = "STOPPED"]
                     /\ UNCHANGED <<deadline, due>>
           /\ ring' = IF queues THEN RingEnqueue(m) ELSE ring
           /\ callback' = IF queues THEN [callback EXCEPT ![m] = "PENDING"] ELSE callback
           /\ owed' = IF queues THEN [owed EXCEPT ![m] = TRUE] ELSE owed
           /\ state' = IF wakes THEN [state EXCEPT ![Service] = "READY"] ELSE state
           /\ slice' = IF wakes THEN [slice EXCEPT ![Service] = TimeSlice] ELSE slice
           /\ ready' = IF wakes THEN ReadyInsert(ready, Prio[Service], Service) ELSE ready
           /\ tick' = [tick EXCEPT !.woke = @ \/ wakes]
    /\ UNCHANGED <<lifecycle, delayQ, wakeTick, now, current, plan, pendsv, owes, left,
                   generation, running>>

\* rts_switch_outgoing_is_valid, asserted by rts_scheduler_prepare_switch.
OutgoingIsValid == state[current] \in {"RUNNING", "BLOCKED"}

TimersTickFinish ==
    /\ ~TimerExpired
    /\ tick.phase = "wake" => OutgoingIsValid
    /\ TickFinish
    /\ UNCHANGED timerVars
-----------------------------------------------------------------------------
(***************************************************************************)
(* The service task.                                                       *)
(***************************************************************************)
\* The assertion at the head of rts_timer_service_process_one.
ServiceRuns == InApplication(Service) /\ state[Service] = "RUNNING"

\* The first half of rts_timer_service_process_one, up to the callback.  Work
\* of an older generation is dropped.
ServiceBegin ==
    /\ ServiceRuns
    /\ running = NoTimer
    /\ ring # << >>
    /\ LET work == Head(ring)
           pending == callback[work.timer] = "PENDING"
           fresh == pending /\ work.generation = generation[work.timer]
       IN  /\ callback' = [callback EXCEPT ![work.timer] =
                              IF fresh THEN "RUNNING" ELSE IF pending THEN "IDLE" ELSE @]
           /\ running' = IF fresh THEN work.timer ELSE NoTimer
           /\ owed' = IF fresh THEN [owed EXCEPT ![work.timer] = FALSE] ELSE owed
    /\ ring' = Tail(ring)
    /\ UNCHANGED <<vars, timerState, deadline, generation, timerQ, due>>

\* The loop of rts_timer_service_entry has found the ring empty under the lock.
RingIsDrained == running = NoTimer /\ ring = << >>

\* The callback has returned.
ServiceEnd ==
    /\ ServiceRuns
    /\ running # NoTimer
    /\ callback[running] = "RUNNING"
    /\ callback' = [callback EXCEPT ![running] = "IDLE"]
    /\ running' = NoTimer
    /\ UNCHANGED <<vars, timerState, deadline, generation, timerQ, ring, due, owed>>

\* Faulty variant: the ring is not looked at again under the lock.
ServiceBlockUnchecked ==
    /\ ServiceRuns
    /\ running = NoTimer
    /\ ready' = ReadyRemove(ready, Prio[Service], Service)
    /\ state' = [state EXCEPT ![Service] = "BLOCKED"]
    /\ plan' = PrepareSwitch(plan, current, PickNext(ready'))
    /\ owes' = [owes EXCEPT ![Service] = Notifies(plan, current, PickNext(ready'))]
    /\ UNCHANGED <<lifecycle, delayQ, wakeTick, now, slice, current, pendsv, tick, left,
                   timerVars>>

\* rts_scheduler_timer_service_block, at the end of the loop.
ServiceBlock ==
    /\ ServiceRuns
    /\ RingIsDrained
    /\ ready' = ReadyRemove(ready, Prio[Service], Service)
    /\ state' = [state EXCEPT ![Service] = "BLOCKED"]
    /\ plan' = PrepareSwitch(plan, current, PickNext(ready'))
    /\ owes' = [owes EXCEPT ![Service] = Notifies(plan, current, PickNext(ready'))]
    /\ UNCHANGED <<lifecycle, delayQ, wakeTick, now, slice, current, pendsv, tick, left,
                   timerVars>>
-----------------------------------------------------------------------------
\* The steps of the core that timers do not touch.  The service is not
\* created by the application, and rts_task_delay refuses it.
TimersCoreStep ==
    /\ \/ \E t \in Task : Create(t) \/ Request(t)
       \/ Start
       \/ \E t \in Task \ {Service}, d \in Delays : Delay(t, d)
       \/ \E t \in Task : InTaskCode(t) /\ Yield(t)
       \/ TickWake
       \/ TickReturn
       \/ SwitchNoPlan
       \/ SwitchAcquire
       \/ SwitchComplete
    /\ UNCHANGED timerVars

TimersNext ==
    \/ TimersCoreStep
    \/ \E m \in Timer : TimerStart(m) \/ TimerRestart(m) \/ TimerStop(m)
    \/ \E e \in Elapsed : TimersTickEnter(e)
    \/ TickTimer
    \/ TimersTickFinish
    \/ ServiceBegin
    \/ ServiceEnd
    \/ ServiceBlock

TimersSpec == TimersInit /\ [][TimersNext]_timersAll
-----------------------------------------------------------------------------
(***************************************************************************)
(* Safety.                                                                 *)
(***************************************************************************)
\* The type invariant of the timers.
TimersTypeOK ==
    /\ TypeOK
    /\ timerState \in [Timer -> {"STOPPED", "ACTIVE"}]
    /\ callback \in [Timer -> {"IDLE", "PENDING", "RUNNING"}]
    /\ deadline \in [Timer -> Ticks]
    /\ generation \in [Timer -> 0 .. (Generations - 1)]
    /\ timerQ \in Seq(Timer)
    /\ ring \in Seq([timer : Timer, generation : 0 .. (Generations - 1)])
    /\ running \in Timer \cup {NoTimer}
    /\ due \in [Timer -> Int]
    /\ owed \in [Timer -> BOOLEAN]

\* rts_timer_manager_validate at every moment: a timer is in the active queue
\* once iff it is ACTIVE and in the ring once iff its callback is PENDING, with
\* its present generation (so that the ring can never overflow).  At most the
\* callback that the service is inside is RUNNING.
TimersCoherent ==
    /\ TimersTypeOK
    /\ Distinct(timerQ)
    /\ \A i, j \in 1 .. Len(ring) : ring[i].timer = ring[j].timer => i = j
    /\ \A i \in 1 .. Len(ring) : ring[i].generation = generation[ring[i].timer]
    /\ \A m \in Timer :
          /\ Queued(timerQ, m) <=> timerState[m] = "ACTIVE"
          /\ (\E i \in 1 .. Len(ring) : ring[i].timer = m) <=> callback[m] = "PENDING"
          /\ callback[m] = "RUNNING" <=> running = m

\* A jump of the clock and the period of a timer fit into half its range, also
\* when all of the jump but one tick is past the deadline of the timer.
\* rts_kernel_tick_advance accepts longer jumps, but no caller makes one that
\* leaves a timer that late: SysTick reports one tick, and a sleep is planned no
\* further than the nearest deadline.
JumpsFit ==
    \A e \in Elapsed, m \in Timer : Periodic[m] => e + Period[m] <= Half + 1

\* Between ticks an active timer has 1 .. its period true ticks to go and its
\* wrapped deadline says so: no expiry is early, late or drifts, whatever the
\* latency of the callbacks, as long as the jumps of the clock fit. A jump may
\* then skip several periods. After a longer one rts_timer_queue_insert can put
\* the next deadline of a periodic timer ahead of a timer that has expired and is
\* still queued, because they are more than half the range apart: the loop of
\* rts_timer_manager_process_expired stops before that timer, which is late.
TimersOnTime ==
    JumpsFit /\ tick.phase # "wake" =>
        \A m \in Timer : timerState[m] = "ACTIVE" =>
            /\ due[m] \in 1 .. Period[m]
            /\ TickElapsed(now, deadline[m]) = due[m]

\* After a stop or a restart no callback begins for an earlier expiry.
CallbackIsOwed ==
    [][\A m \in Timer :
          running # m /\ running' = m => owed[m] /\ callback[m] = "PENDING"]_timersAll

\* No wake-up is lost: while work is queued the service is not blocked.
WorkKeepsServiceAwake == ring # << >> => state[Service] # "BLOCKED"

\* rts_scheduler_prepare_switch asserts rts_switch_outgoing_is_valid: when the
\* tick handler has woken somebody and chooses again, the current task is
\* RUNNING, or BLOCKED and about to be switched out.
OutgoingAsserted ==
    /\ tick.phase = "wake" /\ tick.woke
    /\ ~HeadExpired(delayQ, wakeTick, now)
    /\ ~TimerExpired
    => OutgoingIsValid

\* A callback that has begun is not cancelled: the service does not block
\* inside it.
CallbackNotCancelled == running # NoTimer => state[Service] # "BLOCKED"
=============================================================================
