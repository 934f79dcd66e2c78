------------------------------ MODULE Scheduler -----------------------------
(***************************************************************************)
(* The core of the kernel under the fixed-priority policy: task creation   *)
(* and start, delay and yield, the tick handler with delay expiry and      *)
(* round-robin slices, and the PendSV context switch.                      *)
(*                                                                         *)
(* Atomicity.  A public call runs with interrupts masked from              *)
(* rts_kernel_lock_enter to rts_kernel_lock_exit, so its locked part is    *)
(* one action; the PendSV request it issues AFTER the unlock is another    *)
(* (Request).  SysTick preempts tasks and, where MaskedSwitch is FALSE,    *)
(* PendSV; it is followed step by step.  PendSV has the lowest exception   *)
(* priority and runs as soon as it is pending and no handler is active.    *)
(***************************************************************************)
EXTENDS KernelQueues, SwitchPlan

CONSTANTS
    Task,           \* every task control block, the idle task included
    Idle,           \* kernel->idle_task
    Prio,           \* Prio[t]: task->priority; 0 for the idle task only
    MaxPrio,        \* RTS_PRIORITY_COUNT - 1
    TimeSlice,      \* RTS_TIME_SLICE_TICKS
    TimeSlicing,    \* RTS_ENABLE_TIME_SLICING
    Delays,         \* the delays that tasks ask for
    Elapsed,        \* the tick counts that one tick interrupt reports
    MaskedSwitch    \* PendSV_Handler masks interrupts (Cortex-M4F port)

Priorities == 0 .. MaxPrio

ASSUME SchedulerAssumption ==
    /\ NoTask \notin Task
    /\ Idle \in Task
    /\ MaxPrio \in Nat
    /\ Prio \in [Task -> Priorities]
    /\ \A t \in Task : Prio[t] = 0 <=> t = Idle
    /\ TimeSlice \in Nat \ {0}
    /\ TimeSlicing \in BOOLEAN
    /\ Delays \subseteq 1 .. MaxAdvance
    /\ Elapsed \subseteq 1 .. MaxAdvance
    /\ MaskedSwitch \in BOOLEAN

VARIABLES
    lifecycle,      \* kernel->lifecycle, from INITIALIZED on
    state,          \* task->state; FREE before rts_task_create
    ready,          \* kernel->ready_set
    delayQ,         \* kernel->delay_queue
    wakeTick,       \* task->wait.wake_tick
    now,            \* kernel->current_tick
    slice,          \* task->slice_remaining
    current,        \* the current task of the CPU
    plan,           \* kernel->switch_plan
    pendsv,         \* the PendSV pending bit (ICSR.PENDSVSET)
    owes,           \* owes[t]: t has left the lock but not yet requested PendSV
    tick,           \* the tick handler: its phase and local variables
    left            \* history: true ticks until t's delay expires

taskVars == <<state, ready, delayQ, wakeTick, slice, left>>
vars == <<lifecycle, now, current, plan, pendsv, owes, tick, taskVars>>

NoTick ==
    [phase |-> "none", elapsed |-> 0, woke |-> FALSE, currentWoke |-> FALSE,
     notify |-> FALSE]

\* rts_init leaves every queue but the idle task's empty.
InitWith(states) ==
    /\ lifecycle = "INITIALIZED"
    /\ state = states
    /\ ready = [p \in Priorities |-> IF p = 0 THEN <<Idle>> ELSE << >>]
    /\ delayQ = << >>
    /\ wakeTick = [t \in Task |-> 0]
    /\ now = 0
    /\ slice = [t \in Task |-> TimeSlice]
    /\ current = NoTask
    /\ plan = NoPlan
    /\ pendsv = FALSE
    /\ owes = [t \in Task |-> FALSE]
    /\ tick = NoTick
    /\ left = [t \in Task |-> 0]

Init == InitWith([t \in Task |-> IF t = Idle THEN "READY" ELSE "FREE"])
-----------------------------------------------------------------------------
(***************************************************************************)
(* Before the start: rts_task_create and rts_start.  A start that fails in *)
(* the port is rolled back under the same lock and changes nothing.        *)
(***************************************************************************)
Create(t) ==
    /\ lifecycle = "INITIALIZED"
    /\ state[t] = "FREE"
    /\ state' = [state EXCEPT ![t] = "READY"]
    /\ ready' = ReadyInsert(ready, Prio[t], t)
    /\ UNCHANGED <<lifecycle, delayQ, wakeTick, now, slice, current, plan,
                   pendsv, owes, tick, left>>

Start ==
    /\ lifecycle = "INITIALIZED"
    /\ LET selected == PickNext(ready)
       IN  /\ state' = [state EXCEPT ![selected] = "RUNNING"]
           /\ slice' = [slice EXCEPT ![selected] = TimeSlice]
           /\ current' = selected
    /\ lifecycle' = "RUNNING"
    /\ UNCHANGED <<ready, delayQ, wakeTick, now, plan, pendsv, owes, tick, left>>
-----------------------------------------------------------------------------
(***************************************************************************)
(* Calls of the current task.                                              *)
(***************************************************************************)
\* The processor executes instructions of task t.
Executing(t) ==
    /\ lifecycle = "RUNNING"
    /\ t = current
    /\ tick.phase = "none"
    /\ ~pendsv
    /\ ~plan.active

\* Task t executes application code, between calls of the kernel.
InApplication(t) == Executing(t) /\ ~owes[t]

\* The assertions at the entry of rts_task_delay and rts_task_yield.
DelayIsCoherent(t) ==
    /\ state[t] = "RUNNING"
    /\ Queued(ready[Prio[t]], t)
    /\ ~Queued(delayQ, t)
    /\ ~plan.active

YieldIsCoherent(t) ==
    /\ state[t] = "RUNNING"
    /\ Queued(ready[Prio[t]], t)
    /\ PickNext(ready) = t
    /\ ~plan.active

\* rts_task_delay with a nonzero delay.
Delay(t, d) ==
    /\ InApplication(t)
    /\ t # Idle
    /\ DelayIsCoherent(t)
    /\ wakeTick' = [wakeTick EXCEPT ![t] = TickAdd(now, d)]
    /\ left' = [left EXCEPT ![t] = d]
    /\ ready' = ReadyRemove(ready, Prio[t], t)
    /\ slice' = [slice EXCEPT ![t] = TimeSlice]
    /\ state' = [state EXCEPT ![t] = "BLOCKED"]
    /\ delayQ' = DelayInsert(delayQ, wakeTick', t)
    /\ plan' = PrepareSwitch(plan, t, PickNext(ready'))
    /\ owes' = [owes EXCEPT ![t] = Notifies(plan, t, PickNext(ready'))]
    /\ UNCHANGED <<lifecycle, now, current, pendsv, tick>>

\* rts_task_yield, which is also rts_task_delay(0).
Yield(t) ==
    /\ InApplication(t)
    /\ t # Idle
    /\ YieldIsCoherent(t)
    /\ slice' = [slice EXCEPT ![t] = TimeSlice]
    /\ IF ReadyHasPeer(ready, Prio[t])
         THEN /\ ready' = ReadyRotate(ready, Prio[t])
              /\ plan' = PrepareSwitch(plan, t, PickNext(ready'))
              /\ owes' = [owes EXCEPT ![t] =
                             Notifies(plan, t, PickNext(ready'))]
         ELSE UNCHANGED <<ready, plan, owes>>
    /\ UNCHANGED <<lifecycle, state, delayQ, wakeTick, now, current, pendsv,
                   tick, left>>

\* rts_port_request_reschedule, called once the lock is released.
Request(t) ==
    /\ Executing(t)
    /\ owes[t]
    /\ pendsv' = TRUE
    /\ owes' = [owes EXCEPT ![t] = FALSE]
    /\ UNCHANGED <<lifecycle, now, current, plan, tick, taskVars>>
-----------------------------------------------------------------------------
(***************************************************************************)
(* SysTick_Handler and rts_kernel_tick_advance.                            *)
(***************************************************************************)
\* The handler is entered and the tick count advances.
TickEnter(e) ==
    /\ lifecycle = "RUNNING"
    /\ tick.phase = "none"
    /\ ~(MaskedSwitch /\ plan.active)
    /\ now' = TickAdd(now, e)
    /\ left' = [t \in Task |-> IF Queued(delayQ, t) THEN left[t] - e ELSE left[t]]
    /\ tick' = [NoTick EXCEPT !.phase = "wake", !.elapsed = e]
    /\ UNCHANGED <<lifecycle, state, ready, delayQ, wakeTick, slice, current,
                   plan, pendsv, owes>>

\* A task whose delay ends before PendSV has switched away from it is still
\* executing and goes back to RUNNING.
WokenState(t) == IF t = current THEN "RUNNING" ELSE "READY"

\* One iteration of the expiry loop: rts_tick_wake_task for a plain delay.
TickWake ==
    /\ tick.phase = "wake"
    /\ HeadExpired(delayQ, wakeTick, now)
    /\ LET t == Head(delayQ)
       IN  /\ delayQ' = Unlink(delayQ, t)
           /\ wakeTick' = [wakeTick EXCEPT ![t] = 0]
           /\ slice' = [slice EXCEPT ![t] = TimeSlice]
           /\ state' = [state EXCEPT ![t] = WokenState(t)]
           /\ ready' = ReadyInsert(ready, Prio[t], t)
           /\ tick' = [tick EXCEPT !.woke = TRUE,
                                   !.currentWoke = @ \/ t = current]
           /\ left' = [left EXCEPT ![t] = 0]
    /\ UNCHANGED <<lifecycle, now, current, plan, pendsv, owes>>

\* rts_policy_fp_tick looks at the slice of the current task at all.
SliceCounts ==
    /\ TimeSlicing
    /\ ~tick.currentWoke
    /\ state[current] = "RUNNING"
    /\ current # Idle
    /\ ~plan.active
    /\ ReadyIsFront(ready, Prio[current], current)
    /\ slice[current] # 0

\* Faulty variant: the slice runs out one tick late.
SliceExpiresLate == SliceCounts /\ tick.elapsed > slice[current]

SliceExpires == SliceCounts /\ tick.elapsed >= slice[current]

\* The rest of rts_kernel_time_advance_common: charge the slice, and choose
\* again if a task woke or the slice rotated its queue.
TickFinish ==
    /\ tick.phase = "wake"
    /\ ~HeadExpired(delayQ, wakeTick, now)
    /\ LET rotates == SliceExpires /\ ReadyHasPeer(ready, Prio[current])
       IN  /\ slice' = IF SliceExpires
                         THEN [slice EXCEPT ![current] = TimeSlice]
                       ELSE IF SliceCounts
                         THEN [slice EXCEPT ![current] = @ - tick.elapsed]
                       ELSE slice
           /\ ready' = IF rotates THEN ReadyRotate(ready, Prio[current])
                                  ELSE ready
           /\ IF tick.woke \/ rotates
                THEN /\ plan' = PrepareSwitch(plan, current, PickNext(ready'))
                     /\ tick' = [NoTick EXCEPT !.phase = "return", !.notify =
                                   Notifies(plan, current, PickNext(ready'))]
                ELSE /\ plan' = plan
                     /\ tick' = [NoTick EXCEPT !.phase = "return"]
    /\ UNCHANGED <<lifecycle, state, delayQ, wakeTick, now, current, pendsv,
                   owes, left>>

\* Faulty variant: the handler drops the notification.
TickReturnSilent ==
    /\ tick.phase = "return"
    /\ tick' = NoTick
    /\ UNCHANGED <<lifecycle, now, current, plan, pendsv, owes, taskVars>>

\* The handler pends PendSV if it was told to, and returns.
TickReturn ==
    /\ tick.phase = "return"
    /\ pendsv' = (pendsv \/ tick.notify)
    /\ tick' = NoTick
    /\ UNCHANGED <<lifecycle, now, current, plan, owes, taskVars>>
-----------------------------------------------------------------------------
(***************************************************************************)
(* PendSV_Handler.                                                         *)
(***************************************************************************)
PendSVRuns ==
    /\ lifecycle = "RUNNING"
    /\ tick.phase = "none"

\* rts_cm4f_switch_bridge_acquire without a plan: a stale request.
SwitchNoPlan ==
    /\ PendSVRuns
    /\ pendsv /\ ~plan.active
    /\ ~plan.pending
    /\ pendsv' = FALSE
    /\ UNCHANGED <<lifecycle, now, current, plan, owes, tick, taskVars>>

\* rts_cm4f_switch_bridge_acquire: the plan becomes ACTIVE.
SwitchAcquire ==
    /\ PendSVRuns
    /\ pendsv /\ ~plan.active
    /\ plan.pending
    /\ pendsv' = FALSE
    /\ plan' = AcquirePlan(plan)
    /\ UNCHANGED <<lifecycle, now, current, owes, tick, taskVars>>

\* rts_cm4f_switch_bridge_complete: rts_scheduler_switch_complete, then
\* rts_scheduler_reselect_after_switch and the request it may ask for.
SwitchComplete ==
    /\ PendSVRuns
    /\ plan.active
    /\ LET selected == PickNext(ready)
           idlePlan == ClearPlan(plan)
       IN  /\ state' = [state EXCEPT
                           ![plan.from] = IF @ = "RUNNING" THEN "READY" ELSE @,
                           ![plan.to] = "RUNNING"]
           /\ slice' = [slice EXCEPT ![plan.to] = TimeSlice]
           /\ current' = plan.to
           /\ IF plan.reselect
                THEN /\ plan' = PrepareSwitch(idlePlan, plan.to, selected)
                     /\ pendsv' = (pendsv \/ Notifies(idlePlan, plan.to, selected))
                ELSE /\ plan' = idlePlan
                     /\ pendsv' = pendsv
    /\ UNCHANGED <<lifecycle, ready, delayQ, wakeTick, now, owes, tick, left>>
-----------------------------------------------------------------------------
Next ==
    \/ \E t \in Task : Create(t)
    \/ Start
    \/ \E t \in Task, d \in Delays : Delay(t, d)
    \/ \E t \in Task : Yield(t)
    \/ \E t \in Task : Request(t)
    \/ \E e \in Elapsed : TickEnter(e)
    \/ TickWake
    \/ TickFinish
    \/ TickReturn
    \/ SwitchNoPlan
    \/ SwitchAcquire
    \/ SwitchComplete

Spec == Init /\ [][Next]_vars

(***************************************************************************)
(* Fairness.  SysTick and PendSV are latched by the hardware and each      *)
(* handler is short against the tick period, so whatever keeps becoming    *)
(* possible between two ticks eventually happens: the next tick, PendSV,   *)
(* and the instruction after an unlock that requests PendSV.  Nothing is   *)
(* assumed of the calls that tasks choose to make.                         *)
(***************************************************************************)
Fairness ==
    /\ WF_vars(Start)
    /\ SF_vars(\E e \in Elapsed : TickEnter(e))
    /\ WF_vars(TickWake)
    /\ WF_vars(TickFinish)
    /\ WF_vars(TickReturn)
    /\ SF_vars(SwitchNoPlan)
    /\ SF_vars(SwitchAcquire)
    /\ SF_vars(SwitchComplete)
    /\ \A t \in Task : SF_vars(Request(t))

LiveSpec == Spec /\ Fairness
-----------------------------------------------------------------------------
(***************************************************************************)
(* Safety.                                                                 *)
(***************************************************************************)
States == {"FREE", "READY", "RUNNING", "BLOCKED"}

\* The type invariant: every field of the kernel state keeps its C type.
TypeOK ==
    /\ lifecycle \in {"INITIALIZED", "RUNNING"}
    /\ state \in [Task -> States]
    /\ ready \in [Priorities -> Seq(Task)]
    /\ delayQ \in Seq(Task)
    /\ wakeTick \in [Task -> Ticks]
    /\ now \in Ticks
    /\ slice \in [Task -> 0 .. TimeSlice]
    /\ current \in Task \cup {NoTask}
    /\ plan \in Plans(Task)
    /\ pendsv \in BOOLEAN
    /\ owes \in [Task -> BOOLEAN]
    /\ tick \in [phase : {"none", "wake", "return"}, elapsed : 0 .. MaxAdvance,
                  woke : BOOLEAN, currentWoke : BOOLEAN, notify : BOOLEAN]
    /\ left \in [Task -> Int]

\* A task is linked into exactly the queue its state says
\* (rts_invariant_task_membership): READY and RUNNING tasks once into the
\* ready queue of their own priority, BLOCKED tasks once into the delay queue.
QueueMembership ==
    /\ \A t \in Task :
          /\ Queued(delayQ, t) <=> state[t] = "BLOCKED"
          /\ \A p \in Priorities :
                Queued(ready[p], t) <=> /\ state[t] \in {"READY", "RUNNING"}
                                       /\ p = Prio[t]
    /\ \A p \in Priorities : Distinct(ready[p])
    /\ Distinct(delayQ)

\* Once started there is one current task, it is the only one that may be
\* RUNNING, it is RUNNING unless it has just blocked, and a current task that
\* has blocked always has a switch on its way (rts_switch_outgoing_is_valid;
\* the assertion after prepare_switch in rts_task_delay).
CurrentCoherent ==
    lifecycle = "RUNNING" =>
        /\ current \in Task
        /\ state[current] \in {"RUNNING", "BLOCKED"}
        /\ \A t \in Task : state[t] = "RUNNING" => t = current
        /\ state[current] = "BLOCKED" => plan.pending \/ plan.active

\* Whatever interleaving of calls and ticks led here, a plan that PendSV may
\* acquire or is completing leads from the current task to another task that
\* is READY: the assertions of rts_scheduler_switch_acquire and
\* rts_scheduler_switch_complete never fire.
PlanCoherent ==
    /\ ~(plan.pending /\ plan.active)
    /\ plan.pending \/ plan.active =>
          /\ lifecycle = "RUNNING"
          /\ plan.from = current
          /\ plan.to \in Task \ {current}
          /\ state[plan.to] = "READY"
    /\ ~plan.pending /\ ~plan.active => plan = NoPlan

\* The scheduling decision is never stale: outside the expiry loop of a tick,
\* the task that runs, or the target of the pending plan, is the front of the
\* highest ready queue, and an ACTIVE switch to any other task is marked for
\* reselection.
DecisionIsHighest ==
    lifecycle = "RUNNING" /\ tick.phase # "wake" =>
        LET highest == PickNext(ready)
        IN  /\ plan.pending => plan.to = highest
            /\ plan.active => plan.to = highest \/ plan.reselect
            /\ ~plan.pending /\ ~plan.active => current = highest

\* A pending plan is never forgotten: PendSV is pending, or the current task
\* or the tick handler has yet to pend it.  prepare_switch notifies once, for
\* a new plan only, and the notified party acts on it after the unlock.
NoLostReschedule ==
    plan.pending => pendsv \/ owes[current] \/ tick.notify

\* Application code only ever runs in the highest-priority ready task, as
\* RUNNING: the coherence assertions at the entry of rts_task_delay and
\* rts_task_yield hold whenever a task can make the call.
CallsCoherent ==
    \A t \in Task :
        InApplication(t) => DelayIsCoherent(t) /\ YieldIsCoherent(t)

\* Between ticks every delayed task still has 1 .. RTS_TICK_MAX_ADVANCE true
\* ticks to go, and its wrapped wake tick says so.  No wake-up is ever missed
\* or late, across any number of wrap-arounds.
DelaysOnTime ==
    tick.phase = "none" =>
        \A t \in Task : state[t] = "BLOCKED" =>
            /\ left[t] \in 1 .. MaxAdvance
            /\ wakeTick[t] = TickAdd(now, left[t])

\* The delay queue is ordered by true remaining time, although it is built
\* from comparisons of wrapped ticks.
DelayQueueOrdered == OrderedBy(delayQ, left)

\* The comparison in rts_delay_insert never meets the ambiguous half range
\* that it asserts against (rts_tick_is_before).
HalfRangeUnreached ==
    tick.phase = "none" =>
        \A i \in 1 .. Len(delayQ), d \in Delays :
            TickElapsed(wakeTick[delayQ[i]], TickAdd(now, d)) # Half

\* A nonzero delay has no early wakeup: a task leaves BLOCKED only when the
\* number of ticks it asked for has really passed.
NoEarlyWake ==
    [][\A t \in Task :
          state[t] = "BLOCKED" /\ state'[t] # "BLOCKED" => left[t] <= 0]_vars

\* First come, first served among peers: no task gets ahead of a task that
\* waits in the same ready queue.  Only the current task, which yields or uses
\* up its slice, ever falls back.
NoOvertaking ==
    [][\A p \in Priorities, t, u \in Task :
          /\ t # current
          /\ Queued(ready[p], t)
          /\ Precedes(ready'[p], u, t)
          => Precedes(ready[p], u, t)]_vars
-----------------------------------------------------------------------------
(***************************************************************************)
(* The inductive invariant behind the safety properties.                   *)
(***************************************************************************)
\* The decision is fresh unless the current tick has woken someone and has
\* not yet chosen again.
DecisionFresh ==
    lifecycle = "RUNNING" /\ (tick.phase = "wake" => ~tick.woke) =>
        /\ plan.pending => plan.to = PickNext(ready)
        /\ plan.active => plan.to = PickNext(ready) \/ plan.reselect
        /\ ~plan.pending /\ ~plan.active => current = PickNext(ready)

\* The local variables of the tick handler.
TickCoherent ==
    /\ tick.phase = "wake" => tick.elapsed \in 1 .. MaxAdvance
    /\ tick.phase # "return" => ~tick.notify
    /\ tick.phase # "none" => lifecycle = "RUNNING"
    /\ tick.currentWoke => tick.woke

\* The wrapped wake tick agrees with the true remaining time, which may be
\* used up only inside the expiry loop.
DelayClock ==
    \A t \in Task : state[t] = "BLOCKED" =>
        /\ left[t] \in (-MaxAdvance) .. MaxAdvance
        /\ tick.phase # "wake" => left[t] >= 1
        /\ wakeTick[t] = TickAdd(now, left[t])

\* Before the start nothing runs; the idle task never blocks.
BootCoherent ==
    /\ lifecycle = "INITIALIZED" =>
          /\ current = NoTask
          /\ plan = NoPlan
          /\ \A t \in Task : state[t] \in {"FREE", "READY"}
    /\ lifecycle = "RUNNING" => current \in Task
    /\ state[Idle] \in {"READY", "RUNNING"}

IndInv ==
    /\ TypeOK
    /\ QueueMembership
    /\ CurrentCoherent
    /\ PlanCoherent
    /\ DecisionFresh
    /\ NoLostReschedule
    /\ TickCoherent
    /\ DelayClock
    /\ DelayQueueOrdered
    /\ BootCoherent
-----------------------------------------------------------------------------
(***************************************************************************)
(* Liveness.                                                               *)
(***************************************************************************)
\* Every delayed task wakes.
DelayedTaskWakes ==
    \A t \in Task : state[t] = "BLOCKED" ~> state[t] # "BLOCKED"

\* Round robin: with time slicing, a ready task of the top priority gets the
\* processor, whatever its peers do.
TopPriorityRuns ==
    \A t \in Task :
        state[t] = "READY" /\ Prio[t] = MaxPrio ~> state[t] = "RUNNING"
-----------------------------------------------------------------------------
(***************************************************************************)
(* Refinement.                                                             *)
(***************************************************************************)
Runnable == {t \in Task : state[t] \in {"READY", "RUNNING"}}

Promise == INSTANCE PriorityScheduler WITH runnable <- Runnable,
                                           running <- current

\* Where PendSV masks interrupts (Cortex-M4F), the queues, plans and exceptions
\* implement a priority scheduler: PendSV never hands the processor to a task
\* that is not of the highest runnable priority.
KeepsPromise == Promise!Spec

\* And it hands the processor over whenever the running task has blocked or is
\* no longer the most urgent one.
KeepsFairPromise == Promise!FairSpec
=============================================================================
