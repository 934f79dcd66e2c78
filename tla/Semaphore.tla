------------------------------ MODULE Semaphore -----------------------------
(***************************************************************************)
(* A counting semaphore on top of the scheduler core: tasks take and give, *)
(* waits time out in the tick handler, and interrupt handlers give.        *)
(*                                                                         *)
(* One semaphore is modelled; a task waits for at most one object and the  *)
(* kernel keeps no state that two semaphores share beyond the core's.  An  *)
(* interrupt that gives is at least as urgent as SysTick, so its handler   *)
(* is one step; where NestedGive is TRUE it is more urgent (the FlexCAN    *)
(* example runs at 6, SysTick at 14) and may interrupt the tick handler,   *)
(* which runs with interrupts enabled.                                     *)
(***************************************************************************)
EXTENDS Scheduler, WaitObject

CONSTANTS
    InitialCount,   \* initial_count
    MaximumCount,   \* semaphore->maximum_count
    Timeouts,       \* the finite nonzero timeouts that tasks ask for
    Forever,        \* RTS_WAIT_FOREVER
    NestedGive      \* interrupts that preempt SysTick give the semaphore

ASSUME SemaphoreAssumption ==
    /\ MaximumCount \in Nat \ {0}
    /\ InitialCount \in 0 .. MaximumCount
    /\ Timeouts \subseteq 1 .. MaxAdvance
    /\ Forever \notin Timeouts
    /\ NestedGive \in BOOLEAN

VARIABLES
    count,          \* semaphore->count
    waiters,        \* semaphore->waiters
    wait,           \* task->wait: reason, timeout_active and result
    taking,         \* taking[t]: t is inside rts_semaphore_take, past the lock
    expired,        \* the task that the expiry loop has just looked up
    balance         \* history: the initial count, plus the gives that were
                    \* accepted, minus the takes that returned RTS_STATUS_OK

semVars == <<count, waiters, wait, taking, expired, balance>>
semAll == <<vars, semVars>>

NoWait == [reason |-> "NONE", timed |-> FALSE, result |-> "NONE"]

SemObjectInit ==
    /\ count = InitialCount
    /\ waiters = << >>
    /\ wait = [t \in Task |-> NoWait]
    /\ taking = [t \in Task |-> FALSE]
    /\ expired = NoTask
    /\ balance = InitialCount

SemInit == Init /\ SemObjectInit
-----------------------------------------------------------------------------
(***************************************************************************)
(* rts_semaphore_take.                                                     *)
(***************************************************************************)
\* Task t may call the kernel.
Calls(t) == InApplication(t) /\ ~taking[t] /\ t # Idle

\* rts_semaphore_current_can_block.
CanBlock(t) ==
    /\ state[t] = "RUNNING"
    /\ Queued(ready[Prio[t]], t)
    /\ wait[t] = NoWait
    /\ ~Queued(delayQ, t)
    /\ ~Queued(waiters, t)
    /\ ~plan.active

\* A unit is available.
TakeAvailable(t) ==
    /\ Calls(t)
    /\ count > 0
    /\ count' = count - 1
    /\ balance' = balance - 1
    /\ UNCHANGED <<vars, waiters, wait, taking, expired>>

\* None is: wait for one, for d ticks or for ever.
TakeBlock(t, d) ==
    /\ Calls(t)
    /\ count = 0
    /\ CanBlock(t)
    /\ ready' = ReadyRemove(ready, Prio[t], t)
    /\ wait' = [wait EXCEPT ![t] =
                   [reason |-> "SEMAPHORE", timed |-> d # Forever, result |-> "NONE"]]
    /\ wakeTick' = [wakeTick EXCEPT ![t] = IF d # Forever THEN TickAdd(now, d) ELSE 0]
    /\ left' = [left EXCEPT ![t] = IF d # Forever THEN d ELSE 0]
    /\ slice' = [slice EXCEPT ![t] = TimeSlice]
    /\ state' = [state EXCEPT ![t] = "BLOCKED"]
    /\ waiters' = WaitInsert(waiters, Prio, t)
    /\ delayQ' = IF d # Forever THEN DelayInsert(delayQ, wakeTick', t) ELSE delayQ
    /\ plan' = PrepareSwitch(plan, t, PickNext(ready'))
    /\ owes' = [owes EXCEPT ![t] = Notifies(plan, t, PickNext(ready'))]
    /\ taking' = [taking EXCEPT ![t] = TRUE]
    /\ UNCHANGED <<lifecycle, now, current, pendsv, tick, count, expired, balance>>

\* Task t executes again after the wait; rts_semaphore_wait_result_consume.
\* Without a result the call would return RTS_STATUS_OK all the same.
TakeReturn(t) ==
    /\ InApplication(t)
    /\ taking[t]
    /\ taking' = [taking EXCEPT ![t] = FALSE]
    /\ wait' = [wait EXCEPT ![t].result = "NONE"]
    /\ balance' = IF wait[t].result = "TIMEOUT" THEN balance ELSE balance - 1
    /\ UNCHANGED <<vars, count, waiters, expired>>
-----------------------------------------------------------------------------
(***************************************************************************)
(* Waking a waiter, and rts_semaphore_give.                                *)
(***************************************************************************)
\* Faulty variant: the timeout of a waiter that is served is not cancelled.
MakeReadyStillTimed(t, result) ==
    /\ waiters' = Unlink(waiters, t)
    /\ delayQ' = IF result = "TIMEOUT" THEN Unlink(delayQ, t) ELSE delayQ
    /\ wait' = [wait EXCEPT ![t] =
                   [reason |-> "NONE", timed |-> FALSE, result |-> result]]
    /\ wakeTick' = [wakeTick EXCEPT ![t] = 0]
    /\ left' = [left EXCEPT ![t] = 0]
    /\ slice' = [slice EXCEPT ![t] = TimeSlice]
    /\ state' = [state EXCEPT ![t] = WokenState(t)]
    /\ ready' = ReadyInsert(ready, Prio[t], t)

\* rts_semaphore_make_ready.
MakeReady(t, result) ==
    /\ waiters' = Unlink(waiters, t)
    /\ delayQ' = IF wait[t].timed THEN Unlink(delayQ, t) ELSE delayQ
    /\ wait' = [wait EXCEPT ![t] =
                   [reason |-> "NONE", timed |-> FALSE, result |-> result]]
    /\ wakeTick' = [wakeTick EXCEPT ![t] = 0]
    /\ left' = [left EXCEPT ![t] = 0]
    /\ slice' = [slice EXCEPT ![t] = TimeSlice]
    /\ state' = [state EXCEPT ![t] = WokenState(t)]
    /\ ready' = ReadyInsert(ready, Prio[t], t)

\* Faulty variant: the unit is counted although a waiter gets it.
GiveCountsTwice ==
    /\ waiters # << >>
    /\ MakeReady(Head(waiters), "ACQUIRED")
    /\ plan' = PrepareSwitch(plan, current, PickNext(ready'))
    /\ count' = IF count < MaximumCount THEN count + 1 ELSE count

\* Faulty variant: the decision is only revised when the current task has
\* blocked.
GiveToWaiterNoPreemption ==
    /\ waiters # << >>
    /\ MakeReady(Head(waiters), "ACQUIRED")
    /\ plan' = IF state[current] = "BLOCKED"
                 THEN PrepareSwitch(plan, current, PickNext(ready')) ELSE plan
    /\ count' = count

\* rts_semaphore_give_common with a waiter: the unit is handed over directly
\* (rts_semaphore_wake_one) and the choice made again (plan_after_wake).
GiveToWaiter ==
    /\ waiters # << >>
    /\ MakeReady(Head(waiters), "ACQUIRED")
    /\ plan' = PrepareSwitch(plan, current, PickNext(ready'))
    /\ count' = count

\* rts_semaphore_give_common without one.  A full semaphore stays as it is.
GiveToCount ==
    /\ waiters = << >>
    /\ count < MaximumCount
    /\ count' = count + 1
    /\ UNCHANGED <<waiters, wait, plan, taskVars>>

GiveCommon ==
    /\ GiveToWaiter \/ GiveToCount
    /\ balance' = balance + 1
    /\ UNCHANGED <<lifecycle, now, current, taking, expired>>

\* What rts_semaphore_give_common reports to its caller.
GiveNotifies == waiters # << >> /\ Notifies(plan, current, PickNext(ready'))

\* rts_semaphore_give by a task, which then requests PendSV (Request).
Give(t) ==
    /\ Calls(t)
    /\ GiveCommon
    /\ owes' = [owes EXCEPT ![t] = GiveNotifies]
    /\ UNCHANGED <<pendsv, tick>>

\* An interrupt handler: rts_semaphore_give_from_isr, then the request.
GiveFromIsr ==
    /\ lifecycle = "RUNNING"
    /\ tick.phase # "none" => NestedGive
    /\ ~(MaskedSwitch /\ plan.active)
    /\ GiveCommon
    /\ pendsv' = (pendsv \/ GiveNotifies)
    /\ UNCHANGED <<owes, tick>>

\* rts_s32k148_tick_isr_hook gives, before SysTick_Handler requests PendSV.
GiveFromTickHook ==
    /\ tick.phase = "return"
    /\ GiveCommon
    /\ tick' = [tick EXCEPT !.notify = @ \/ GiveNotifies]
    /\ UNCHANGED <<pendsv, owes>>
-----------------------------------------------------------------------------
(***************************************************************************)
(* The tick handler, and the calls of the core.                            *)
(***************************************************************************)
\* rts_delay_peek_expired.
TickPeek ==
    /\ tick.phase = "wake"
    /\ expired = NoTask
    /\ HeadExpired(delayQ, wakeTick, now)
    /\ expired' = Head(delayQ)
    /\ UNCHANGED <<vars, count, waiters, wait, taking, balance>>

\* rts_tick_expired_task_is_valid.
ExpiredIsValid ==
    /\ expired # NoTask
    /\ state[expired] = "BLOCKED"
    /\ Queued(delayQ, expired)

\* rts_tick_wake_task for a plain delay.
TickWakeDelayed ==
    /\ ExpiredIsValid
    /\ wait[expired].reason = "DELAY"
    /\ expired = Head(delayQ)
    /\ TickWake
    /\ wait' = [wait EXCEPT ![expired] = NoWait]
    /\ expired' = NoTask
    /\ UNCHANGED <<count, waiters, taking, balance>>

\* rts_tick_wake_task for a semaphore: rts_semaphore_timeout_task.
TickTimeout ==
    /\ ExpiredIsValid
    /\ wait[expired].reason = "SEMAPHORE"
    /\ MakeReady(expired, "TIMEOUT")
    /\ tick' = [tick EXCEPT !.woke = TRUE,
                            !.currentWoke = @ \/ expired = current]
    /\ expired' = NoTask
    /\ UNCHANGED <<lifecycle, now, current, plan, pendsv, owes, count, taking, balance>>

SemDelay(t, d) ==
    /\ Calls(t)
    /\ Delay(t, d)
    /\ wait' = [wait EXCEPT ![t] = [NoWait EXCEPT !.reason = "DELAY"]]
    /\ UNCHANGED <<count, waiters, taking, expired, balance>>

SemYield(t) == Calls(t) /\ Yield(t) /\ UNCHANGED semVars

SemTickFinish == expired = NoTask /\ TickFinish /\ UNCHANGED semVars

\* The steps of the core that semaphores do not touch.
CoreStep ==
    /\ \/ \E t \in Task : Create(t) \/ Request(t)
       \/ Start
       \/ \E e \in Elapsed : TickEnter(e)
       \/ TickReturn
       \/ SwitchNoPlan
       \/ SwitchAcquire
       \/ SwitchComplete
    /\ UNCHANGED semVars

SemNext ==
    \/ CoreStep
    \/ \E t \in Task, d \in Delays : SemDelay(t, d)
    \/ \E t \in Task : SemYield(t) \/ TakeAvailable(t) \/ TakeReturn(t) \/ Give(t)
    \/ \E t \in Task, d \in Timeouts \cup {Forever} : TakeBlock(t, d)
    \/ GiveFromIsr
    \/ GiveFromTickHook
    \/ TickPeek
    \/ TickWakeDelayed
    \/ TickTimeout
    \/ SemTickFinish

SemSpec == SemInit /\ [][SemNext]_semAll
-----------------------------------------------------------------------------
(***************************************************************************)
(* Safety.                                                                 *)
(***************************************************************************)
\* The type invariant of the semaphore and of the wait metadata.
SemTypeOK ==
    /\ TypeOK
    /\ count \in 0 .. MaximumCount
    /\ waiters \in Seq(Task)
    /\ wait \in [Task -> [reason : {"NONE", "DELAY", "SEMAPHORE"}, timed : BOOLEAN,
                          result : {"NONE", "ACQUIRED", "TIMEOUT"}]]
    /\ taking \in [Task -> BOOLEAN]
    /\ expired \in Task \cup {NoTask}
    /\ balance \in Int

\* rts_scheduler_task_is_blocked_wait, for every task at every moment: the
\* queues a task is linked into, its state and its wait metadata agree, and a
\* blocked task has no result yet.
WaitMembership ==
    /\ SemTypeOK
    /\ Distinct(waiters)
    /\ Distinct(delayQ)
    /\ \A t \in Task :
          /\ state[t] = "BLOCKED" <=> wait[t].reason # "NONE"
          /\ Queued(waiters, t) <=> wait[t].reason = "SEMAPHORE"
          /\ Queued(delayQ, t) <=> wait[t].reason = "DELAY" \/ wait[t].timed
          /\ \A p \in Priorities :
                Queued(ready[p], t) <=> /\ state[t] \in {"READY", "RUNNING"}
                                        /\ p = Prio[t]
          /\ wait[t].result # "NONE" => wait[t].reason = "NONE" /\ taking[t]

\* Every unit is accounted for: what was given and not yet taken is either in
\* the count or on its way to a task that has been handed it.  A give that
\* races a timeout neither loses the unit nor hands it out twice, and nobody
\* waits while a unit is available.
UnitsConserved ==
    /\ balance = count + Cardinality({t \in Task : wait[t].result = "ACQUIRED"})
    /\ count > 0 => waiters = << >>

\* A take that has to wait is never refused with RTS_STATUS_INVALID_STATE, and
\* never comes back empty-handed: when the task executes again its wait has
\* been decided.  (The return at the end of rts_semaphore_take that reports
\* RTS_STATUS_OK without a result is for the host port only.)
TakeIsDecided ==
    \A t \in Task :
        /\ Calls(t) => CanBlock(t)
        /\ InApplication(t) /\ taking[t] => wait[t].result # "NONE"

\* The task that rts_tick_wake_task is called with is still blocked
\* (rts_tick_expired_task_is_valid).
ExpiryIsValid == expired # NoTask => ExpiredIsValid

\* u has been waiting for longer than t, or t does not wait.
WaitsAhead(queue, u, t) ==
    Queued(queue, u) /\ (Queued(queue, t) => Precedes(queue, u, t))

\* A give serves the most urgent waiter, and the oldest among equals: while u
\* waits, no task that is not more urgent gets in front of it or is served
\* before it, whatever times out or gives in the meantime.
ServedInOrder ==
    [][\A t, u \in Task :
          u # t /\ Queued(waiters, u) /\ Queued(waiters', u) =>
              LET served == wait[t].result = "NONE" /\ wait'[t].result = "ACQUIRED"
              IN  /\ Prio[u] > Prio[t] => ~served
                  /\ Prio[u] = Prio[t] /\ WaitsAhead(waiters, u, t)
                        => ~served /\ WaitsAhead(waiters', u, t)]_semAll

\* A wait times out only when its ticks have really passed, and never after it
\* has been served.
NoEarlyTimeout ==
    [][\A t \in Task :
          wait'[t].result = "TIMEOUT" /\ wait[t].result # "TIMEOUT"
              => left[t] <= 0 /\ wait[t].result = "NONE" /\ Queued(waiters, t)]_semAll

MostUrgent(t) == \A u \in Task \ {t} : Prio[u] < Prio[t]

\* Liveness.  The most urgent task comes back from rts_semaphore_take with a
\* timeout, whether or not anyone gives: the tick handler ends the wait and
\* takes the processor from whoever is running.
TimedTakeReturns ==
    \A t \in Task : MostUrgent(t) => (wait[t].timed ~> ~taking[t])

\* Liveness.  Once its wait is decided, the most urgent task comes back from
\* rts_semaphore_take, whoever is running when the unit is given.
DecidedTakeReturns ==
    \A t \in Task : MostUrgent(t) => (wait[t].result # "NONE" ~> ~taking[t])
=============================================================================
