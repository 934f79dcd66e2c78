---------------------------- MODULE TicklessIdle ----------------------------
(***************************************************************************)
(* Tickless idle (kernel/power.c, targets/nxp/s32k148/target_power.c)      *)
(* under the whole kernel: delays, the semaphore and software timers.      *)
(*                                                                         *)
(* While the idle task is inside rts_port_power_sleep SysTick is off and   *)
(* kernel->current_tick stands still; real time is what the histories left *)
(* and due count, and LPTMR0 counts it too.  Interrupts are enabled from   *)
(* the instruction before WFI to the one after it.                         *)
(*                                                                         *)
(* Where QuietSleep is TRUE, no interrupt in that window wakes a task and  *)
(* no SysTick was left pending by the lock.  Everywhere here PendSV runs   *)
(* before the next tick: the interleavings in between are those of the     *)
(* modules extended.                                                       *)
(***************************************************************************)
EXTENDS Semaphore, Timers

CONSTANTS
    MaxSleep,       \* RTS_TICKLESS_MAX_SLEEP_TICKS
    QuietSleep      \* nothing in the window of the sleep wakes a task

ASSUME TicklessAssumption ==
    /\ MaxSleep \in 1 .. MaxAdvance
    /\ QuietSleep \in BOOLEAN

VARIABLE
    sleep           \* rts_power_idle of the idle task: how far it is, the ticks
                    \* asked for, the LPTMR0 count, rts_s32k148_lptmr_woke, and
                    \* whether a SysTick was left pending

kernelAll == <<vars, semVars, timerVars, sleep>>

Awake == [phase |-> "awake", max |-> 0, count |-> 0, woke |-> FALSE, pended |-> FALSE]

TicklessInit == TimersInit /\ SemObjectInit /\ sleep = Awake
-----------------------------------------------------------------------------
(***************************************************************************)
(* rts_power_idle down to the WFI instruction.                             *)
(***************************************************************************)
SleepIsAllowed ==
    /\ lifecycle = "RUNNING"
    /\ current = Idle
    /\ state[Idle] = "RUNNING"
    /\ ~plan.pending /\ ~plan.active
    /\ PickNext(ready) = Idle

\* rts_power_consider_deadline for the head of a queue: none if it is empty, 0
\* if the head is due.
HeadDistance(queue, ticks) ==
    IF queue = << >> THEN {}
    ELSE IF TickReached(now, ticks[Head(queue)]) THEN {0}
    ELSE {TickElapsed(now, ticks[Head(queue)])}

\* Faulty variant: software timers are forgotten.
SleepTicksDelaysOnly == Min({MaxSleep} \cup HeadDistance(delayQ, wakeTick))

\* rts_power_plan_compute.
SleepTicks ==
    Min({MaxSleep} \cup HeadDistance(delayQ, wakeTick) \cup HeadDistance(timerQ, deadline))

\* The lock, the plan, and rts_port_power_sleep until it unmasks interrupts.
SleepEnter(pended) ==
    /\ InApplication(Idle)
    /\ sleep.phase = "awake"
    /\ SleepIsAllowed
    /\ SleepTicks # 0
    /\ pended => ~QuietSleep
    /\ sleep' = [phase |-> "unmasked", max |-> SleepTicks, count |-> 0, woke |-> FALSE,
                 pended |-> pended]
    /\ UNCHANGED <<vars, semVars, timerVars>>

\* The processor executes WFI and halts.  A pending interrupt comes first.
WaitForInterrupt ==
    /\ Executing(Idle)
    /\ sleep.phase = "unmasked"
    /\ ~sleep.pended
    /\ sleep' = [sleep EXCEPT !.phase = "wfi"]
    /\ UNCHANGED <<vars, semVars, timerVars>>
-----------------------------------------------------------------------------
(***************************************************************************)
(* What happens while SysTick is off.                                      *)
(***************************************************************************)
SysTickIsOff == sleep.phase \in {"unmasked", "wfi", "woken"}

\* PendSV has nothing to do and the current task none to request.
SwitchIsSettled == ~pendsv /\ ~plan.active /\ (\A t \in Task : owes[t] => t # current)

\* An interrupt ends WFI.
Interrupted(s) == [s EXCEPT !.phase = IF @ = "wfi" THEN "woken" ELSE @]

\* A tick of real time: the processor is halted, or another task has been
\* switched to in the meantime.  LPTMR0 counts it, and at the end of the sleep
\* interrupts (LPTMR0_IRQHandler).  Time is followed that far.
SleepTick ==
    /\ SysTickIsOff
    /\ sleep.phase = "wfi" \/ current # Idle
    /\ tick.phase = "none"
    /\ SwitchIsSettled
    /\ ~sleep.woke
    /\ left' = [t \in Task |-> IF Queued(delayQ, t) THEN left[t] - 1 ELSE left[t]]
    /\ due' = [m \in Timer |-> IF timerState[m] = "ACTIVE" THEN due[m] - 1 ELSE due[m]]
    /\ LET counted == [sleep EXCEPT !.count = @ + 1]
       IN  sleep' = IF counted.count = sleep.max
                      THEN Interrupted([counted EXCEPT !.woke = TRUE])
                      ELSE counted
    /\ UNCHANGED <<lifecycle, now, current, plan, pendsv, owes, tick, state, ready, delayQ,
                   wakeTick, slice, semVars, timerState, callback, deadline, generation,
                   timerQ, ring, running, owed>>

\* An interrupt that does not concern the kernel.
ForeignInterrupt ==
    /\ sleep.phase = "wfi"
    /\ sleep' = Interrupted(sleep)
    /\ UNCHANGED <<vars, semVars, timerVars>>

\* An interrupt that gives the semaphore.
DeviceInterrupt ==
    /\ sleep.phase # "skip"
    /\ SysTickIsOff /\ QuietSleep => waiters = << >>
    /\ GiveFromIsr
    /\ sleep' = Interrupted(sleep)
    /\ UNCHANGED timerVars
-----------------------------------------------------------------------------
(***************************************************************************)
(* The rest of rts_port_power_sleep and of rts_power_idle: interrupts are  *)
(* masked, SysTick restarted, and the kernel clock advances by the ticks   *)
(* that the sleep lasted.                                                  *)
(***************************************************************************)
\* Faulty variant: every sleep is taken to have lasted as long as planned.
SleptTicksPlanned == sleep.max

\* The elapsed time that rts_port_power_sleep reports.
SleptTicks == IF sleep.woke THEN sleep.max ELSE sleep.count

\* A sleep of less than a tick.
ResumeAtOnce ==
    /\ Executing(Idle)
    /\ sleep.phase = "woken"
    /\ SleptTicks = 0
    /\ sleep' = Awake
    /\ UNCHANGED <<vars, semVars, timerVars>>

\* rts_kernel_time_skip, which shares the steps of the tick handler from here.
ResumeAndSkip ==
    /\ Executing(Idle)
    /\ sleep.phase = "woken"
    /\ SleptTicks # 0
    /\ now' = TickAdd(now, SleptTicks)
    /\ tick' = [NoTick EXCEPT !.phase = "wake", !.elapsed = SleptTicks]
    /\ sleep' = [Awake EXCEPT !.phase = "skip"]
    /\ UNCHANGED <<lifecycle, current, plan, pendsv, owes, taskVars, semVars, timerVars>>

\* Faulty variant: the result of the time skip is dropped.
SkipReturnSilent ==
    /\ sleep.phase = "skip"
    /\ tick.phase = "return"
    /\ tick' = NoTick
    /\ sleep' = Awake
    /\ UNCHANGED <<lifecycle, now, current, plan, pendsv, owes, taskVars, semVars, timerVars>>

\* The unlock; the idle task requests PendSV after it (Request).
SkipReturn ==
    /\ sleep.phase = "skip"
    /\ tick.phase = "return"
    /\ owes' = [owes EXCEPT ![Idle] = tick.notify]
    /\ tick' = NoTick
    /\ sleep' = Awake
    /\ UNCHANGED <<lifecycle, now, current, plan, pendsv, taskVars, semVars, timerVars>>
-----------------------------------------------------------------------------
(***************************************************************************)
(* The rest of the kernel.                                                 *)
(***************************************************************************)
\* SysTick_Handler: SysTick is on, or was left pending when it was stopped.
KernelTickEnter ==
    /\ sleep.phase = "awake" \/ sleep.pended
    /\ SwitchIsSettled
    /\ \E e \in Elapsed : TimersTickEnter(e)
    /\ sleep' = [sleep EXCEPT !.pended = FALSE]
    /\ UNCHANGED semVars

TickTimerStep == expired = NoTask /\ TickTimer /\ UNCHANGED <<semVars, sleep>>

KernelTickFinish == expired = NoTask /\ TimersTickFinish /\ UNCHANGED <<semVars, sleep>>

KernelTickReturn ==
    /\ sleep.phase # "skip"
    /\ (TickReturn /\ UNCHANGED semVars) \/ GiveFromTickHook
    /\ UNCHANGED <<timerVars, sleep>>

\* Calls of tasks and of timer callbacks.  The service may not block.
TaskCall(t) ==
    /\ InTaskCode(t)
    /\ \/ TakeAvailable(t) \/ Give(t) \/ TakeReturn(t)
       \/ t # Service /\ \E d \in Delays : SemDelay(t, d)
       \/ t # Service /\ \E d \in Timeouts \cup {Forever} : TakeBlock(t, d)
    /\ UNCHANGED <<timerVars, sleep>>

TimerCall(m) ==
    /\ \A t \in Task : taking[t] => ~InApplication(t)
    /\ TimerStart(m) \/ TimerRestart(m) \/ TimerStop(m)
    /\ UNCHANGED <<semVars, sleep>>

ServiceStep == (ServiceBegin \/ ServiceEnd \/ ServiceBlock) /\ UNCHANGED <<semVars, sleep>>

ExpiryStep == (TickPeek \/ TickWakeDelayed \/ TickTimeout) /\ UNCHANGED <<timerVars, sleep>>

BootStep ==
    /\ (\E t \in Task : Create(t)) \/ Start
    /\ UNCHANGED <<semVars, timerVars, sleep>>

RequestStep(t) == Request(t) /\ UNCHANGED <<semVars, timerVars, sleep>>

SwitchStep ==
    /\ SwitchNoPlan \/ SwitchAcquire \/ SwitchComplete
    /\ UNCHANGED <<semVars, timerVars, sleep>>

TicklessNext ==
    \/ \E pended \in BOOLEAN : SleepEnter(pended)
    \/ WaitForInterrupt
    \/ SleepTick
    \/ ForeignInterrupt
    \/ DeviceInterrupt
    \/ ResumeAtOnce
    \/ ResumeAndSkip
    \/ SkipReturn
    \/ KernelTickEnter
    \/ TickTimerStep
    \/ KernelTickFinish
    \/ KernelTickReturn
    \/ \E t \in Task : TaskCall(t) \/ RequestStep(t)
    \/ \E m \in Timer : TimerCall(m)
    \/ ServiceStep
    \/ ExpiryStep
    \/ BootStep
    \/ SwitchStep

TicklessSpec == TicklessInit /\ [][TicklessNext]_kernelAll

(***************************************************************************)
(* Fairness: time passes, whether SysTick or LPTMR0 counts it (so that an  *)
(* idle processor is not always woken within a tick of falling asleep); a  *)
(* handler, the time skip and the idle task inside its sleep go on; the    *)
(* switch and the instructions after an unlock happen.  The idle task need *)
(* not sleep, and nothing is assumed of calls and devices.                 *)
(***************************************************************************)
TimePasses == KernelTickEnter \/ SleepTick

HandlerGoesOn ==
    \/ ExpiryStep
    \/ TickTimerStep
    \/ KernelTickFinish
    \/ TickReturn /\ sleep.phase # "skip" /\ UNCHANGED <<semVars, timerVars, sleep>>
    \/ SkipReturn

IdleGoesOn == WaitForInterrupt \/ ResumeAtOnce \/ ResumeAndSkip

CallGoesOn(t) == RequestStep(t) \/ (TakeReturn(t) /\ UNCHANGED <<timerVars, sleep>>)

TicklessLiveSpec ==
    /\ TicklessSpec
    /\ SF_kernelAll(TimePasses)
    /\ WF_kernelAll(HandlerGoesOn)
    /\ SF_kernelAll(IdleGoesOn)
    /\ SF_kernelAll(SwitchStep)
    /\ \A t \in Task : SF_kernelAll(CallGoesOn(t))
-----------------------------------------------------------------------------
\* No sleep runs past a deadline: whenever the processor halts for another tick,
\* and whenever SysTick is on, each delayed or waiting task with a timeout and
\* each active timer still has at least a tick to go.
NoOversleep ==
    tick.phase # "wake" /\ sleep.phase # "woken" =>
        /\ \A t \in Task : Queued(delayQ, t) => left[t] >= 1
        /\ \A m \in Timer : timerState[m] = "ACTIVE" => due[m] \in 1 .. Period[m]

\* The kernel clock is behind real time by what LPTMR0 has counted and by
\* nothing once the sleep is over: wake ticks and timer deadlines mean the
\* moments they were asked for, however sleeps end and the clock wraps.
SleepIsCompensated ==
    /\ \A t \in Task : Queued(delayQ, t) =>
          wakeTick[t] = TickAdd(now, sleep.count + left[t])
    /\ \A m \in Timer : timerState[m] = "ACTIVE" =>
          deadline[m] = TickAdd(now, sleep.count + due[m])

\* A nonzero delay has no early wakeup: a task leaves rts_task_delay only when
\* the ticks it asked for have really passed.
NoEarlyDelayEnd ==
    [][\A t \in Task :
          wait[t].reason = "DELAY" /\ wait'[t].reason # "DELAY" => left[t] <= 0]_kernelAll
=============================================================================
