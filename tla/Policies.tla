------------------------------ MODULE Policies ------------------------------
(***************************************************************************)
(* The EDF and the RMS policy (kernel/policy_edf.c, kernel/policy_rms.c)   *)
(* behind the policy interface (kernel/scheduler_policy.c), with the part  *)
(* of the scheduler that releases, rotates and dispatches tasks.           *)
(*                                                                         *)
(* The program is compiled for one policy; here the initial state chooses  *)
(* one.  Tasks are periodic: a job computes for at most its execution      *)
(* budget, then delays until its next period or some ticks longer.  The    *)
(* budget is not enforced by the program; here no tick finds a task        *)
(* running that has used it up.  PendSV follows its request before the     *)
(* next tick: module Scheduler has the ticks that come first.              *)
(*                                                                         *)
(* A task that enters a queue has the newest release_sequence, so it goes  *)
(* behind those of equal deadline; the sequence itself is left out, as are *)
(* more than 2^31 releases during the stay of one task in the queue.       *)
(***************************************************************************)
EXTENDS KernelQueues, SwitchPlan, SequencesExt

CONSTANTS
    Task,           \* the tasks, the idle task included
    Idle,           \* kernel->idle_task
    MaxPrio,        \* RTS_PRIORITY_COUNT - 1
    Period,         \* Period[policy][t]: task->period
    Relative,       \* Relative[policy][t]: task->relative_deadline
    Budget,         \* Budget[policy][t]: task->execution_budget
    Jitter,         \* by how much a job may be released late
    TimeSlice       \* RTS_TIME_SLICE_TICKS

Policy == {"EDF", "RMS"}
App == Task \ {Idle}
Priorities == 0 .. MaxPrio

\* rts_task_config_validate and the assertion of config_internal.h on ranks.
ASSUME PoliciesAssumption ==
    /\ Idle \in Task /\ NoTask \notin Task
    /\ Cardinality(App) < MaxPrio
    /\ TimeSlice \in Nat \ {0}
    /\ Jitter \subseteq Nat
    /\ \A p \in Policy, t \in App :
          /\ \A j \in Jitter : Period[p][t] + j \in 1 .. MaxAdvance
          /\ Relative[p][t] \in 1 .. MaxAdvance
          /\ p = "RMS" => Relative[p][t] <= Period[p][t]
          /\ Budget[p][t] \in 0 .. Relative[p][t]

VARIABLES
    policy,         \* RTS_POLICY_EDF or RTS_POLICY_RMS
    lifecycle,      \* kernel->lifecycle
    slots,          \* the allocated slots of the task pool, in order
    now,            \* kernel->current_tick
    current,        \* the current task
    plan,           \* kernel->switch_plan
    ready,          \* kernel->ready_set (fp) and kernel->edf_ready (edf)
    delayQ,         \* kernel->delay_queue
    state,          \* task->state
    priority,       \* task->priority
    deadline,       \* task->absolute_deadline
    wakeTick,       \* task->wait.wake_tick
    slice,          \* task->slice_remaining
    tick,           \* the tick handler: whether it is active, woke_task
    age,            \* history: true ticks since the release of the job
    work            \* history: ticks the job has computed

boot == <<policy, lifecycle, slots, priority>>
jobs == <<deadline, age, work>>
vars == <<boot, now, current, plan, ready, delayQ, state, wakeTick, slice, tick, jobs>>

NoTick == [active |-> FALSE, woke |-> FALSE]

\* rts_init leaves the idle task in the queue.
Init ==
    /\ policy \in Policy
    /\ lifecycle = "INITIALIZED"
    /\ slots = << >>
    /\ now = 0
    /\ current = NoTask
    /\ plan = NoPlan
    /\ ready = [fp |-> [p \in Priorities |-> IF p = 0 /\ policy = "RMS" THEN <<Idle>> ELSE << >>],
                edf |-> IF policy = "EDF" THEN <<Idle>> ELSE << >>]
    /\ delayQ = << >>
    /\ state = [t \in Task |-> IF t = Idle THEN "READY" ELSE "FREE"]
    /\ priority = [t \in Task |-> 0]
    /\ deadline = [t \in Task |-> 0]
    /\ wakeTick = [t \in Task |-> 0]
    /\ slice = [t \in Task |-> TimeSlice]
    /\ tick = NoTick
    /\ age = [t \in Task |-> 0]
    /\ work = [t \in Task |-> 0]
-----------------------------------------------------------------------------
(***************************************************************************)
(* Earliest deadline first.                                                *)
(***************************************************************************)
\* Faulty variant: deadlines are compared as plain integers.
EdfIsBeforeUnwrapped(t, u, due) == t # Idle /\ (u = Idle \/ due[t] < due[u])

\* rts_policy_edf_is_before, where t has the newest release_sequence.
EdfIsBefore(t, u, due) == t # Idle /\ (u = Idle \/ TickBefore(due[t], due[u]))

\* rts_policy_edf_insert: before the first task that t is before, or last.
EdfInsert(list, due, t) ==
    LET position == CHOOSE i \in 1 .. (Len(list) + 1) :
                        /\ i <= Len(list) => EdfIsBefore(t, list[i], due)
                        /\ \A j \in 1 .. (i - 1) : ~EdfIsBefore(t, list[j], due)
    IN  ListInsertBefore(list, position, t)

\* rts_policy_edf_yield rotates only if the next task has the same deadline.
EdfYields(list, t) ==
    \E i \in 1 .. (Len(list) - 1) :
        /\ list[i] = t
        /\ list[i + 1] # Idle
        /\ deadline[list[i + 1]] = deadline[t]
-----------------------------------------------------------------------------
(***************************************************************************)
(* Rate monotonic.                                                         *)
(***************************************************************************)
\* One more than the number of tasks with a longer period.
Rank(tasks, t) == 1 + Cardinality({u \in tasks : Period["RMS"][u] > Period["RMS"][t]})

\* Faulty variant: a linked task goes to the front of its new queue.
PriorityChangedFront(ranking, t, rank) ==
    LET old == ranking.priority[t]
        fp == ReadyRemove(ranking.fp, old, t)
    IN  IF old = rank THEN ranking
        ELSE [priority |-> [ranking.priority EXCEPT ![t] = rank],
              fp |-> IF Queued(ranking.fp[old], t) THEN [fp EXCEPT ![rank] = <<t>> \o @]
                     ELSE ranking.fp]

\* rts_policy_fp_priority_changed: a linked task goes to the tail of its new
\* queue.
PriorityChanged(ranking, t, rank) ==
    LET old == ranking.priority[t]
        linked == Queued(ranking.fp[old], t)
    IN  IF old = rank THEN ranking
        ELSE [priority |-> [ranking.priority EXCEPT ![t] = rank],
              fp |-> IF linked THEN ReadyInsert(ReadyRemove(ranking.fp, old, t), rank, t)
                     ELSE ranking.fp]

\* rts_policy_rms_assign_priorities, slot by slot, the new task last.
AssignPriorities(t) ==
    LET tasks == Range(slots) \cup {t}
    IN  FoldLeft(LAMBDA ranking, u : PriorityChanged(ranking, u, Rank(tasks, u)),
                 [priority |-> priority, fp |-> ready.fp], Append(slots, t))
-----------------------------------------------------------------------------
(***************************************************************************)
(* The policy interface.                                                   *)
(***************************************************************************)
\* rts_policy_record_release: a new job.
RecordRelease(t) ==
    /\ deadline' = [deadline EXCEPT ![t] = TickAdd(now, Relative[policy][t])]
    /\ age' = [age EXCEPT ![t] = 0]
    /\ work' = [work EXCEPT ![t] = 0]

\* rts_policy_insert of a new task.
PolicyInsert(t) ==
    /\ RecordRelease(t)
    /\ IF policy = "EDF"
         THEN /\ ready' = [ready EXCEPT !.edf = EdfInsert(@, deadline', t)]
              /\ UNCHANGED priority
         ELSE LET ranking == AssignPriorities(t)
              IN  /\ ready' = [ready EXCEPT
                                 !.fp = ReadyInsert(ranking.fp, ranking.priority[t], t)]
                  /\ priority' = ranking.priority

\* Faulty variant: a job that is released keeps the deadline of the last one.
UnblockStaleDeadline(t) ==
    /\ age' = [age EXCEPT ![t] = 0]
    /\ work' = [work EXCEPT ![t] = 0]
    /\ ready' = IF policy = "EDF" THEN [ready EXCEPT !.edf = EdfInsert(@, deadline, t)]
                ELSE [ready EXCEPT !.fp = ReadyInsert(@, priority[t], t)]
    /\ UNCHANGED deadline

\* rts_policy_task_unblock.
PolicyUnblock(t) ==
    /\ RecordRelease(t)
    /\ ready' = IF policy = "EDF" THEN [ready EXCEPT !.edf = EdfInsert(@, deadline', t)]
                ELSE [ready EXCEPT !.fp = ReadyInsert(@, priority[t], t)]

\* rts_policy_task_block, which is rts_policy_remove.
PolicyBlock(t) ==
    ready' = IF policy = "EDF" THEN [ready EXCEPT !.edf = Unlink(@, t)]
             ELSE [ready EXCEPT !.fp = ReadyRemove(@, priority[t], t)]

PolicyPick(queues) ==
    IF policy = "EDF" THEN Head(queues.edf) ELSE PickNext(queues.fp)

\* rts_policy_yield: whether it rotates, and what it leaves.
PolicyYields(t) ==
    IF policy = "EDF" THEN EdfYields(ready.edf, t) ELSE ReadyHasPeer(ready.fp, priority[t])

PolicyRotated(t) ==
    IF policy = "EDF" THEN [ready EXCEPT !.edf = EdfInsert(Unlink(@, t), deadline, t)]
    ELSE [ready EXCEPT !.fp = ReadyRotate(@, priority[t])]

\* The running task is one whose slice rts_policy_tick charges.
PolicyCharges(t) ==
    /\ t # Idle
    /\ state[t] = "RUNNING"
    /\ policy = "RMS" => ReadyIsFront(ready.fp, priority[t], t)
-----------------------------------------------------------------------------
(***************************************************************************)
(* The scheduler around the policy.                                        *)
(***************************************************************************)
\* rts_task_create.
Create(t) ==
    /\ lifecycle = "INITIALIZED"
    /\ state[t] = "FREE"
    /\ PolicyInsert(t)
    /\ state' = [state EXCEPT ![t] = "READY"]
    /\ slots' = Append(slots, t)
    /\ UNCHANGED <<policy, lifecycle, now, current, plan, delayQ, wakeTick, slice, tick>>

\* rts_start.
Start ==
    /\ lifecycle = "INITIALIZED"
    /\ lifecycle' = "RUNNING"
    /\ current' = PolicyPick(ready)
    /\ state' = [state EXCEPT ![current'] = "RUNNING"]
    /\ UNCHANGED <<policy, slots, priority, now, plan, ready, delayQ, wakeTick, slice, tick,
                   jobs>>

\* The current task executes its own code.
Calls(t) ==
    /\ t = current /\ t # Idle
    /\ ~tick.active
    /\ ~plan.pending

\* The job of t is done: rts_task_delay until the next period and j ticks more,
\* or at least for a tick.
Delay(t, j) ==
    /\ Calls(t)
    /\ PolicyBlock(t)
    /\ wakeTick' = [wakeTick EXCEPT ![t] = TickAdd(now, Max({1, Period[policy][t] + j - age[t]}))]
    /\ delayQ' = DelayInsert(delayQ, wakeTick', t)
    /\ state' = [state EXCEPT ![t] = "BLOCKED"]
    /\ slice' = [slice EXCEPT ![t] = TimeSlice]
    /\ plan' = PrepareSwitch(plan, t, PolicyPick(ready'))
    /\ age' = [age EXCEPT ![t] = 0]
    /\ work' = [work EXCEPT ![t] = 0]
    /\ UNCHANGED <<boot, now, current, tick, deadline>>

\* rts_task_yield.
Yield(t) ==
    /\ Calls(t)
    /\ slice' = [slice EXCEPT ![t] = TimeSlice]
    /\ IF PolicyYields(t)
         THEN /\ ready' = PolicyRotated(t)
              /\ plan' = PrepareSwitch(plan, t, PolicyPick(ready'))
         ELSE UNCHANGED <<ready, plan>>
    /\ UNCHANGED <<boot, now, current, delayQ, state, wakeTick, tick, jobs>>

\* SysTick arrives: the jobs grow older, and the one that ran has computed.
TickEnter ==
    /\ lifecycle = "RUNNING"
    /\ ~tick.active
    /\ ~plan.pending
    /\ current # Idle => work[current] < Budget[policy][current]
    /\ now' = TickAdd(now, 1)
    /\ tick' = [NoTick EXCEPT !.active = TRUE]
    /\ age' = [t \in Task |-> IF t # Idle /\ state[t] \in {"READY", "RUNNING"}
                               THEN age[t] + 1 ELSE age[t]]
    /\ work' = [work EXCEPT ![current] = IF current = Idle THEN 0 ELSE @ + 1]
    /\ UNCHANGED <<boot, current, plan, ready, delayQ, state, wakeTick, slice, deadline>>

\* rts_tick_wake_task: the next job of a task is released.
TickWake ==
    /\ tick.active
    /\ HeadExpired(delayQ, wakeTick, now)
    /\ LET t == Head(delayQ)
       IN  /\ delayQ' = Unlink(delayQ, t)
           /\ wakeTick' = [wakeTick EXCEPT ![t] = 0]
           /\ slice' = [slice EXCEPT ![t] = TimeSlice]
           /\ state' = [state EXCEPT ![t] = IF t = current THEN "RUNNING" ELSE "READY"]
           /\ PolicyUnblock(t)
    /\ tick' = [tick EXCEPT !.woke = TRUE]
    /\ UNCHANGED <<boot, now, current, plan>>

\* The slice of the running task, and the choice.
TickFinish ==
    /\ tick.active
    /\ ~HeadExpired(delayQ, wakeTick, now)
    /\ LET charged == PolicyCharges(current)
           expires == charged /\ slice[current] <= 1
           rotates == expires /\ PolicyYields(current)
       IN  /\ slice' = [slice EXCEPT ![current] = IF expires THEN TimeSlice
                                                  ELSE IF charged THEN @ - 1 ELSE @]
           /\ ready' = IF rotates THEN PolicyRotated(current) ELSE ready
           /\ plan' = IF tick.woke \/ rotates
                        THEN PrepareSwitch(plan, current, PolicyPick(ready')) ELSE plan
    /\ tick' = NoTick
    /\ UNCHANGED <<boot, now, current, delayQ, state, wakeTick, jobs>>

\* PendSV, from acquire to complete.
Switch ==
    /\ ~tick.active
    /\ plan.pending
    /\ state' = [state EXCEPT ![plan.from] = IF @ = "RUNNING" THEN "READY" ELSE @,
                              ![plan.to] = "RUNNING"]
    /\ slice' = [slice EXCEPT ![plan.to] = TimeSlice]
    /\ current' = plan.to
    /\ plan' = ClearPlan(AcquirePlan(plan))
    /\ UNCHANGED <<boot, now, ready, delayQ, wakeTick, tick, jobs>>

Next ==
    \/ \E t \in App : Create(t) \/ Yield(t) \/ (\E j \in Jitter : Delay(t, j))
    \/ Start
    \/ TickEnter
    \/ TickWake
    \/ TickFinish
    \/ Switch

Spec == Init /\ [][Next]_vars
-----------------------------------------------------------------------------
Runnable == {t \in App : state[t] \in {"READY", "RUNNING"}}

\* The task that runs, or is about to.
Decided == IF plan.pending THEN plan.to ELSE current

\* The true time to the deadline of a job.
TimeLeft(t) == Relative[policy][t] - age[t]

\* The choice is the one the policy is named for, between ticks and however
\* often deadlines have wrapped, tasks been ranked again and slices rotated:
\* under EDF no runnable task has less true time to its deadline than the one
\* that runs, under RMS none has a shorter period, and the idle task runs only
\* when there is no other (rts_policy_pick_next).
MostUrgentRuns ==
    lifecycle = "RUNNING" /\ ~tick.active =>
        \A t \in Runnable :
            /\ Decided # Idle
            /\ policy = "EDF" => TimeLeft(Decided) <= TimeLeft(t)
            /\ policy = "RMS" => Period["RMS"][Decided] <= Period["RMS"][t]

\* Task sets that the theory calls feasible meet every deadline in this kernel:
\* a job whose deadline has come has computed all of its budget, whatever jobs
\* before it left unused, whoever yields and however tasks were created.
DeadlinesMet ==
    ~tick.active =>
        \A t \in Runnable : TimeLeft(t) <= 0 => work[t] = Budget[policy][t]

\* Application tasks in the order in which they wait.
Waiting == ready.edf \o FlattenSeq([p \in 1 .. MaxPrio |-> ready.fp[p]])

Peers(t, u) ==
    IF policy = "EDF" THEN deadline[t] = deadline[u]
    ELSE Period["RMS"][t] = Period["RMS"][u]

\* First come, first served among peers, tasks of equal deadline under EDF and
\* of equal period under RMS: only the current task, which yields or uses up
\* its slice, falls behind one of them, and ranking the tasks again when one is
\* created (rts_policy_rms_assign_priorities) does not reorder the others.
PeersKeepTheirTurn ==
    [][\A t, u \in Runnable :
          /\ t # current
          /\ Peers(t, u)
          /\ Precedes(Waiting, t, u)
          /\ {t, u} \subseteq Runnable'
          => Precedes(Waiting', t, u)]_vars
=============================================================================
