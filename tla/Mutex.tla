------------------------------- MODULE Mutex --------------------------------
(***************************************************************************)
(* Mutexes with priority inheritance (kernel/mutex.c and                   *)
(* kernel/priority_inheritance.c) and what they need of the scheduler.     *)
(*                                                                         *)
(* Priorities change here, so this is a scheduler of its own over the same *)
(* queues and switch plan as module Scheduler.  It starts after rts_start, *)
(* without time slicing and on a port whose PendSV masks interrupts: the   *)
(* switch is one step.  A task that has left a plan behind executes        *)
(* nothing but the request for PendSV; ticks may come first.               *)
(*                                                                         *)
(* The walk along the chain of owners (rts_priority_recompute_chain) takes *)
(* one step for each task it visits.  It belongs to a locked call or to    *)
(* the tick handler: while call is not NoCall no other step is possible.   *)
(***************************************************************************)
EXTENDS WaitObject, SwitchPlan

CONSTANTS
    Task,           \* the tasks, the idle task included
    Idle,           \* kernel->idle_task
    Base,           \* Base[t]: task->base_priority
    MaxPrio,        \* RTS_PRIORITY_COUNT - 1
    Mutexes,        \* the mutexes, initialised
    NoMutex,        \* NULL
    MaxOwned,       \* RTS_MAX_MUTEXES_PER_TASK
    Delays,         \* the delays that tasks ask for
    Timeouts,       \* the finite nonzero timeouts that tasks ask for
    Forever         \* RTS_WAIT_FOREVER

Priorities == 0 .. MaxPrio

ASSUME MutexAssumption ==
    /\ Idle \in Task /\ NoTask \notin Task
    /\ MaxPrio \in Nat
    /\ Base \in [Task -> Priorities]
    /\ \A t \in Task : Base[t] = 0 <=> t = Idle
    /\ NoMutex \notin Mutexes
    /\ MaxOwned \in Nat \ {0}
    /\ Delays \subseteq 1 .. MaxAdvance
    /\ Timeouts \subseteq 1 .. MaxAdvance
    /\ Forever \notin Timeouts

VARIABLES
    now,            \* kernel->current_tick
    current,        \* the current task
    plan,           \* kernel->switch_plan
    ready,          \* kernel->ready_set
    delayQ,         \* kernel->delay_queue
    state,          \* task->state
    priority,       \* task->priority, the effective one
    wakeTick,       \* task->wait.wake_tick
    wait,           \* the rest of task->wait
    owner,          \* mutex->owner
    waiters,        \* mutex->waiters
    call,           \* the locked call or tick handler in progress
    locking,        \* the mutex a task is inside rts_mutex_lock for
    holds           \* history: the mutexes a task was told it holds

schedVars == <<now, current, plan, ready, delayQ, state, priority, wakeTick, wait>>
mutexVars == <<owner, waiters>>
taskVars == <<locking, holds>>
vars == <<schedVars, mutexVars, call, taskVars>>

NoWait == [reason |-> "NONE", object |-> NoMutex, timed |-> FALSE, result |-> "NONE"]

\* op: what is in progress; chain: the next task of the walk; next: where a
\* second walk starts; visited: the walk so far; woke: woke_task.
NoCall == [op |-> "none", chain |-> NoTask, next |-> NoTask, visited |-> {}, woke |-> FALSE]

\* The tasks were created in some order; rts_start has adopted the first one of
\* the highest priority.
Init ==
    /\ now = 0
    /\ plan = NoPlan
    /\ \E order \in {o \in [1 .. Cardinality(Task) -> Task] : Distinct(o)} :
          ready = [p \in Priorities |-> SelectSeq(order, LAMBDA t : Base[t] = p)]
    /\ delayQ = << >>
    /\ current = PickNext(ready)
    /\ state = [t \in Task |-> IF t = current THEN "RUNNING" ELSE "READY"]
    /\ priority = Base
    /\ wakeTick = [t \in Task |-> 0]
    /\ wait = [t \in Task |-> NoWait]
    /\ owner = [m \in Mutexes |-> NoTask]
    /\ waiters = [m \in Mutexes |-> << >>]
    /\ call = NoCall
    /\ locking = [t \in Task |-> NoMutex]
    /\ holds = [t \in Task |-> {}]
-----------------------------------------------------------------------------
Owned(t) == {m \in Mutexes : owner[m] = t}

WaitsForMutex(t) == state[t] = "BLOCKED" /\ wait[t].reason = "MUTEX"

\* The task that t waits for, if any.
WaitsFor(t) == IF WaitsForMutex(t) THEN owner[wait[t].object] ELSE NoTask

\* Task t executes its own code and may call the kernel.
Calls(t) ==
    /\ t = current /\ t # Idle
    /\ call = NoCall
    /\ ~plan.pending
    /\ locking[t] = NoMutex

\* rts_mutex_current_can_block.
CanBlock(t) ==
    /\ state[t] = "RUNNING"
    /\ Queued(ready[priority[t]], t)
    /\ wait[t] = NoWait
    /\ ~Queued(delayQ, t)
    /\ \A m \in Mutexes : ~Queued(waiters[m], t)
    /\ ~plan.active

\* The owners from m on, each waiting for a mutex of the next.
OwnerChain(m) ==
    LET link[n \in Nat] ==
          IF n = 0 THEN owner[m]
          ELSE IF link[n - 1] = NoTask THEN NoTask
          ELSE WaitsFor(link[n - 1])
    IN  {link[n] : n \in 0 .. Cardinality(Task)}

\* Faulty variant: only the owner itself is compared.
WouldCycleDirect(t, m) == owner[m] = t

\* Faulty variant: the limit is noticed one mutex late.
MayOwnMoreLate(t) == Cardinality(Owned(t)) <= MaxOwned

\* owned_mutex_count is below RTS_MAX_MUTEXES_PER_TASK.
MayOwnMore(t) == Cardinality(Owned(t)) < MaxOwned

\* rts_mutex_would_cycle.
WouldCycle(t, m) == t \in OwnerChain(m)
-----------------------------------------------------------------------------
(***************************************************************************)
(* rts_mutex_lock.                                                         *)
(***************************************************************************)
\* The mutex is free.
LockFree(t, m) ==
    /\ Calls(t)
    /\ owner[m] = NoTask
    /\ MayOwnMore(t)
    /\ owner' = [owner EXCEPT ![m] = t]
    /\ holds' = [holds EXCEPT ![t] = @ \cup {m}]
    /\ UNCHANGED <<schedVars, waiters, call, locking>>

\* Another task has it: wait, for d ticks or for ever, and lend the owner the
\* priority of the waiter (the walk that follows).
LockBlock(t, m, d) ==
    /\ Calls(t)
    /\ owner[m] \notin {NoTask, t}
    /\ MayOwnMore(t)
    /\ ~WouldCycle(t, m)
    /\ CanBlock(t)
    /\ ready' = ReadyRemove(ready, priority[t], t)
    /\ wait' = [wait EXCEPT ![t] = [reason |-> "MUTEX", object |-> m,
                                    timed |-> d # Forever, result |-> "NONE"]]
    /\ wakeTick' = [wakeTick EXCEPT ![t] = IF d # Forever THEN TickAdd(now, d) ELSE 0]
    /\ state' = [state EXCEPT ![t] = "BLOCKED"]
    /\ waiters' = [waiters EXCEPT ![m] = WaitInsert(@, priority, t)]
    /\ delayQ' = IF d # Forever THEN DelayInsert(delayQ, wakeTick', t) ELSE delayQ
    /\ call' = [NoCall EXCEPT !.op = "call", !.chain = owner[m]]
    /\ locking' = [locking EXCEPT ![t] = m]
    /\ UNCHANGED <<now, current, plan, priority, owner, holds>>

\* Task t executes again after the wait; rts_mutex_wait_result_consume.
\* Without a result the call would return RTS_STATUS_OK all the same.
LockReturn(t) ==
    /\ t = current /\ call = NoCall /\ ~plan.pending
    /\ locking[t] # NoMutex
    /\ locking' = [locking EXCEPT ![t] = NoMutex]
    /\ holds' = IF wait[t].result = "TIMEOUT" THEN holds
                ELSE [holds EXCEPT ![t] = @ \cup {locking[t]}]
    /\ wait' = [wait EXCEPT ![t].result = "NONE"]
    /\ UNCHANGED <<now, current, plan, ready, delayQ, state, priority, wakeTick,
                   mutexVars, call>>
-----------------------------------------------------------------------------
(***************************************************************************)
(* rts_mutex_unlock.                                                       *)
(***************************************************************************)
\* A wait ends: the task leaves both queues and becomes ready.
EndWait(t, m, result) ==
    /\ waiters' = [waiters EXCEPT ![m] = Unlink(@, t)]
    /\ delayQ' = IF wait[t].timed THEN Unlink(delayQ, t) ELSE delayQ
    /\ wait' = [wait EXCEPT ![t] = [NoWait EXCEPT !.result = result]]
    /\ wakeTick' = [wakeTick EXCEPT ![t] = 0]
    /\ state' = [state EXCEPT ![t] = IF t = current THEN "RUNNING" ELSE "READY"]
    /\ ready' = ReadyInsert(ready, priority[t], t)

\* Nobody waits.
UnlockFree(t, m) ==
    /\ Calls(t)
    /\ owner[m] = t
    /\ waiters[m] = << >>
    /\ owner' = [owner EXCEPT ![m] = NoTask]
    /\ holds' = [holds EXCEPT ![t] = @ \ {m}]
    /\ call' = [NoCall EXCEPT !.op = "call", !.chain = t]
    /\ UNCHANGED <<schedVars, waiters, locking>>

\* Faulty variant: the mutex is released and the waiter only woken.
UnlockHandoffReleased(t, m) ==
    /\ Calls(t)
    /\ owner[m] = t
    /\ waiters[m] # << >>
    /\ EndWait(Head(waiters[m]), m, "ACQUIRED")
    /\ owner' = [owner EXCEPT ![m] = NoTask]
    /\ call' = [NoCall EXCEPT !.op = "call", !.chain = t]
    /\ holds' = [holds EXCEPT ![t] = @ \ {m}]
    /\ UNCHANGED <<now, current, plan, priority, locking>>

\* rts_mutex_handoff: the first waiter becomes the owner.
UnlockHandoff(t, m) ==
    /\ Calls(t)
    /\ owner[m] = t
    /\ waiters[m] # << >>
    /\ LET waiter == Head(waiters[m])
       IN  /\ EndWait(waiter, m, "ACQUIRED")
           /\ owner' = [owner EXCEPT ![m] = waiter]
           /\ call' = [NoCall EXCEPT !.op = "call", !.chain = t, !.next = waiter]
    /\ holds' = [holds EXCEPT ![t] = @ \ {m}]
    /\ UNCHANGED <<now, current, plan, priority, locking>>
-----------------------------------------------------------------------------
(***************************************************************************)
(* rts_priority_recompute_chain.                                           *)
(***************************************************************************)
\* Faulty variant: what other mutexes still require is forgotten when the
\* owner's priority drops.
RequiredByOne(t) ==
    LET contended == {o \in Owned(t) : waiters[o] # << >>}
    IN  IF Cardinality(contended) = 1
          THEN Max({Base[t]} \cup {priority[Head(waiters[m])] : m \in contended})
          ELSE Base[t]

\* rts_priority_required_by_owned: only the first waiter of each is looked at.
Required(t) ==
    Max({Base[t]} \cup {priority[Head(waiters[m])] :
                           m \in {o \in Owned(t) : waiters[o] # << >>}})

\* Faulty variant: the ready queue is left alone.
SetEffectiveNoRequeue(t, p) ==
    /\ priority' = [priority EXCEPT ![t] = p]
    /\ ready' = ready
    /\ waiters' = IF p # priority[t] /\ wait[t].reason = "MUTEX"
                    THEN [waiters EXCEPT ![wait[t].object] =
                             WaitInsert(Unlink(@, t), priority', t)]
                    ELSE waiters

\* Faulty variant: the place in the queue of waiters is left alone.
SetEffectiveNotReordered(t, p) ==
    /\ priority' = [priority EXCEPT ![t] = p]
    /\ ready' = IF p # priority[t] /\ Queued(ready[priority[t]], t)
                  THEN ReadyInsert(ReadyRemove(ready, priority[t], t), p, t)
                  ELSE ready
    /\ waiters' = waiters

\* rts_priority_set_effective: a task whose priority changes goes to the tail
\* of its new ready queue, and to its new place in the queue it waits in.
SetEffective(t, p) ==
    /\ priority' = [priority EXCEPT ![t] = p]
    /\ ready' = IF p # priority[t] /\ Queued(ready[priority[t]], t)
                  THEN ReadyInsert(ReadyRemove(ready, priority[t], t), p, t)
                  ELSE ready
    /\ waiters' = IF p # priority[t] /\ wait[t].reason = "MUTEX"
                    THEN [waiters EXCEPT ![wait[t].object] =
                             WaitInsert(Unlink(@, t), priority', t)]
                    ELSE waiters

\* Faulty variant: the walk ends at the first task.
ChainStepOnce ==
    /\ call.chain # NoTask
    /\ SetEffective(call.chain, Required(call.chain))
    /\ call' = [call EXCEPT !.chain = call.next, !.next = NoTask, !.visited = {}]
    /\ UNCHANGED <<now, current, plan, delayQ, state, wakeTick, wait, owner, taskVars>>

\* One task of the walk.
ChainStep ==
    /\ call.chain # NoTask
    /\ SetEffective(call.chain, Required(call.chain))
    /\ call' = IF WaitsForMutex(call.chain)
                 THEN [call EXCEPT !.chain = WaitsFor(call.chain),
                                   !.visited = @ \cup {call.chain}]
                 ELSE [call EXCEPT !.chain = call.next, !.next = NoTask, !.visited = {}]
    /\ UNCHANGED <<now, current, plan, delayQ, state, wakeTick, wait, owner, taskVars>>

\* The choice that ends a call of a task; rts_mutex_plan_final.
CallFinish ==
    /\ call.op = "call" /\ call.chain = NoTask
    /\ plan' = PrepareSwitch(plan, current, PickNext(ready))
    /\ call' = NoCall
    /\ UNCHANGED <<now, current, ready, delayQ, state, priority, wakeTick, wait,
                   mutexVars, taskVars>>
-----------------------------------------------------------------------------
(***************************************************************************)
(* What the rest of the kernel contributes.                                *)
(***************************************************************************)
\* rts_task_delay.
Delay(t, d) ==
    /\ Calls(t)
    /\ ready' = ReadyRemove(ready, priority[t], t)
    /\ wait' = [wait EXCEPT ![t].reason = "DELAY"]
    /\ wakeTick' = [wakeTick EXCEPT ![t] = TickAdd(now, d)]
    /\ state' = [state EXCEPT ![t] = "BLOCKED"]
    /\ delayQ' = DelayInsert(delayQ, wakeTick', t)
    /\ plan' = PrepareSwitch(plan, t, PickNext(ready'))
    /\ UNCHANGED <<now, current, priority, mutexVars, call, taskVars>>

\* SysTick arrives.
TickEnter ==
    /\ call = NoCall
    /\ now' = TickAdd(now, 1)
    /\ call' = [NoCall EXCEPT !.op = "tick"]
    /\ UNCHANGED <<current, plan, ready, delayQ, state, priority, wakeTick, wait,
                   mutexVars, taskVars>>

\* rts_tick_wake_task: the end of a delay.
TickWake ==
    /\ call.op = "tick" /\ call.chain = NoTask
    /\ HeadExpired(delayQ, wakeTick, now)
    /\ LET t == Head(delayQ)
       IN  /\ wait[t].reason = "DELAY"
           /\ delayQ' = Unlink(delayQ, t)
           /\ wait' = [wait EXCEPT ![t] = NoWait]
           /\ wakeTick' = [wakeTick EXCEPT ![t] = 0]
           /\ state' = [state EXCEPT ![t] = IF t = current THEN "RUNNING" ELSE "READY"]
           /\ ready' = ReadyInsert(ready, priority[t], t)
    /\ call' = [call EXCEPT !.woke = TRUE]
    /\ UNCHANGED <<now, current, plan, priority, mutexVars, taskVars>>

\* rts_mutex_timeout_task: the owner may lose what the waiter lent it.
TickTimeout ==
    /\ call.op = "tick" /\ call.chain = NoTask
    /\ HeadExpired(delayQ, wakeTick, now)
    /\ LET t == Head(delayQ)
       IN  /\ wait[t].reason = "MUTEX"
           /\ EndWait(t, wait[t].object, "TIMEOUT")
           /\ call' = [call EXCEPT !.woke = TRUE, !.chain = owner[wait[t].object]]
    /\ UNCHANGED <<now, current, plan, priority, owner, taskVars>>

\* The end of the tick handler.
TickFinish ==
    /\ call.op = "tick" /\ call.chain = NoTask
    /\ ~HeadExpired(delayQ, wakeTick, now)
    /\ plan' = IF call.woke THEN PrepareSwitch(plan, current, PickNext(ready)) ELSE plan
    /\ call' = NoCall
    /\ UNCHANGED <<now, current, ready, delayQ, state, priority, wakeTick, wait,
                   mutexVars, taskVars>>

\* PendSV, from acquire to complete.
Switch ==
    /\ call = NoCall
    /\ plan.pending
    /\ state' = [state EXCEPT ![plan.from] = IF @ = "RUNNING" THEN "READY" ELSE @,
                              ![plan.to] = "RUNNING"]
    /\ current' = plan.to
    /\ plan' = ClearPlan(AcquirePlan(plan))
    /\ UNCHANGED <<now, ready, delayQ, priority, wakeTick, wait, mutexVars, call,
                   taskVars>>

Next ==
    \/ \E t \in Task, m \in Mutexes :
          \/ LockFree(t, m)
          \/ \E d \in Timeouts \cup {Forever} : LockBlock(t, m, d)
          \/ UnlockFree(t, m)
          \/ UnlockHandoff(t, m)
    \/ \E t \in Task : LockReturn(t)
    \/ \E t \in Task, d \in Delays : Delay(t, d)
    \/ ChainStep
    \/ CallFinish
    \/ TickEnter
    \/ TickWake
    \/ TickTimeout
    \/ TickFinish
    \/ Switch

Spec == Init /\ [][Next]_vars
-----------------------------------------------------------------------------
(***************************************************************************)
(* Safety.                                                                 *)
(***************************************************************************)
\* The type invariant.
TypeOK ==
    /\ now \in Ticks
    /\ current \in Task
    /\ plan \in Plans(Task)
    /\ ready \in [Priorities -> Seq(Task)]
    /\ delayQ \in Seq(Task)
    /\ state \in [Task -> {"READY", "RUNNING", "BLOCKED"}]
    /\ priority \in [Task -> Priorities]
    /\ wakeTick \in [Task -> Ticks]
    /\ wait \in [Task -> [reason : {"NONE", "DELAY", "MUTEX"},
                          object : Mutexes \cup {NoMutex}, timed : BOOLEAN,
                          result : {"NONE", "ACQUIRED", "TIMEOUT"}]]
    /\ owner \in [Mutexes -> Task \cup {NoTask}]
    /\ waiters \in [Mutexes -> Seq(Task)]
    /\ call \in [op : {"none", "call", "tick"}, chain : Task \cup {NoTask},
                 next : Task \cup {NoTask}, visited : SUBSET Task, woke : BOOLEAN]
    /\ locking \in [Task -> Mutexes \cup {NoMutex}]
    /\ holds \in [Task -> SUBSET Mutexes]

\* Every queue a task is linked into agrees with its state, its wait metadata
\* and its effective priority, also in the middle of a walk: a task whose
\* priority changes is never left in the ready queue of its old priority.
QueueMembership ==
    /\ TypeOK
    /\ \A t \in Task :
          /\ state[t] = "BLOCKED" <=> wait[t].reason # "NONE"
          /\ \A p \in Priorities :
                Queued(ready[p], t) <=> state[t] # "BLOCKED" /\ p = priority[t]
          /\ \A m \in Mutexes :
                Queued(waiters[m], t) <=> wait[t].reason = "MUTEX" /\ wait[t].object = m
          /\ Queued(delayQ, t) <=> wait[t].reason = "DELAY" \/ wait[t].timed
          /\ wait[t].reason = "MUTEX" => owner[wait[t].object] # NoTask

\* No task ever owns more than RTS_MAX_MUTEXES_PER_TASK mutexes, although the
\* limit is tested when a lock is asked for and the mutex may be handed over
\* much later: the one a task waits for is already counted.
OwnershipIsBounded ==
    \A t \in Task :
        LET awaited == {m \in Mutexes : Queued(waiters[m], t)}
        IN  Cardinality(Owned(t) \cup awaited) <= MaxOwned

\* The effective priority of a task is the greatest of its base priority and
\* the effective priorities of all the tasks that wait for a mutex it owns,
\* however long the chain, whoever times out or is handed a mutex.
InheritanceExact ==
    call = NoCall =>
        \A t \in Task :
            priority[t] = Max({Base[t]} \cup
                {priority[u] : u \in {w \in Task : WaitsFor(w) = t}})

\* The walk never meets a task twice (RTS_FATAL_UNLESS in
\* rts_priority_recompute_chain): no cycle of waiting tasks ever forms.
WalkIsAcyclic == call.chain \notin call.visited

\* Priority inversion is bounded: while a task waits for a mutex whose last
\* owner in the chain is able to run, no task below its base priority is
\* running or about to run.
InversionIsBounded ==
    LET decided == IF plan.pending THEN plan.to ELSE current
    IN  call = NoCall =>
            \A m \in Mutexes : \A t \in Task :
                /\ WaitsForMutex(t) /\ wait[t].object = m
                /\ \E u \in OwnerChain(m) \ {NoTask} : state[u] # "BLOCKED"
                => priority[decided] >= Base[t]

\* Mutual exclusion as the tasks see it: what rts_mutex_lock has returned to
\* its callers and rts_mutex_unlock not taken back never conflicts, and the
\* kernel agrees, although a mutex changes hands before its new owner runs.
MutualExclusion ==
    /\ \A t, u \in Task : t # u => holds[t] \cap holds[u] = {}
    /\ \A t \in Task : holds[t] =
          Owned(t) \ IF wait[t].result = "ACQUIRED" THEN {locking[t]} ELSE {}

\* A mutex is handed to a waiter of the greatest effective priority, also when
\* the priority of a waiter has risen or dropped since it began to wait.
HandedToMostUrgent ==
    [][\A m \in Mutexes :
          owner[m] # NoTask /\ owner'[m] # owner[m] /\ waiters[m] # << >> =>
              /\ Queued(waiters[m], owner'[m])
              /\ \A t \in Task : Queued(waiters[m], t) => priority[t] <= priority[owner'[m]]]_vars
=============================================================================
