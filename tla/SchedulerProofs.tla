-------------------------- MODULE SchedulerProofs ---------------------------
(***************************************************************************)
(* Proofs about Scheduler, for every set of tasks, priority assignment,    *)
(* clock range, quantum and port.                                          *)
(***************************************************************************)
EXTENDS Scheduler, KernelQueuesProofs

\* The signed and the positive range of one advance of the clock.
LEMMA PositiveAdvance ==
    \A x : x \in 1 .. MaxAdvance <=> x \in (-MaxAdvance) .. MaxAdvance /\ x >= 1
BY HalfAssumption DEF MaxAdvance

\* r holds exactly the tasks of S, each once, in the queue of its priority.
IsReadySet(r, S) ==
    /\ r \in [Priorities -> Seq(Task)]
    /\ S \subseteq Task
    /\ \A p \in Priorities : Distinct(r[p])
    /\ \A p \in Priorities, t \in Task :
          Queued(r[p], t) <=> t \in S /\ p = Prio[t]

\* rts_ready_insert adds an unlinked task.
LEMMA ReadyInsertSet ==
    ASSUME NEW r, NEW S, IsReadySet(r, S), NEW t \in Task, t \notin S
    PROVE  IsReadySet(ReadyInsert(r, Prio[t], t), S \cup {t})
<1> DEFINE q == r[Prio[t]]
           s == Append(q, t)
<1>. Prio[t] \in Priorities
  BY SchedulerAssumption
<1>1. q \in Seq(Task) /\ Distinct(q) /\ ~Queued(q, t)
  BY DEF IsReadySet
<1>2. /\ s \in Seq(Task)
      /\ \A u : Queued(s, u) <=> Queued(q, u) \/ u = t
      /\ Distinct(s)
  BY <1>1, AppendQueue
<1>3. ReadyInsert(r, Prio[t], t) = [r EXCEPT ![Prio[t]] = s]
  BY DEF ReadyInsert
<1> HIDE DEF s
<1>. QED
  BY <1>2, <1>3 DEF IsReadySet

\* rts_ready_remove removes a linked task.
LEMMA ReadyRemoveSet ==
    ASSUME NEW r, NEW S, IsReadySet(r, S), NEW t \in S
    PROVE  IsReadySet(ReadyRemove(r, Prio[t], t), S \ {t})
<1> DEFINE q == r[Prio[t]]
           s == Unlink(q, t)
<1>. Prio[t] \in Priorities /\ t \in Task
  BY SchedulerAssumption DEF IsReadySet
<1>1. q \in Seq(Task) /\ Distinct(q) /\ Queued(q, t)
  BY DEF IsReadySet
<1>2. /\ s \in Seq(Task)
      /\ \A u : Queued(s, u) <=> Queued(q, u) /\ u # t
      /\ Distinct(s)
  BY <1>1, UnlinkQueue
<1>3. ReadyRemove(r, Prio[t], t) = [r EXCEPT ![Prio[t]] = s]
  BY DEF ReadyRemove
<1> HIDE DEF s
<1>. QED
  BY <1>2, <1>3 DEF IsReadySet

\* rts_ready_rotate keeps the members of a nonempty queue.
LEMMA ReadyRotateSet ==
    ASSUME NEW r, NEW S, IsReadySet(r, S), NEW p \in Priorities, r[p] # << >>
    PROVE  IsReadySet(ReadyRotate(r, p), S)
<1> DEFINE q == r[p]
           s == Append(Tail(q), Head(q))
<1>1. q \in Seq(Task) /\ Distinct(q) /\ q # << >>
  BY DEF IsReadySet
<1>2. /\ s \in Seq(Task)
      /\ \A u : Queued(s, u) <=> Queued(q, u)
      /\ Distinct(s)
  BY <1>1, RotateQueue
<1>3. ReadyRotate(r, p) = [r EXCEPT ![p] = s]
  BY DEF ReadyRotate
<1> HIDE DEF s
<1>. QED
  BY <1>2, <1>3 DEF IsReadySet

\* rts_ready_peek_highest returns a member of the greatest priority.
LEMMA PickNextIsHighest ==
    ASSUME NEW r, NEW S, IsReadySet(r, S), S # {}
    PROVE  PickNext(r) \in S /\ \A u \in S : Prio[u] <= Prio[PickNext(r)]
<1> DEFINE B == {p \in Priorities : r[p] # << >>}
           h == Highest(r)
<1>1. \A u \in S : Prio[u] \in B
  <2> SUFFICES ASSUME NEW u \in S PROVE r[Prio[u]] # << >>
    BY SchedulerAssumption DEF IsReadySet
  <2>1. Queued(r[Prio[u]], u)
    BY SchedulerAssumption DEF IsReadySet
  <2>. QED
    BY <2>1 DEF Queued
<1>2. h = Max(B)
  BY DEF Highest, IsReadySet
<1>3. B \in SUBSET (0 .. MaxPrio) /\ B # {} /\ MaxPrio \in Nat
  BY <1>1, SchedulerAssumption DEF Priorities
<1> HIDE DEF B, h
<1>4. h \in B /\ \A p \in B : p <= h
  BY <1>2, <1>3, MaxProperties
<1>5. h \in Priorities /\ r[h] \in Seq(Task) /\ r[h] # << >>
  BY <1>4 DEF B, IsReadySet
<1>6. PickNext(r) = r[h][1] /\ Queued(r[h], PickNext(r)) /\ PickNext(r) \in Task
  <2>1. PickNext(r) = Head(r[h])
    BY DEF PickNext, h
  <2>2. 1 \in 1 .. Len(r[h]) /\ Head(r[h]) = r[h][1] /\ r[h][1] \in Task
    BY <1>5
  <2>. QED
    BY <2>1, <2>2 DEF Queued
<1>7. PickNext(r) \in S /\ Prio[PickNext(r)] = h
  BY <1>5, <1>6 DEF IsReadySet
<1>. QED
  BY <1>1, <1>4, <1>7
-----------------------------------------------------------------------------
\* The ready set holds the runnable tasks, and the one it returns is one of
\* them, of the greatest priority.
LEMMA ReadyHoldsRunnable ==
    ASSUME TypeOK, QueueMembership, state[Idle] \in {"READY", "RUNNING"}
    PROVE  /\ IsReadySet(ready, Runnable)
           /\ PickNext(ready) \in Runnable
           /\ \A u \in Runnable : Prio[u] <= Prio[PickNext(ready)]
<1>1. IsReadySet(ready, Runnable)
  BY DEF TypeOK, QueueMembership, IsReadySet, Runnable
<1>2. Idle \in Runnable
  BY SchedulerAssumption DEF Runnable
<1>. QED
  BY <1>1, <1>2, PickNextIsHighest

\* Every member of the delay queue is a blocked task.
LEMMA DelayedAreBlocked ==
    ASSUME TypeOK, QueueMembership, NEW i \in 1 .. Len(delayQ)
    PROVE  delayQ[i] \in Task /\ state[delayQ[i]] = "BLOCKED"
<1>1. delayQ[i] \in Task
  <2>1. delayQ \in Seq(Task)
    BY DEF TypeOK
  <2>. QED
    BY <2>1
<1>2. Queued(delayQ, delayQ[i])
  BY Zenon DEF Queued
<1>. QED
  BY <1>1, <1>2, Zenon DEF QueueMembership

\* Init establishes the invariant: rts_init leaves only the idle task ready.
LEMMA InitInv == Init => IndInv
<1> SUFFICES ASSUME Init PROVE IndInv
  OBVIOUS
<1>. USE SchedulerAssumption, HalfAssumption
<1>1. TypeOK
  <2>1. ready \in [Priorities -> Seq(Task)]
    BY DEF Init, InitWith
  <2>2. plan \in Plans(Task)
    BY DEF Init, InitWith, NoPlan, Plans
  <2>3. tick \in [phase : {"none", "wake", "return"}, elapsed : 0 .. MaxAdvance,
                  woke : BOOLEAN, currentWoke : BOOLEAN, notify : BOOLEAN]
    BY DEF Init, InitWith, NoTick, MaxAdvance
  <2>4. state \in [Task -> States] /\ delayQ \in Seq(Task)
    BY DEF Init, InitWith, States
  <2>5. wakeTick \in [Task -> Ticks]
    BY DEF Init, InitWith, Ticks, Modulus
  <2>6. slice \in [Task -> 0 .. TimeSlice]
    BY DEF Init, InitWith
  <2>7. /\ lifecycle \in {"INITIALIZED", "RUNNING"}
        /\ current \in Task \cup {NoTask}
        /\ pendsv \in BOOLEAN
    BY DEF Init, InitWith
  <2>9. now \in Ticks
    BY DEF Init, InitWith, Ticks, Modulus
  <2>8. owes \in [Task -> BOOLEAN] /\ left \in [Task -> Int]
    BY DEF Init, InitWith
  <2>. QED
    BY <2>1, <2>2, <2>3, <2>4, <2>5, <2>6, <2>7, <2>8, <2>9 DEF TypeOK
<1>2. QueueMembership
  BY DEF Init, InitWith, QueueMembership, Queued, Distinct, Priorities
<1>3. CurrentCoherent /\ DecisionFresh
  BY DEF Init, InitWith, CurrentCoherent, DecisionFresh
<1>4. PlanCoherent /\ NoLostReschedule
  BY DEF Init, InitWith, PlanCoherent, NoLostReschedule, NoPlan
<1>5. TickCoherent
  BY DEF Init, InitWith, TickCoherent, NoTick
<1>6. DelayClock /\ DelayQueueOrdered
  BY DEF Init, InitWith, DelayClock, DelayQueueOrdered, OrderedBy
<1>7. BootCoherent
  BY DEF Init, InitWith, BootCoherent
<1>. QED
  BY <1>1, <1>2, <1>3, <1>4, <1>5, <1>6, <1>7 DEF IndInv

\* rts_task_create.
LEMMA CreateStep ==
    ASSUME IndInv, NEW t \in Task, Create(t)
    PROVE  IndInv'
<1>. USE SchedulerAssumption, HalfAssumption
<1>. TypeOK /\ QueueMembership /\ BootCoherent
  BY DEF IndInv
<1>1. IsReadySet(ready', Runnable')
  <2>1. IsReadySet(ready, Runnable) /\ t \notin Runnable
    BY ReadyHoldsRunnable DEF Create, BootCoherent, Runnable
  <2>2. Runnable' = Runnable \cup {t}
    BY DEF Create, Runnable, TypeOK
  <2>. QED
    BY <2>1, <2>2, ReadyInsertSet DEF Create
<1>2. TypeOK'
  BY <1>1 DEF Create, TypeOK, IsReadySet, States
<1>3. QueueMembership'
  <2>1. \A p \in Priorities, u \in Task :
          Queued(ready'[p], u) <=> state'[u] \in {"READY", "RUNNING"} /\ p = Prio[u]
    BY <1>1 DEF IsReadySet, Runnable
  <2>2. \A u \in Task : Queued(delayQ', u) <=> state'[u] = "BLOCKED"
    BY DEF Create, QueueMembership, TypeOK
  <2>3. Distinct(delayQ') /\ \A p \in Priorities : Distinct(ready'[p])
    BY <1>1 DEF Create, QueueMembership, IsReadySet
  <2>. QED
    BY <2>1, <2>2, <2>3 DEF QueueMembership
<1>4. (CurrentCoherent /\ DecisionFresh)'
  BY DEF Create, CurrentCoherent, DecisionFresh
<1>5. (PlanCoherent /\ NoLostReschedule)'
  BY DEF Create, IndInv, PlanCoherent, NoLostReschedule, BootCoherent, NoPlan
<1>6. TickCoherent'
  BY DEF Create, IndInv, TickCoherent
<1>7. (DelayClock /\ DelayQueueOrdered)'
  BY DEF Create, IndInv, DelayClock, DelayQueueOrdered, TypeOK
<1>8. BootCoherent'
  BY DEF Create, BootCoherent, TypeOK
<1>. QED
  BY <1>2, <1>3, <1>4, <1>5, <1>6, <1>7, <1>8 DEF IndInv

\* rts_start.
LEMMA StartStep ==
    ASSUME IndInv, Start
    PROVE  IndInv'
<1>. USE SchedulerAssumption, HalfAssumption
<1>. TypeOK /\ QueueMembership /\ BootCoherent
  BY DEF IndInv
<1> DEFINE n == PickNext(ready)
<1>1. /\ n \in Task
      /\ state[n] = "READY"
      /\ state' = [state EXCEPT ![n] = "RUNNING"]
      /\ current' = n
  BY ReadyHoldsRunnable DEF Start, Runnable, BootCoherent
<1>2. TypeOK'
  BY <1>1 DEF Start, TypeOK, States
<1>3. QueueMembership'
  BY <1>1 DEF Start, QueueMembership, TypeOK
<1>4. CurrentCoherent'
  BY <1>1 DEF Start, CurrentCoherent, BootCoherent, TypeOK
<1>5. (DecisionFresh /\ PlanCoherent /\ NoLostReschedule)'
  BY <1>1 DEF Start, DecisionFresh, PlanCoherent, NoLostReschedule, BootCoherent,
              NoPlan
<1>6. TickCoherent'
  BY DEF Start, IndInv, TickCoherent
<1>7. (DelayClock /\ DelayQueueOrdered)'
  BY <1>1 DEF Start, IndInv, DelayClock, DelayQueueOrdered, TypeOK
<1>8. BootCoherent'
  BY <1>1 DEF Start, BootCoherent, TypeOK
<1>. QED
  BY <1>2, <1>3, <1>4, <1>5, <1>6, <1>7, <1>8 DEF IndInv

\* The PendSV request after an unlock.
LEMMA RequestStep ==
    ASSUME IndInv, NEW t \in Task, Request(t)
    PROVE  IndInv'
<1>1. TypeOK'
  BY DEF Request, taskVars, IndInv, TypeOK
<1>2. (QueueMembership /\ CurrentCoherent /\ PlanCoherent)'
  BY DEF Request, taskVars, IndInv, QueueMembership, CurrentCoherent, PlanCoherent
<1>3. (DecisionFresh /\ NoLostReschedule /\ TickCoherent)'
  BY DEF Request, taskVars, IndInv, DecisionFresh, NoLostReschedule, TickCoherent
<1>4. (DelayClock /\ DelayQueueOrdered /\ BootCoherent)'
  BY DEF Request, taskVars, IndInv, DelayClock, DelayQueueOrdered, BootCoherent
<1>. QED
  BY <1>1, <1>2, <1>3, <1>4 DEF IndInv

\* SysTick returns and pends PendSV if it was told to.
LEMMA TickReturnStep ==
    ASSUME IndInv, TickReturn
    PROVE  IndInv'
<1>1. TypeOK'
  BY HalfAssumption
     DEF TickReturn, taskVars, IndInv, TypeOK, NoTick, MaxAdvance
<1>2. (QueueMembership /\ CurrentCoherent /\ PlanCoherent)'
  BY DEF TickReturn, taskVars, IndInv, QueueMembership, CurrentCoherent,
         PlanCoherent
<1>3. (DecisionFresh /\ NoLostReschedule /\ TickCoherent)'
  BY Zenon DEF TickReturn, taskVars, IndInv, DecisionFresh, NoLostReschedule,
         TickCoherent, NoTick
<1>4. (DelayClock /\ DelayQueueOrdered /\ BootCoherent)'
  BY DEF TickReturn, taskVars, IndInv, DelayClock, DelayQueueOrdered,
         BootCoherent, NoTick
<1>. QED
  BY <1>1, <1>2, <1>3, <1>4 DEF IndInv

\* PendSV finds no plan.
LEMMA SwitchNoPlanStep ==
    ASSUME IndInv, SwitchNoPlan
    PROVE  IndInv'
<1>1. TypeOK'
  BY Zenon DEF SwitchNoPlan, taskVars, IndInv, TypeOK
<1>2. (QueueMembership /\ CurrentCoherent /\ PlanCoherent)'
  BY DEF SwitchNoPlan, taskVars, IndInv, QueueMembership, CurrentCoherent,
         PlanCoherent
<1>3. (DecisionFresh /\ NoLostReschedule /\ TickCoherent)'
  BY DEF SwitchNoPlan, taskVars, IndInv, DecisionFresh, NoLostReschedule,
         TickCoherent
<1>4. (DelayClock /\ DelayQueueOrdered /\ BootCoherent)'
  BY DEF SwitchNoPlan, taskVars, IndInv, DelayClock, DelayQueueOrdered,
         BootCoherent
<1>. QED
  BY <1>1, <1>2, <1>3, <1>4 DEF IndInv

\* PendSV acquires the plan.
LEMMA SwitchAcquireStep ==
    ASSUME IndInv, SwitchAcquire
    PROVE  IndInv'
<1>. TypeOK /\ PlanCoherent
  BY DEF IndInv
<1>1. /\ plan' = [plan EXCEPT !.pending = FALSE, !.active = TRUE]
      /\ plan \in Plans(Task)
      /\ lifecycle = "RUNNING"
  BY DEF SwitchAcquire, AcquirePlan, PendSVRuns, TypeOK
<1>2. /\ plan'.active /\ ~plan'.pending
      /\ plan'.from = plan.from /\ plan'.to = plan.to
      /\ plan' \in Plans(Task)
  BY <1>1, Zenon DEF Plans
<1>3. TypeOK'
  BY <1>2, Zenon DEF SwitchAcquire, taskVars, TypeOK
<1>4. (QueueMembership /\ CurrentCoherent /\ PlanCoherent)'
  BY <1>2 DEF SwitchAcquire, taskVars, IndInv, QueueMembership, CurrentCoherent,
              PlanCoherent
<1>5. (DecisionFresh /\ NoLostReschedule /\ TickCoherent)'
  BY <1>2 DEF SwitchAcquire, taskVars, IndInv, DecisionFresh, NoLostReschedule,
              TickCoherent
<1>6. (DelayClock /\ DelayQueueOrdered /\ BootCoherent)'
  BY <1>1 DEF SwitchAcquire, taskVars, IndInv, DelayClock, DelayQueueOrdered,
              BootCoherent
<1>. QED
  BY <1>3, <1>4, <1>5, <1>6 DEF IndInv
-----------------------------------------------------------------------------
\* r is what rts_scheduler_prepare_switch may make of plan p, by case.
Prepared(p, cur, next, r) ==
    /\ r \in Plans(Task)
    /\ p.active => /\ r.active /\ r.reselect
                   /\ r.pending = p.pending
                   /\ r.from = p.from /\ r.to = p.to
    /\ ~p.active /\ next = cur => ~r.pending /\ ~r.active
    /\ ~p.active /\ next = cur /\ (p.pending \/ <<p.from, p.to>> = <<NoTask, NoTask>>)
          => r = NoPlan
    /\ ~p.active /\ next # cur => /\ r.pending /\ ~r.active
                                  /\ r.to = next
                                  /\ r.from = IF p.pending THEN p.from ELSE cur

\* rts_scheduler_prepare_switch never changes an active switch, drops the plan
\* when the current task is chosen and otherwise leads from it to the choice.
LEMMA PrepareSwitchCases ==
    ASSUME NEW p \in Plans(Task), NEW cur \in Task, NEW next \in Task
    PROVE  Prepared(p, cur, next, PrepareSwitch(p, cur, next))
<1> DEFINE r == PrepareSwitch(p, cur, next)
<1>1. CASE p.active
  <2>1. r = [p EXCEPT !.reselect = TRUE]
    BY <1>1 DEF PrepareSwitch
  <2>. QED
    BY <2>1, <1>1, Zenon DEF Plans, Prepared
<1>2. CASE ~p.active /\ next = cur /\ p.pending
  <2>1. r = NoPlan
    BY <1>2 DEF PrepareSwitch
  <2>. QED
    BY <2>1, <1>2 DEF Plans, NoPlan, Prepared
<1>3. CASE ~p.active /\ next = cur /\ ~p.pending
  <2>1. r = [p EXCEPT !.reselect = FALSE]
    BY <1>3 DEF PrepareSwitch
  <2>2. r \in Plans(Task) /\ ~r.pending /\ ~r.active
    BY <2>1, <1>3, Zenon DEF Plans
  <2>3. r.from = p.from /\ r.to = p.to /\ ~r.reselect
    BY <2>1 DEF Plans
  <2> HIDE DEF r
  <2>4. p.from = NoTask /\ p.to = NoTask => r = NoPlan
    BY <2>2, <2>3 DEF Plans, NoPlan
  <2>. QED
    BY <2>2, <2>4, <1>3 DEF Prepared, r
<1>4. CASE ~p.active /\ next # cur
  <2>1. r = [from |-> IF p.pending THEN p.from ELSE cur, to |-> next,
             pending |-> TRUE, active |-> FALSE, reselect |-> FALSE]
    BY <1>4 DEF PrepareSwitch
  <2>. QED
    BY <2>1, <1>4 DEF Plans, Prepared
<1>. QED
  BY <1>1, <1>2, <1>3, <1>4

\* SysTick enters: time moves on for every delayed task.
LEMMA TickEnterStep ==
    ASSUME IndInv, NEW e \in Elapsed, TickEnter(e)
    PROVE  IndInv'
<1>. USE SchedulerAssumption, HalfAssumption
<1>. TypeOK /\ DelayClock /\ DelayQueueOrdered /\ QueueMembership
  BY DEF IndInv
<1>. e \in 1 .. MaxAdvance /\ e \in (-MaxAdvance) .. MaxAdvance
  BY DEF MaxAdvance
<1>1. now' = TickAdd(now, e) /\ now' \in Ticks
  BY TickAddCases DEF TickEnter, TypeOK
<1>2. tick' = [phase |-> "wake", elapsed |-> e, woke |-> FALSE,
               currentWoke |-> FALSE, notify |-> FALSE]
  BY Zenon DEF TickEnter, NoTick
<1>3. left' = [t \in Task |-> IF Queued(delayQ, t) THEN left[t] - e ELSE left[t]]
  BY DEF TickEnter
<1>. /\ tick'.phase = "wake" /\ tick'.elapsed = e
     /\ ~tick'.woke /\ ~tick'.currentWoke /\ ~tick'.notify
  BY <1>2
<1>4. TypeOK'
  <2>1. left' \in [Task -> Int]
    BY <1>3 DEF TypeOK
  <2>2. tick' \in [phase : {"none", "wake", "return"}, elapsed : 0 .. MaxAdvance,
                   woke : BOOLEAN, currentWoke : BOOLEAN, notify : BOOLEAN]
    BY <1>2 DEF MaxAdvance
  <2>. QED
    BY <2>1, <2>2, <1>1 DEF TickEnter, TypeOK
<1>5. (QueueMembership /\ CurrentCoherent /\ PlanCoherent)'
  BY DEF TickEnter, IndInv, QueueMembership, CurrentCoherent, PlanCoherent
<1>6. (DecisionFresh /\ NoLostReschedule /\ TickCoherent)'
  <2>1. DecisionFresh'
    BY DEF TickEnter, IndInv, DecisionFresh
  <2>2. NoLostReschedule'
    BY DEF TickEnter, IndInv, NoLostReschedule, TickCoherent
  <2>3. TickCoherent'
    BY DEF TickEnter, TickCoherent
  <2>. QED
    BY <2>1, <2>2, <2>3
<1>7. DelayClock'
  <2> SUFFICES ASSUME NEW t \in Task, state[t] = "BLOCKED"
               PROVE  /\ left'[t] \in (-MaxAdvance) .. MaxAdvance
                      /\ wakeTick[t] = TickAdd(now', left'[t])
    BY <1>2 DEF TickEnter, DelayClock
  <2>1. left[t] \in 1 .. MaxAdvance /\ wakeTick[t] = TickAdd(now, left[t])
    BY DEF DelayClock, TickEnter, MaxAdvance
  <2>2. left'[t] = left[t] - e
    BY <1>3 DEF QueueMembership
  <2>3. TickAdd(TickAdd(now, e), left[t] - e) = TickAdd(now, left[t])
    BY <2>1, TickAddShift DEF TypeOK
  <2>. QED
    BY <2>1, <2>2, <2>3, <1>1 DEF MaxAdvance
<1>8. DelayQueueOrdered'
  <2>1. \A i \in 1 .. Len(delayQ) : delayQ[i] \in Task /\ Queued(delayQ, delayQ[i])
    BY DelayedAreBlocked, Zenon DEF Queued
  <2>2. \A i \in 1 .. Len(delayQ) : left'[delayQ[i]] = left[delayQ[i]] - e
    BY <2>1, <1>3
  <2>3. \A i \in 1 .. Len(delayQ) : left[delayQ[i]] \in Int
    BY <2>1 DEF TypeOK
  <2>4. \A x, y \in Int : x <= y => x - e <= y - e
    OBVIOUS
  <2>5. ASSUME NEW i \in 1 .. Len(delayQ), NEW j \in 1 .. Len(delayQ), i < j
        PROVE  left'[delayQ[i]] <= left'[delayQ[j]]
    <3>1. left[delayQ[i]] <= left[delayQ[j]]
      BY <2>5, Zenon DEF DelayQueueOrdered, OrderedBy
    <3>2. left[delayQ[i]] - e <= left[delayQ[j]] - e
      BY <3>1, <2>3, <2>4, Zenon
    <3>. QED
      BY <3>2, <2>2, Zenon
  <2>6. delayQ' = delayQ
    BY DEF TickEnter
  <2>. QED
    BY <2>5, <2>6, Zenon DEF DelayQueueOrdered, OrderedBy
<1>9. BootCoherent'
  BY DEF TickEnter, IndInv, BootCoherent
<1>. QED
  BY <1>4, <1>5, <1>6, <1>7, <1>8, <1>9 DEF IndInv

\* One iteration of the expiry loop.
LEMMA TickWakeStep ==
    ASSUME IndInv, TickWake
    PROVE  IndInv'
<1>. USE SchedulerAssumption, HalfAssumption
<1>. TypeOK /\ QueueMembership /\ BootCoherent /\ DelayClock
  BY DEF IndInv
<1> DEFINE t == Head(delayQ)
<1>1. /\ t \in Task
      /\ Queued(delayQ, t)
      /\ state[t] = "BLOCKED"
      /\ delayQ \in Seq(Task)
      /\ Distinct(delayQ)
  <2>1. delayQ \in Seq(Task) /\ delayQ # << >>
    BY DEF TickWake, HeadExpired, TypeOK
  <2>2. t = delayQ[1] /\ 1 \in 1 .. Len(delayQ) /\ t \in Task
    BY <2>1
  <2>. QED
    BY <2>1, <2>2 DEF Queued, QueueMembership
<1>2. /\ state' = [state EXCEPT ![t] = IF t = current THEN "RUNNING" ELSE "READY"]
      /\ left' = [left EXCEPT ![t] = 0]
      /\ ready' = ReadyInsert(ready, Prio[t], t)
      /\ delayQ' = Unlink(delayQ, t)
      /\ tick' = [tick EXCEPT !.woke = TRUE,
                              !.currentWoke = @ \/ t = current]
      /\ wakeTick' = [wakeTick EXCEPT ![t] = 0]
      /\ slice' = [slice EXCEPT ![t] = TimeSlice]
      /\ tick.phase = "wake"
      /\ UNCHANGED <<lifecycle, now, current, plan, pendsv, owes>>
  BY DEF TickWake, WokenState
<1> HIDE DEF t
<1>3. IsReadySet(ready', Runnable')
  <2>1. IsReadySet(ready, Runnable) /\ t \notin Runnable
    BY <1>1, ReadyHoldsRunnable DEF BootCoherent, Runnable
  <2>2. Runnable' = Runnable \cup {t}
    BY <1>1, <1>2 DEF Runnable, TypeOK
  <2>. QED
    BY <2>1, <2>2, <1>1, <1>2, ReadyInsertSet
<1>4. /\ delayQ' \in Seq(Task)
      /\ \A u : Queued(delayQ', u) <=> Queued(delayQ, u) /\ u # t
      /\ Distinct(delayQ')
  BY <1>1, <1>2, UnlinkQueue
<1>5. /\ tick'.phase = "wake" /\ tick'.woke
      /\ tick'.elapsed = tick.elapsed /\ tick'.notify = tick.notify
      /\ tick' \in [phase : {"none", "wake", "return"}, elapsed : 0 .. MaxAdvance,
                    woke : BOOLEAN, currentWoke : BOOLEAN, notify : BOOLEAN]
  BY <1>2, Zenon DEF TypeOK
<1>6. TypeOK'
  <2>1. ready' \in [Priorities -> Seq(Task)]
    BY <1>3 DEF IsReadySet
  <2>2. state' \in [Task -> States]
    BY <1>1, <1>2 DEF TypeOK, States
  <2>3. 0 \in Ticks /\ TimeSlice \in 0 .. TimeSlice
    BY DEF Ticks, Modulus
  <2>4. wakeTick' \in [Task -> Ticks]
    BY <2>3, <1>2, Zenon DEF TypeOK
  <2>5. slice' \in [Task -> 0 .. TimeSlice]
    BY <2>3, <1>2, Zenon DEF TypeOK
  <2>6. left' \in [Task -> Int]
    <3>1. left' = [left EXCEPT ![t] = 0] /\ left \in [Task -> Int]
      BY <1>2 DEF TypeOK
    <3>2. 0 \in Int
      OBVIOUS
    <3>. QED
      BY <3>1, <3>2, Zenon
  <2>. QED
    BY <2>1, <2>2, <2>4, <2>5, <2>6, <1>4, <1>5, Zenon DEF TickWake, TypeOK
<1>7. QueueMembership'
  <2>1. \A p \in Priorities, u \in Task :
          Queued(ready'[p], u) <=> state'[u] \in {"READY", "RUNNING"} /\ p = Prio[u]
    BY <1>3 DEF IsReadySet, Runnable
  <2>2. \A u \in Task : Queued(delayQ', u) <=> state'[u] = "BLOCKED"
    BY <1>1, <1>2, <1>4 DEF QueueMembership, TypeOK
  <2>3. Distinct(delayQ') /\ \A p \in Priorities : Distinct(ready'[p])
    BY <1>3, <1>4 DEF IsReadySet
  <2>. QED
    BY <2>1, <2>2, <2>3 DEF QueueMembership
<1>8. CurrentCoherent'
  BY <1>1, <1>2 DEF IndInv, CurrentCoherent, TypeOK
<1>9. PlanCoherent'
  BY <1>1, <1>2 DEF IndInv, PlanCoherent, TypeOK
<1>10. (DecisionFresh /\ NoLostReschedule)'
  BY <1>5 DEF TickWake, IndInv, DecisionFresh, NoLostReschedule
<1>11. TickCoherent'
  BY <1>5 DEF TickWake, IndInv, TickCoherent
<1>12. DelayClock'
  BY <1>1, <1>2, <1>5 DEF DelayClock, TypeOK
<1>13. DelayQueueOrdered'
  <2>1. OrderedBy(delayQ', left)
    BY <1>1, <1>2, UnlinkOrdered DEF IndInv, DelayQueueOrdered
  <2>2. \A i \in 1 .. Len(delayQ') : delayQ'[i] \in Task /\ delayQ'[i] # t
    <3>1. \A i \in 1 .. Len(delayQ') : Queued(delayQ', delayQ'[i])
      BY DEF Queued
    <3>2. \A i \in 1 .. Len(delayQ') : delayQ'[i] \in Task
      BY <1>4
    <3>. QED
      BY <3>1, <3>2, <1>4
  <2>3. \A i \in 1 .. Len(delayQ') : left'[delayQ'[i]] = left[delayQ'[i]]
    BY <2>2, <1>2 DEF TypeOK
  <2>. QED
    BY <2>1, <2>3 DEF DelayQueueOrdered, OrderedBy
<1>14. BootCoherent'
  BY <1>1, <1>2, Zenon DEF TickWake, IndInv, TickCoherent, BootCoherent, TypeOK
<1>. QED
  BY <1>6, <1>7, <1>8, <1>9, <1>10, <1>11, <1>12, <1>13, <1>14 DEF IndInv

\* The end of the expiry loop, the slice and the new choice.
LEMMA TickFinishStep ==
    ASSUME IndInv, TickFinish
    PROVE  IndInv'
<1>. USE SchedulerAssumption, HalfAssumption
<1>. /\ TypeOK /\ QueueMembership /\ BootCoherent /\ DelayClock
     /\ CurrentCoherent /\ PlanCoherent /\ TickCoherent /\ NoLostReschedule
     /\ DecisionFresh
  BY DEF IndInv
<1> DEFINE rotates == SliceExpires /\ ReadyHasPeer(ready, Prio[current])
           n == PickNext(ready')
<1>0. /\ tick.phase = "wake" /\ lifecycle = "RUNNING" /\ ~tick.notify
      /\ current \in Task
      /\ UNCHANGED <<lifecycle, state, delayQ, wakeTick, now, current, pendsv,
                     owes, left>>
  BY DEF TickFinish, TickCoherent, BootCoherent
<1>1. /\ tick'.phase = "return" /\ ~tick'.woke /\ ~tick'.currentWoke
      /\ tick' \in [phase : {"none", "wake", "return"}, elapsed : 0 .. MaxAdvance,
                    woke : BOOLEAN, currentWoke : BOOLEAN, notify : BOOLEAN]
  <2>1. PICK b \in BOOLEAN :
          tick' = [phase |-> "return", elapsed |-> 0, woke |-> FALSE,
                   currentWoke |-> FALSE, notify |-> b]
    BY Zenon DEF TickFinish, NoTick, Notifies
  <2>. QED
    BY <2>1 DEF MaxAdvance
<1>2. IsReadySet(ready', Runnable)
  <2>1. IsReadySet(ready, Runnable)
    BY ReadyHoldsRunnable DEF BootCoherent
  <2>2. CASE rotates
    <3>1. Prio[current] \in Priorities /\ ready[Prio[current]] # << >>
      BY <2>2, <1>0 DEF ReadyHasPeer, TypeOK
    <3>2. ready' = ReadyRotate(ready, Prio[current])
      BY <2>2 DEF TickFinish
    <3>. QED
      BY <3>1, <3>2, <2>1, ReadyRotateSet
  <2>3. CASE ~rotates
    BY <2>1, <2>3 DEF TickFinish
  <2>. QED
    BY <2>2, <2>3
<1>3. n \in Runnable /\ n \in Task /\ (n # current => state[n] = "READY")
  <2>1. n \in Runnable
    BY <1>2, PickNextIsHighest DEF BootCoherent, Runnable
  <2>. QED
    BY <2>1, <1>0 DEF Runnable, CurrentCoherent
<1>4. slice' \in [Task -> 0 .. TimeSlice]
  <2>1. CASE SliceExpires
    <3>1. slice' = [slice EXCEPT ![current] = TimeSlice] /\ TimeSlice \in 0 .. TimeSlice
      BY <2>1 DEF TickFinish
    <3>. QED
      BY <3>1, Zenon DEF TypeOK
  <2>2. CASE ~SliceExpires /\ SliceCounts
    <3>1. slice' = [slice EXCEPT ![current] = slice[current] - tick.elapsed]
      BY <2>2 DEF TickFinish
    <3>2. /\ slice[current] \in 0 .. TimeSlice
          /\ tick.elapsed \in 1 .. MaxAdvance
          /\ ~(tick.elapsed >= slice[current])
      BY <2>2, <1>0 DEF SliceExpires, TypeOK, TickCoherent
    <3>3. slice[current] - tick.elapsed \in 0 .. TimeSlice
      BY <3>2 DEF MaxAdvance
    <3>. QED
      BY <3>1, <3>3, Zenon DEF TypeOK
  <2>3. CASE ~SliceExpires /\ ~SliceCounts
    BY <2>3 DEF TickFinish, TypeOK
  <2>. QED
    BY <2>1, <2>2, <2>3
<1>5. /\ plan' \in Plans(Task)
      /\ PlanCoherent'
      /\ plan.pending \/ plan.active => plan'.pending \/ plan'.active \/ n = current
      /\ DecisionFresh'
      /\ NoLostReschedule'
  <2>1. CASE tick.woke \/ rotates
    <3>1. /\ plan' = PrepareSwitch(plan, current, n)
          /\ tick'.notify = Notifies(plan, current, n)
      BY <2>1, Zenon DEF TickFinish, NoTick
    <3>2. plan \in Plans(Task)
      BY DEF TypeOK
    <3> HIDE DEF n
    <3>3. Prepared(plan, current, n, plan')
      BY <3>1, <3>2, <1>0, <1>3, PrepareSwitchCases
    <3>4. PlanCoherent'
      <4>1. ~plan.pending /\ ~plan.active => plan.from = NoTask /\ plan.to = NoTask
        BY DEF PlanCoherent, NoPlan
      <4>2. CASE plan.active
        BY <4>2, <3>3, <1>0 DEF PlanCoherent, Prepared
      <4>3. CASE ~plan.active /\ n = current
        <5>1. CASE plan.pending
          BY <5>1, <4>3, <3>3 DEF Prepared, PlanCoherent, NoPlan
        <5>2. CASE ~plan.pending
          BY <5>2, <4>1, <4>3, <3>3 DEF Prepared, PlanCoherent, NoPlan
        <5>. QED
          BY <5>1, <5>2
      <4>4. CASE ~plan.active /\ n # current
        BY <4>4, <3>3, <1>0, <1>3 DEF PlanCoherent, Prepared
      <4>. QED
        BY <4>2, <4>3, <4>4
    <3>5. DecisionFresh'
      <4>1. /\ plan'.pending => plan'.to = n
            /\ plan'.active => plan'.to = n \/ plan'.reselect
            /\ ~plan'.pending /\ ~plan'.active => current = n
        BY <3>3 DEF Prepared, PlanCoherent
      <4>. QED
        BY <4>1, <1>0 DEF DecisionFresh, n
    <3>6. NoLostReschedule'
      BY <3>1, <3>3, <1>0, Zenon DEF NoLostReschedule, PlanCoherent, Notifies, Prepared
    <3>. QED
      BY <3>3, <3>4, <3>5, <3>6 DEF Prepared
  <2>2. CASE ~(tick.woke \/ rotates)
    <3>1. plan' = plan /\ ready' = ready
      BY <2>2 DEF TickFinish
    <3>. QED
      BY <3>1, <2>2, <1>0
         DEF PlanCoherent, DecisionFresh, NoLostReschedule, TypeOK
  <2>. QED
    BY <2>1, <2>2
<1>6. TypeOK'
  BY <1>0, <1>1, <1>2, <1>4, <1>5 DEF TypeOK, IsReadySet
<1>7. QueueMembership'
  BY <1>0, <1>2 DEF QueueMembership, IsReadySet, Runnable
<1>8. CurrentCoherent'
  BY <1>0, <1>3, <1>5 DEF CurrentCoherent, Runnable
<1>9. (TickCoherent /\ BootCoherent)'
  BY <1>0, <1>1, <1>5, Zenon DEF TickCoherent, BootCoherent
<1>10. DelayClock' /\ DelayQueueOrdered'
  <2>1. ASSUME NEW t \in Task, state[t] = "BLOCKED"
        PROVE  left[t] >= 1
    <3> DEFINE h == Head(delayQ)
    <3>1. PICK i \in 1 .. Len(delayQ) : delayQ[i] = t
      BY <2>1 DEF QueueMembership, Queued
    <3>2. h = delayQ[1] /\ 1 \in 1 .. Len(delayQ) /\ h \in Task /\ delayQ # << >>
      <4>1. delayQ \in Seq(Task)
        BY DEF TypeOK
      <4>2. Len(delayQ) \in Nat /\ Len(delayQ) >= 1
        BY <3>1, <4>1
      <4>. QED
        BY <4>1, <4>2
    <3>3. state[h] = "BLOCKED"
      BY <3>2 DEF QueueMembership, Queued
    <3>4. left[h] \in (-MaxAdvance) .. MaxAdvance /\ wakeTick[h] = TickAdd(now, left[h])
      BY <3>2, <3>3 DEF DelayClock
    <3>5. ~TickReached(now, wakeTick[h])
      BY <3>2 DEF TickFinish, HeadExpired
    <3>6. left[h] >= 1
      <4>1. now \in Ticks
        BY DEF TypeOK
      <4>2. ~(left[h] <= 0)
        BY <4>1, <3>4, <3>5, TickReachedIsExact
      <4>. QED
        BY <4>2, <3>4 DEF MaxAdvance
    <3>7. left[h] <= left[t]
      <4>1. CASE i = 1
        BY <4>1, <3>1, <3>2 DEF TypeOK
      <4>2. CASE i > 1
        BY <4>2, <3>1, <3>2 DEF IndInv, DelayQueueOrdered, OrderedBy
      <4>. QED
        BY <4>1, <4>2
    <3>8. left[h] \in Int /\ left[t] \in Int
      BY <3>2, Zenon DEF TypeOK
    <3> HIDE DEF h
    <3>. QED
      BY <3>6, <3>7, <3>8
  <2>. QED
    BY <2>1, <1>0, Zenon DEF IndInv, DelayClock, DelayQueueOrdered
<1>. QED
  BY <1>5, <1>6, <1>7, <1>8, <1>9, <1>10 DEF IndInv

\* PendSV completes the switch and reselects.
LEMMA SwitchCompleteStep ==
    ASSUME IndInv, SwitchComplete
    PROVE  IndInv'
<1>. USE SchedulerAssumption, HalfAssumption
<1>. /\ TypeOK /\ QueueMembership /\ BootCoherent /\ DelayClock
     /\ CurrentCoherent /\ PlanCoherent /\ TickCoherent /\ NoLostReschedule
     /\ DecisionFresh /\ DelayQueueOrdered
  BY DEF IndInv
<1> DEFINE to == plan.to
           n == PickNext(ready)
           q == ClearPlan(plan)
<1>1. /\ plan.from = current /\ current \in Task
      /\ to \in Task /\ to # current /\ state[to] = "READY"
      /\ state[current] \in {"RUNNING", "BLOCKED"}
      /\ lifecycle = "RUNNING" /\ plan.active /\ tick.phase = "none"
  BY DEF SwitchComplete, PendSVRuns, PlanCoherent, CurrentCoherent
<1>2. /\ state' = [state EXCEPT
                     ![current] = IF @ = "RUNNING" THEN "READY" ELSE @,
                     ![to] = "RUNNING"]
      /\ slice' = [slice EXCEPT ![to] = TimeSlice]
      /\ current' = to
      /\ UNCHANGED <<lifecycle, ready, delayQ, wakeTick, now, owes, tick, left>>
  BY <1>1 DEF SwitchComplete
<1>3. /\ state' \in [Task -> States]
      /\ state'[to] = "RUNNING"
      /\ state'[current] = IF state[current] = "RUNNING" THEN "READY"
                                                       ELSE "BLOCKED"
      /\ \A u \in Task \ {to, current} : state'[u] = state[u]
  BY <1>1, <1>2, Zenon DEF TypeOK, States
<1>4. \A u \in Task :
        /\ state'[u] \in {"READY", "RUNNING"} <=> state[u] \in {"READY", "RUNNING"}
        /\ state'[u] = "BLOCKED" <=> state[u] = "BLOCKED"
        /\ state'[u] = "RUNNING" <=> u = to
  BY <1>1, <1>3 DEF CurrentCoherent
<1>5. n \in Task /\ (n # to => state'[n] = "READY")
  <2>1. n \in Runnable
    BY ReadyHoldsRunnable DEF BootCoherent
  <2>. QED
    BY <2>1, <1>4 DEF Runnable
<1>6. /\ q \in Plans(Task) /\ ~q.pending /\ ~q.active
      /\ q.from = NoTask /\ q.to = NoTask
      /\ ~plan.reselect => q = NoPlan
  BY Zenon DEF ClearPlan, NoPlan, Plans, TypeOK
<1>7. /\ plan' \in Plans(Task)
      /\ pendsv' \in BOOLEAN
      /\ PlanCoherent'
      /\ DecisionFresh'
      /\ NoLostReschedule'
  <2>1. CASE plan.reselect /\ n # to
    <3>1. /\ plan' = PrepareSwitch(q, to, n)
          /\ pendsv' = (pendsv \/ Notifies(q, to, n))
      BY <2>1 DEF SwitchComplete
    <3> HIDE DEF n, q, to
    <3>2. Prepared(q, to, n, plan')
      BY <3>1, <1>1, <1>5, <1>6, PrepareSwitchCases
    <3>3. /\ plan' \in Plans(Task)
          /\ plan'.pending /\ ~plan'.active /\ plan'.to = n /\ plan'.from = to
      BY <3>2, <2>1, <1>6 DEF Prepared
    <3>4. pendsv' = TRUE
      BY <3>1, <2>1, <1>6, Zenon DEF Notifies, TypeOK
    <3>5. PlanCoherent'
      BY <3>3, <2>1, <1>1, <1>2, <1>5 DEF PlanCoherent
    <3>6. DecisionFresh'
      BY <3>3, <1>2 DEF DecisionFresh, n
    <3>. QED
      BY <3>3, <3>4, <3>5, <3>6 DEF NoLostReschedule
  <2>2. CASE plan.reselect /\ n = to
    <3>1. /\ plan' = PrepareSwitch(q, to, n)
          /\ pendsv' = (pendsv \/ Notifies(q, to, n))
      BY <2>2, Zenon DEF SwitchComplete
    <3>2. plan' = NoPlan
      <4> HIDE DEF n, q, to
      <4>1. Prepared(q, to, n, plan')
        BY <3>1, <1>1, <1>5, <1>6, PrepareSwitchCases
      <4>. QED
        BY <4>1, <2>2, <1>6 DEF Prepared
    <3>3. pendsv' = pendsv
      BY <3>1, <2>2 DEF Notifies, TypeOK
    <3>. QED
      BY <3>2, <3>3, <2>2, <1>2
         DEF PlanCoherent, DecisionFresh, NoLostReschedule, NoPlan, Plans, TypeOK
  <2>3. CASE ~plan.reselect
    <3>1. plan' = NoPlan /\ pendsv' = pendsv
      BY <2>3, <1>6, Zenon DEF SwitchComplete
    <3>2. to = n
      BY <2>3, <1>1 DEF DecisionFresh
    <3>. QED
      BY <3>1, <3>2, <1>2
         DEF PlanCoherent, DecisionFresh, NoLostReschedule, NoPlan, Plans, TypeOK
  <2>. QED
    BY <2>1, <2>2, <2>3
<1>8. TypeOK'
  <2>1. TimeSlice \in 0 .. TimeSlice
    OBVIOUS
  <2>2. slice' \in [Task -> 0 .. TimeSlice]
    BY <2>1, <1>1, <1>2, Zenon DEF TypeOK
  <2>. QED
    BY <2>2, <1>1, <1>2, <1>3, <1>7, Zenon DEF TypeOK
<1>9. QueueMembership'
  BY <1>2, <1>4, Zenon DEF QueueMembership
<1>10. CurrentCoherent'
  BY <1>1, <1>2, <1>3, <1>4 DEF CurrentCoherent
<1>11. (TickCoherent /\ BootCoherent)'
  BY <1>1, <1>2, <1>4, Zenon DEF TickCoherent, BootCoherent
<1>12. (DelayClock /\ DelayQueueOrdered)'
  BY <1>2, <1>4, Zenon DEF DelayClock, DelayQueueOrdered
<1>. QED
  BY <1>7, <1>8, <1>9, <1>10, <1>11, <1>12 DEF IndInv

\* The current task yields.
LEMMA YieldStep ==
    ASSUME IndInv, NEW t \in Task, Yield(t)
    PROVE  IndInv'
<1>. USE SchedulerAssumption, HalfAssumption
<1>. /\ TypeOK /\ QueueMembership /\ BootCoherent /\ DelayClock
     /\ CurrentCoherent /\ PlanCoherent /\ TickCoherent /\ NoLostReschedule
     /\ DecisionFresh /\ DelayQueueOrdered
  BY DEF IndInv
<1> DEFINE n == PickNext(ready')
<1>1. /\ t = current /\ lifecycle = "RUNNING" /\ tick.phase = "none"
      /\ state[t] = "RUNNING" /\ Prio[t] \in Priorities
      /\ UNCHANGED <<lifecycle, state, delayQ, wakeTick, now, current, pendsv,
                     tick, left>>
      /\ slice' = [slice EXCEPT ![t] = TimeSlice]
  BY DEF Yield, InApplication, Executing, YieldIsCoherent
<1>2. ~plan.pending /\ ~plan.active /\ plan = NoPlan
  BY <1>1 DEF Yield, InApplication, Executing, NoLostReschedule, TickCoherent,
              PlanCoherent
<1>3. IsReadySet(ready', Runnable)
  <2>1. IsReadySet(ready, Runnable)
    BY ReadyHoldsRunnable DEF BootCoherent
  <2>2. CASE ReadyHasPeer(ready, Prio[t])
    <3>1. ready[Prio[t]] # << >>
      BY <2>2, <1>1 DEF ReadyHasPeer, TypeOK
    <3>2. ready' = ReadyRotate(ready, Prio[t])
      BY <2>2 DEF Yield
    <3>. QED
      BY <3>1, <3>2, <2>1, <1>1, ReadyRotateSet
  <2>3. CASE ~ReadyHasPeer(ready, Prio[t])
    BY <2>1, <2>3 DEF Yield
  <2>. QED
    BY <2>2, <2>3
<1>4. n \in Task /\ (n # current => state[n] = "READY")
  <2>1. n \in Runnable
    BY <1>3, PickNextIsHighest DEF BootCoherent, Runnable
  <2>. QED
    BY <2>1, <1>1 DEF Runnable, CurrentCoherent
<1>5. /\ plan' \in Plans(Task)
      /\ owes' \in [Task -> BOOLEAN]
      /\ PlanCoherent'
      /\ DecisionFresh'
      /\ NoLostReschedule'
  <2>1. CASE ReadyHasPeer(ready, Prio[t])
    <3>1. /\ plan' = PrepareSwitch(plan, current, n)
          /\ owes' = [owes EXCEPT ![t] = Notifies(plan, current, n)]
      BY <2>1, <1>1 DEF Yield
    <3>2. plan \in Plans(Task) /\ plan.from = NoTask /\ plan.to = NoTask
      BY <1>2 DEF TypeOK, NoPlan
    <3> HIDE DEF n
    <3>3. Prepared(plan, current, n, plan')
      BY <3>1, <3>2, <1>1, <1>4, PrepareSwitchCases
    <3>4. PlanCoherent'
      BY <3>2, <3>3, <1>1, <1>2, <1>4 DEF PlanCoherent, Prepared
    <3>5. DecisionFresh'
      <4>1. /\ plan'.pending => plan'.to = n
            /\ ~plan'.active
            /\ ~plan'.pending => current = n
        BY <3>3, <1>2 DEF Prepared
      <4>. QED
        BY <4>1, <1>1 DEF DecisionFresh, n
    <3>6. owes' \in [Task -> BOOLEAN] /\ owes'[t] = Notifies(plan, current, n)
      BY <3>1 DEF TypeOK, Notifies
    <3>7. NoLostReschedule'
      BY <3>3, <3>6, <1>1, <1>2 DEF NoLostReschedule, Notifies, Prepared
    <3>. QED
      BY <3>3, <3>4, <3>5, <3>6, <3>7 DEF Prepared
  <2>2. CASE ~ReadyHasPeer(ready, Prio[t])
    <3>1. UNCHANGED <<ready, plan, owes>>
      BY <2>2 DEF Yield
    <3>. QED
      BY <3>1, <1>1, Zenon DEF PlanCoherent, DecisionFresh, NoLostReschedule, TypeOK
  <2>. QED
    BY <2>1, <2>2
<1>6. TypeOK'
  <2>1. slice' \in [Task -> 0 .. TimeSlice]
    BY <1>1 DEF TypeOK
  <2>. QED
    BY <2>1, <1>1, <1>3, <1>5, Zenon DEF TypeOK, IsReadySet
<1>7. QueueMembership'
  BY <1>1, <1>3 DEF QueueMembership, IsReadySet, Runnable
<1>8. (CurrentCoherent /\ TickCoherent /\ BootCoherent)'
  BY <1>1 DEF CurrentCoherent, TickCoherent, BootCoherent
<1>9. (DelayClock /\ DelayQueueOrdered)'
  BY <1>1 DEF DelayClock, DelayQueueOrdered
<1>. QED
  BY <1>5, <1>6, <1>7, <1>8, <1>9 DEF IndInv

\* The current task delays itself.
LEMMA DelayStep ==
    ASSUME IndInv, NEW t \in Task, NEW d \in Delays, Delay(t, d)
    PROVE  IndInv'
<1>. USE SchedulerAssumption, HalfAssumption
<1>. /\ TypeOK /\ QueueMembership /\ BootCoherent /\ DelayClock
     /\ CurrentCoherent /\ PlanCoherent /\ TickCoherent /\ NoLostReschedule
     /\ DecisionFresh /\ DelayQueueOrdered
  BY DEF IndInv
<1> DEFINE n == PickNext(ready')
<1>1. /\ t = current /\ lifecycle = "RUNNING" /\ tick.phase = "none"
      /\ state[t] = "RUNNING" /\ t # Idle
      /\ UNCHANGED <<lifecycle, now, current, pendsv, tick>>
  BY DEF Delay, InApplication, Executing, DelayIsCoherent
<1>2. /\ state' = [state EXCEPT ![t] = "BLOCKED"]
      /\ left' = [left EXCEPT ![t] = d]
      /\ wakeTick' = [wakeTick EXCEPT ![t] = TickAdd(now, d)]
      /\ slice' = [slice EXCEPT ![t] = TimeSlice]
      /\ ready' = ReadyRemove(ready, Prio[t], t)
      /\ delayQ' = DelayInsert(delayQ, wakeTick', t)
      /\ plan' = PrepareSwitch(plan, t, n)
      /\ owes' = [owes EXCEPT ![t] = Notifies(plan, t, n)]
  BY DEF Delay
<1>3. ~plan.pending /\ ~plan.active /\ plan = NoPlan
  BY <1>1, Zenon DEF Delay, InApplication, Executing, NoLostReschedule, TickCoherent,
              PlanCoherent
<1>4. /\ state' \in [Task -> States]
      /\ state'[t] = "BLOCKED"
      /\ \A u \in Task \ {t} : state'[u] = state[u]
  BY <1>2 DEF TypeOK, States
<1>5. IsReadySet(ready', Runnable')
  <2>1. IsReadySet(ready, Runnable) /\ t \in Runnable
    BY <1>1, ReadyHoldsRunnable DEF BootCoherent, Runnable
  <2>2. Runnable' = Runnable \ {t}
    BY <1>4 DEF Runnable
  <2>3. ready' = ReadyRemove(ready, Prio[t], t)
    BY <1>2
  <2>. QED
    BY <2>1, <2>2, <2>3, ReadyRemoveSet
<1>6. n \in Task /\ n # t /\ state'[n] = "READY"
  <2>1. Idle \in Runnable'
    BY <1>1, <1>4 DEF BootCoherent, Runnable
  <2>2. n \in Runnable'
    BY <1>5, <2>1, PickNextIsHighest
  <2>. QED
    BY <2>2, <1>1, <1>4 DEF Runnable, CurrentCoherent
<1> DEFINE k == DelayPosition(delayQ, wakeTick', t)
<1>7. /\ delayQ' \in Seq(Task)
      /\ \A u : Queued(delayQ', u) <=> Queued(delayQ, u) \/ u = t
      /\ Distinct(delayQ')
  <2>1. delayQ \in Seq(Task) /\ Distinct(delayQ) /\ ~Queued(delayQ, t)
    BY <1>1 DEF TypeOK, QueueMembership
  <2>2. k \in 1 .. (Len(delayQ) + 1)
    BY <2>1, DelayPositionExists
  <2>3. delayQ' = ListInsertBefore(delayQ, k, t)
    BY <1>2 DEF DelayInsert
  <2> HIDE DEF k
  <2>4. ListInsertBefore(delayQ, k, t) \in Seq(Task)
    BY <2>1, <2>2, ListInsertShape
  <2>. QED
    BY <2>1, <2>2, <2>3, <2>4, InsertQueue
<1>8. d \in 1 .. MaxAdvance /\ d \in (-MaxAdvance) .. MaxAdvance /\ d \in Int
  BY DEF MaxAdvance
<1>9. /\ left' \in [Task -> Int] /\ left'[t] = d
      /\ wakeTick' \in [Task -> Ticks] /\ wakeTick'[t] = TickAdd(now, d)
      /\ \A u \in Task \ {t} : left'[u] = left[u] /\ wakeTick'[u] = wakeTick[u]
  <2>1. left \in [Task -> Int] /\ wakeTick \in [Task -> Ticks] /\ now \in Ticks
    BY DEF TypeOK
  <2>2. TickAdd(now, d) \in Ticks
    BY <2>1, <1>8, TickAddCases
  <2>3. left' \in [Task -> Int] /\ wakeTick' \in [Task -> Ticks]
    BY <2>1, <2>2, <1>2, <1>8, Zenon
  <2>. QED
    BY <2>1, <2>3, <1>2
<1>10. TypeOK'
  <2>1. slice' \in [Task -> 0 .. TimeSlice]
    <3>1. TimeSlice \in 0 .. TimeSlice
      OBVIOUS
    <3>. QED
      BY <3>1, <1>2, Zenon DEF TypeOK
  <2>2. owes' \in [Task -> BOOLEAN]
    BY <1>2 DEF Notifies, TypeOK
  <2>3. plan' \in Plans(Task)
    <3>1. plan \in Plans(Task) /\ plan' = PrepareSwitch(plan, t, n)
      BY <1>2 DEF TypeOK
    <3> HIDE DEF n
    <3>2. Prepared(plan, t, n, plan')
      BY <3>1, <1>6, PrepareSwitchCases
    <3>. QED
      BY <3>2 DEF Prepared
  <2>4. ready' \in [Priorities -> Seq(Task)]
    BY <1>5 DEF IsReadySet
  <2>5. /\ lifecycle' \in {"INITIALIZED", "RUNNING"}
        /\ now' \in Ticks /\ current' \in Task \cup {NoTask} /\ pendsv' \in BOOLEAN
        /\ tick' \in [phase : {"none", "wake", "return"}, elapsed : 0 .. MaxAdvance,
                      woke : BOOLEAN, currentWoke : BOOLEAN, notify : BOOLEAN]
    BY <1>1 DEF TypeOK
  <2>. QED
    BY <2>1, <2>2, <2>3, <2>4, <2>5, <1>4, <1>7, <1>9, Zenon DEF TypeOK
<1>11. QueueMembership'
  <2>1. \A p \in Priorities, u \in Task :
          Queued(ready'[p], u) <=> state'[u] \in {"READY", "RUNNING"} /\ p = Prio[u]
    BY <1>5 DEF IsReadySet, Runnable
  <2>2. \A u \in Task : Queued(delayQ', u) <=> state'[u] = "BLOCKED"
    BY <1>4, <1>7 DEF QueueMembership
  <2>3. Distinct(delayQ') /\ \A p \in Priorities : Distinct(ready'[p])
    BY <1>5, <1>7 DEF IsReadySet
  <2>. QED
    BY <2>1, <2>2, <2>3 DEF QueueMembership
<1>12. /\ plan'.pending /\ ~plan'.active /\ plan'.from = t /\ plan'.to = n
       /\ owes'[t]
  <2>1. plan \in Plans(Task) /\ plan' = PrepareSwitch(plan, t, n)
    BY <1>2 DEF TypeOK
  <2>2. owes' = [owes EXCEPT ![t] = Notifies(plan, t, n)] /\ owes \in [Task -> BOOLEAN]
    BY <1>2 DEF TypeOK
  <2> HIDE DEF n
  <2>3. Prepared(plan, t, n, plan')
    BY <2>1, <1>6, PrepareSwitchCases
  <2>4. Notifies(plan, t, n)
    BY <1>3, <1>6 DEF Notifies
  <2>. QED
    BY <2>2, <2>3, <2>4, <1>3, <1>6 DEF Prepared
<1>13. (PlanCoherent /\ NoLostReschedule /\ DecisionFresh)'
  <2>1. PlanCoherent'
    BY <1>1, <1>6, <1>12 DEF PlanCoherent
  <2>2. NoLostReschedule'
    BY <1>1, <1>12, Zenon DEF NoLostReschedule
  <2>3. DecisionFresh'
    BY <1>12, Zenon DEF DecisionFresh
  <2>. QED
    BY <2>1, <2>2, <2>3
<1>14. CurrentCoherent'
  BY <1>1, <1>4, <1>12 DEF CurrentCoherent
<1>15. (TickCoherent /\ BootCoherent)'
  BY <1>1, <1>4 DEF TickCoherent, BootCoherent
<1>16. DelayClock'
  <2> SUFFICES ASSUME NEW u \in Task, state'[u] = "BLOCKED"
               PROVE  /\ left'[u] \in (-MaxAdvance) .. MaxAdvance
                      /\ left'[u] >= 1
                      /\ wakeTick'[u] = TickAdd(now, left'[u])
    BY <1>1, Zenon DEF DelayClock
  <2>1. CASE u = t
    BY <2>1, <1>8, <1>9, PositiveAdvance, Zenon
  <2>2. CASE u # t
    BY <2>2, <1>1, <1>4, <1>9 DEF DelayClock
  <2>. QED
    BY <2>1, <2>2
<1>17. DelayQueueOrdered'
  <2>1. delayQ \in Seq(Task) /\ now \in Ticks
    BY DEF TypeOK
  <2>2. \A i \in 1 .. Len(delayQ) :
          /\ delayQ[i] \in Task \ {t}
          /\ state[delayQ[i]] = "BLOCKED"
    BY <1>1, DelayedAreBlocked, Zenon
  <2>3. \A i \in 1 .. Len(delayQ) :
          /\ left'[delayQ[i]] = left[delayQ[i]]
          /\ wakeTick'[delayQ[i]] = wakeTick[delayQ[i]]
    BY <2>2, <1>9
  <2>4. \A i \in 1 .. Len(delayQ) :
          /\ left'[delayQ[i]] \in 1 .. MaxAdvance
          /\ wakeTick'[delayQ[i]] = TickAdd(now, left'[delayQ[i]])
    <3> SUFFICES ASSUME NEW i \in 1 .. Len(delayQ)
                 PROVE  /\ left[delayQ[i]] \in 1 .. MaxAdvance
                        /\ wakeTick[delayQ[i]] = TickAdd(now, left[delayQ[i]])
      BY <2>3, Zenon
    <3>1. delayQ[i] \in Task /\ state[delayQ[i]] = "BLOCKED"
      BY <2>2, Zenon
    <3> DEFINE u == delayQ[i]
    <3> HIDE DEF u
    <3>2. u \in Task /\ state[u] = "BLOCKED"
      BY <3>1 DEF u
    <3>3. left[u] \in 1 .. MaxAdvance /\ wakeTick[u] = TickAdd(now, left[u])
      <4>1. tick.phase # "wake"
        BY <1>1
      <4>. QED
        BY <4>1, <3>2, PositiveAdvance, Zenon DEF DelayClock
    <3>. QED
      BY <3>3 DEF u
  <2>5. OrderedBy(delayQ, left')
    BY <2>3, Zenon DEF DelayQueueOrdered, OrderedBy
  <2>6. OrderedBy(DelayInsert(delayQ, wakeTick', t), left')
    <3> DEFINE key == left'
               wake == wakeTick'
    <3>1. /\ key \in [Task -> Int]
          /\ key[t] \in 1 .. MaxAdvance
          /\ wake[t] = TickAdd(now, key[t])
          /\ \A i \in 1 .. Len(delayQ) : /\ key[delayQ[i]] \in 1 .. MaxAdvance
                                        /\ wake[delayQ[i]] = TickAdd(now, key[delayQ[i]])
          /\ OrderedBy(delayQ, key)
      BY <2>4, <2>5, <1>8, <1>9, Zenon
    <3> HIDE DEF key, wake
    <3>2. OrderedBy(DelayInsert(delayQ, wake, t), key)
      BY <2>1, <3>1, DelayInsertOrdered, Zenon
    <3>. QED
      BY <3>2 DEF key, wake
  <2>. QED
    BY <2>6, <1>2 DEF DelayQueueOrdered
<1>. QED
  BY <1>10, <1>11, <1>13, <1>14, <1>15, <1>16, <1>17 DEF IndInv
-----------------------------------------------------------------------------
\* Every step of the kernel preserves the invariant.
LEMMA NextStep == IndInv /\ [Next]_vars => IndInv'
<1> SUFFICES ASSUME IndInv, [Next]_vars PROVE IndInv'
  OBVIOUS
<1>1. CASE \E t \in Task : Create(t)
  BY <1>1, CreateStep
<1>2. CASE Start
  BY <1>2, StartStep
<1>3. CASE \E t \in Task, d \in Delays : Delay(t, d)
  BY <1>3, DelayStep
<1>4. CASE \E t \in Task : Yield(t)
  BY <1>4, YieldStep
<1>5. CASE \E t \in Task : Request(t)
  BY <1>5, RequestStep
<1>6. CASE \E e \in Elapsed : TickEnter(e)
  BY <1>6, TickEnterStep
<1>7. CASE TickWake
  BY <1>7, TickWakeStep
<1>8. CASE TickFinish
  BY <1>8, TickFinishStep
<1>9. CASE TickReturn
  BY <1>9, TickReturnStep
<1>10. CASE SwitchNoPlan
  BY <1>10, SwitchNoPlanStep
<1>11. CASE SwitchAcquire
  BY <1>11, SwitchAcquireStep
<1>12. CASE SwitchComplete
  BY <1>12, SwitchCompleteStep
<1>13. CASE UNCHANGED vars
  <2>. /\ UNCHANGED <<lifecycle, now, current, plan, pendsv, owes, tick>>
       /\ UNCHANGED <<state, ready, delayQ, wakeTick, slice, left>>
    BY <1>13 DEF vars, taskVars
  <2>1. TypeOK'
    BY Zenon DEF IndInv, TypeOK
  <2>2. (QueueMembership /\ CurrentCoherent)'
    BY Zenon DEF IndInv, QueueMembership, CurrentCoherent
  <2>3. (PlanCoherent /\ DecisionFresh /\ NoLostReschedule)'
    BY Zenon DEF IndInv, PlanCoherent, DecisionFresh, NoLostReschedule
  <2>4. (TickCoherent /\ DelayClock /\ DelayQueueOrdered /\ BootCoherent)'
    BY Zenon DEF IndInv, TickCoherent, DelayClock, DelayQueueOrdered, BootCoherent
  <2>. QED
    BY <2>1, <2>2, <2>3, <2>4, Zenon DEF IndInv
<1>. QED
  BY <1>1, <1>2, <1>3, <1>4, <1>5, <1>6, <1>7, <1>8, <1>9, <1>10, <1>11, <1>12,
     <1>13 DEF Next

\* The inductive invariant holds in every reachable state.
THEOREM Invariance == Spec => []IndInv
BY InitInv, NextStep, PTL DEF Spec

\* The kernel state keeps its types.
THEOREM TypeCorrect == Spec => []TypeOK
BY Invariance, PTL DEF IndInv

\* Every task is linked into exactly the queue that its state says, however
\* calls, ticks and context switches interleave.
THEOREM QueuesAgreeWithStates == Spec => []QueueMembership
BY Invariance, PTL DEF IndInv

\* The assertions of rts_scheduler_switch_acquire and
\* rts_scheduler_switch_complete never fire.
THEOREM PlansAreCoherent == Spec => [](CurrentCoherent /\ PlanCoherent)
BY Invariance, PTL DEF IndInv

\* A decision to switch is never lost, although prepare_switch notifies once
\* and the request is issued after the unlock.
THEOREM ReschedulesAreNotLost == Spec => []NoLostReschedule
BY Invariance, PTL DEF IndInv

\* Outside the expiry loop the running task, or the one the plan leads to, is
\* the front of the highest ready queue, or a reselection is due.
THEOREM DecisionsAreFresh == Spec => []DecisionIsHighest
<1>1. IndInv => DecisionIsHighest
  BY DEF IndInv, DecisionFresh, DecisionIsHighest
<1>. QED
  BY <1>1, Invariance, PTL

\* That front has the greatest priority of all runnable tasks: with
\* DecisionsAreFresh, the scheduler is a fixed-priority scheduler.
THEOREM ChoiceIsHighestPriority ==
    Spec => [](\A u \in Runnable : Prio[u] <= Prio[PickNext(ready)])
<1>1. IndInv => \A u \in Runnable : Prio[u] <= Prio[PickNext(ready)]
  BY ReadyHoldsRunnable DEF IndInv, BootCoherent
<1>. QED
  BY <1>1, Invariance, PTL

\* The coherence assertions of rts_task_delay and rts_task_yield hold whenever
\* a task is in a position to make the call.
THEOREM CallsAreCoherent == Spec => []CallsCoherent
<1>1. IndInv => CallsCoherent
  <2> SUFFICES ASSUME IndInv, NEW t \in Task, InApplication(t)
               PROVE  DelayIsCoherent(t) /\ YieldIsCoherent(t)
    BY DEF CallsCoherent
  <2>1. /\ t = current /\ lifecycle = "RUNNING" /\ tick.phase = "none"
        /\ ~plan.pending /\ ~plan.active
    BY DEF InApplication, Executing, IndInv, NoLostReschedule, TickCoherent
  <2>2. state[t] = "RUNNING" /\ PickNext(ready) = t
    BY <2>1 DEF IndInv, CurrentCoherent, DecisionFresh
  <2>3. Queued(ready[Prio[t]], t) /\ ~Queued(delayQ, t)
    BY <2>2, SchedulerAssumption DEF IndInv, QueueMembership
  <2>. QED
    BY <2>1, <2>2, <2>3 DEF DelayIsCoherent, YieldIsCoherent
<1>. QED
  BY <1>1, Invariance, PTL

\* Delays expire on time across any number of wrap-arounds of the clock.
THEOREM DelaysExpireOnTime == Spec => [](DelaysOnTime /\ DelayQueueOrdered)
<1>1. IndInv => DelaysOnTime /\ DelayQueueOrdered
  <2> SUFFICES ASSUME IndInv, tick.phase = "none",
                      NEW t \in Task, state[t] = "BLOCKED"
               PROVE  left[t] \in 1 .. MaxAdvance /\ wakeTick[t] = TickAdd(now, left[t])
    BY Zenon DEF IndInv, DelaysOnTime
  <2>1. /\ left[t] \in (-MaxAdvance) .. MaxAdvance /\ left[t] >= 1
        /\ wakeTick[t] = TickAdd(now, left[t])
    BY Zenon DEF IndInv, DelayClock
  <2>. QED
    BY <2>1, PositiveAdvance, Zenon
<1>. QED
  BY <1>1, Invariance, PTL

\* The half-range assertion of rts_tick_is_before never fires.
THEOREM HalfRangeIsUnreached == Spec => []HalfRangeUnreached
<1>1. IndInv => HalfRangeUnreached
  <2> SUFFICES ASSUME IndInv, tick.phase = "none",
                      NEW i \in 1 .. Len(delayQ), NEW d \in Delays
               PROVE  TickElapsed(wakeTick[delayQ[i]], TickAdd(now, d)) # Half
    BY DEF HalfRangeUnreached
  <2>1. delayQ[i] \in Task /\ state[delayQ[i]] = "BLOCKED" /\ now \in Ticks
    BY DelayedAreBlocked, Zenon DEF IndInv, TypeOK
  <2>2. /\ left[delayQ[i]] \in 1 .. MaxAdvance
        /\ wakeTick[delayQ[i]] = TickAdd(now, left[delayQ[i]])
    BY <2>1, HalfAssumption DEF IndInv, DelayClock, MaxAdvance
  <2>3. d \in 1 .. MaxAdvance
    BY SchedulerAssumption
  <2>. QED
    BY <2>1, <2>2, <2>3, FutureTicksUnambiguous
<1>. QED
  BY <1>1, Invariance, PTL

\* A nonzero delay has no early wakeup: only the expiry loop ends a delay, and
\* its comparison of wrapped ticks is exact.
THEOREM NoDelayEndsEarly == Spec => NoEarlyWake
<1> DEFINE Ends(t) == state[t] = "BLOCKED" /\ state'[t] # "BLOCKED"
<1>1. ASSUME IndInv, [Next]_vars
      PROVE  \A t \in Task : Ends(t) => left[t] <= 0
  <2> SUFFICES ASSUME NEW t \in Task, Ends(t)
               PROVE  left[t] <= 0
    OBVIOUS
  <2>1. TypeOK /\ QueueMembership /\ CurrentCoherent /\ PlanCoherent
        /\ DelayClock /\ BootCoherent /\ TickCoherent
    BY <1>1 DEF IndInv
  <2>2. CASE TickWake
    <3> DEFINE h == Head(delayQ)
    <3>1. h = t
      BY <2>1, <2>2 DEF TickWake, TypeOK
    <3>2. /\ TickReached(now, wakeTick[t]) /\ now \in Ticks
          /\ left[t] \in (-MaxAdvance) .. MaxAdvance
          /\ wakeTick[t] = TickAdd(now, left[t])
      BY <3>1, <2>1, <2>2 DEF TickWake, HeadExpired, DelayClock, TypeOK
    <3>. QED
      BY <3>2, TickReachedIsExact
  <2>3. CASE \E u \in Task : Create(u)
    BY <2>1, <2>3 DEF Create, TypeOK
  <2>4. CASE Start
    BY <2>1, <2>4 DEF Start, BootCoherent
  <2>5. CASE \E u \in Task, d \in Delays : Delay(u, d)
    BY <2>1, <2>5 DEF Delay, TypeOK
  <2>6. CASE SwitchComplete
    <3>1. /\ plan.to \in Task /\ state[plan.to] = "READY" /\ plan.from \in Task
          /\ plan.from # plan.to
      BY <2>1, <2>6, Zenon DEF SwitchComplete, PendSVRuns, PlanCoherent, CurrentCoherent
    <3>2. state' = [state EXCEPT
                      ![plan.from] = IF @ = "RUNNING" THEN "READY" ELSE @,
                      ![plan.to] = "RUNNING"]
      BY <2>6, Zenon DEF SwitchComplete
    <3>. QED
      BY <3>1, <3>2, <2>1, Zenon DEF TypeOK
  <2>7. CASE state' = state
    BY <2>7
  <2>. QED
    BY <1>1, <2>2, <2>3, <2>4, <2>5, <2>6, <2>7,
       Zenon DEF Next, vars, taskVars, Yield, Request, TickEnter, TickFinish, TickReturn,
           SwitchNoPlan, SwitchAcquire
<1>. QED
  BY <1>1, Invariance, PTL DEF Spec, NoEarlyWake
-----------------------------------------------------------------------------
\* No event falls into the ACTIVE window of a port that masks interrupts.
MaskedWindow == ~plan.reselect /\ (plan.active => tick.phase = "none")

LEMMA MaskedWindowHolds ==
    ASSUME MaskedSwitch
    PROVE  Spec => []MaskedWindow
<1>1. Init => MaskedWindow
  BY DEF Init, InitWith, NoPlan, MaskedWindow
<1>2. ASSUME IndInv, MaskedWindow, [Next]_vars
      PROVE  MaskedWindow'
  <2>1. plan \in Plans(Task) /\ plan.reselect \in BOOLEAN
    BY <1>2 DEF IndInv, TypeOK, Plans
  <2>2. ASSUME NEW c, NEW n, ~plan.active
        PROVE  /\ ~PrepareSwitch(plan, c, n).reselect
               /\ ~PrepareSwitch(plan, c, n).active
    BY <2>1, <2>2 DEF PrepareSwitch, NoPlan, Plans
  <2>3. CASE \E t \in Task, d \in Delays : Delay(t, d)
    <3>1. PICK t \in Task, d \in Delays : Delay(t, d)
      BY <2>3
    <3>2. ~plan.active /\ plan' = PrepareSwitch(plan, t, PickNext(ready'))
      BY <3>1, Zenon DEF Delay, DelayIsCoherent
    <3>. QED
      BY <3>2, <2>2, Zenon DEF MaskedWindow
  <2>4. CASE \E t \in Task : Yield(t)
    <3>1. PICK t \in Task : Yield(t)
      BY <2>4
    <3>2. ~plan.active
      BY <3>1, Zenon DEF Yield, InApplication, Executing
    <3>3. CASE plan' = plan
      BY <3>2, <3>3, <1>2 DEF MaskedWindow
    <3>4. CASE plan' = PrepareSwitch(plan, t, PickNext(ready'))
      BY <3>2, <3>4, <2>2, Zenon DEF MaskedWindow
    <3>. QED
      BY <3>1, <3>3, <3>4, Zenon DEF Yield
  <2>5. CASE TickFinish
    BY <2>5, <2>2, <1>2 DEF TickFinish, MaskedWindow
  <2>6. CASE \E e \in Elapsed : TickEnter(e)
    BY <2>6, <1>2 DEF TickEnter, MaskedWindow
  <2>7. CASE TickWake
    BY <2>7, <1>2 DEF TickWake, MaskedWindow
  <2>8. CASE SwitchAcquire
    <3>1. plan' = [plan EXCEPT !.pending = FALSE, !.active = TRUE]
      BY <2>8 DEF SwitchAcquire, AcquirePlan
    <3>2. plan'.reselect = plan.reselect
      BY <3>1, <2>1 DEF Plans
    <3>. QED
      BY <3>2, <2>8, <1>2 DEF SwitchAcquire, PendSVRuns, MaskedWindow
  <2>9. CASE SwitchComplete
    <3>1. plan' = ClearPlan(plan) /\ ~plan.reselect
      BY <2>9, <1>2, Zenon DEF SwitchComplete, MaskedWindow
    <3>. QED
      BY <3>1 DEF ClearPlan, MaskedWindow
  <2>10. CASE TickReturn
    BY <2>10, <1>2 DEF TickReturn, NoTick, MaskedWindow
  <2>11. CASE UNCHANGED <<plan, tick>>
    BY <2>11, <1>2 DEF MaskedWindow
  <2>. QED
    BY <1>2, <2>3, <2>4, <2>5, <2>6, <2>7, <2>8, <2>9, <2>10, <2>11,
       Zenon DEF Next, vars, taskVars, Create, Start, Request, SwitchNoPlan
<1>. QED
  BY <1>1, <1>2, Invariance, PTL DEF Spec

\* Where PendSV masks interrupts, the kernel is a priority scheduler: every
\* switch hands the processor to a runnable task of the highest priority.
THEOREM SchedulerKeepsPromise ==
    ASSUME MaskedSwitch
    PROVE  Spec => KeepsPromise
<1>. USE SchedulerAssumption
<1>1. Init => Promise!Init
  BY DEF Init, InitWith, Promise!Init, Runnable
<1>2. ASSUME IndInv, MaskedWindow, [Next]_vars
      PROVE  [Promise!Next]_(Promise!promiseVars)
  <2>. /\ TypeOK /\ BootCoherent /\ PlanCoherent /\ CurrentCoherent
       /\ TickCoherent /\ QueueMembership /\ DecisionFresh
    BY <1>2 DEF IndInv
  <2>1. PickNext(ready) \in Promise!Top(Runnable)
    BY ReadyHoldsRunnable DEF BootCoherent, Promise!Top
  <2>2. CASE \E t \in Task : Create(t)
    <3>1. PICK t \in Task : Create(t)
      BY <2>2
    <3>2. current = NoTask /\ current' = current /\ t \notin Runnable
      BY <3>1 DEF Create, BootCoherent, Runnable
    <3>3. Runnable' = Runnable \cup {t}
      BY <3>1 DEF Create, Runnable, TypeOK
    <3>. QED
      BY <3>2, <3>3 DEF Promise!Next, Promise!Admit
  <2>3. CASE Start
    <3>1. current = NoTask /\ current' = PickNext(ready)
      BY <2>3 DEF Start, BootCoherent
    <3>2. Runnable' = Runnable
      <4>1. PickNext(ready) \in Runnable
        BY <2>1 DEF Promise!Top
      <4>. QED
        BY <4>1, <2>3 DEF Start, Runnable, TypeOK
    <3>. QED
      BY <3>1, <3>2, <2>1 DEF Promise!Next, Promise!Begin
  <2>4. CASE \E t \in Task, d \in Delays : Delay(t, d)
    <3>1. PICK t \in Task, d \in Delays : Delay(t, d)
      BY <2>4
    <3>2. /\ current = t /\ current' = t /\ t # Idle /\ state[t] = "RUNNING"
          /\ state' = [state EXCEPT ![t] = "BLOCKED"]
      BY <3>1, Zenon DEF Delay, InApplication, Executing, DelayIsCoherent
    <3>3. t \in Runnable /\ Runnable' = Runnable \ {t}
      BY <3>2 DEF Runnable, TypeOK
    <3>. QED
      BY <3>2, <3>3 DEF Promise!Next, Promise!Block
  <2>5. CASE TickWake
    <3> DEFINE t == Head(delayQ)
    <3>1. t \in Task /\ state[t] = "BLOCKED"
      <4>1. delayQ \in Seq(Task) /\ delayQ # << >>
        BY <2>5 DEF TickWake, HeadExpired, TypeOK
      <4>2. t = delayQ[1] /\ 1 \in 1 .. Len(delayQ) /\ t \in Task
        BY <4>1
      <4>. QED
        BY <4>2 DEF QueueMembership, Queued
    <3>2. /\ current' = current
          /\ state' = [state EXCEPT ![t] = IF t = current THEN "RUNNING" ELSE "READY"]
      BY <2>5 DEF TickWake, WokenState
    <3>3. current # NoTask
      BY <2>5 DEF TickWake, TickCoherent, BootCoherent
    <3> HIDE DEF t
    <3>4. t \notin Runnable /\ Runnable' = Runnable \cup {t}
      BY <3>1, <3>2 DEF Runnable, TypeOK
    <3>. QED
      BY <3>1, <3>2, <3>3, <3>4 DEF Promise!Next, Promise!Wake
  <2>6. CASE SwitchComplete
    <3>1. /\ lifecycle = "RUNNING" /\ plan.active /\ tick.phase = "none"
          /\ plan.from = current /\ current \in Task /\ plan.to # current
          /\ state[plan.to] = "READY" /\ plan.to \in Task
          /\ current' = plan.to
      BY <2>6 DEF SwitchComplete, PendSVRuns, PlanCoherent, CurrentCoherent
    <3>2. plan.to = PickNext(ready)
      BY <3>1, <1>2 DEF DecisionFresh, MaskedWindow
    <3>3. state' = [state EXCEPT
                      ![current] = IF @ = "RUNNING" THEN "READY" ELSE @,
                      ![plan.to] = "RUNNING"]
      BY <3>1, <2>6, Zenon DEF SwitchComplete
    <3>4. Runnable' = Runnable
      BY <3>1, <3>3 DEF Runnable, TypeOK
    <3>. QED
      BY <3>1, <3>2, <3>4, <2>1 DEF Promise!Next, Promise!Dispatch
  <2>7. CASE UNCHANGED <<state, current>>
    BY <2>7 DEF Runnable, Promise!promiseVars
  <2>. QED
    BY <1>2, <2>2, <2>3, <2>4, <2>5, <2>6, <2>7,
       Zenon DEF Next, vars, taskVars, Yield, Request, TickEnter, TickFinish, TickReturn,
           SwitchNoPlan, SwitchAcquire
<1>. QED
  BY <1>1, <1>2, Invariance, MaskedWindowHolds, PTL
     DEF Spec, KeepsPromise, Promise!Spec
=============================================================================
