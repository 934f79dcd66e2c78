-------------------------- MODULE LifecycleProofs ---------------------------
(***************************************************************************)
(* The rollbacks of rts_init, rts_task_create and rts_start are exact, for *)
(* every size of the pools and every number of priorities.                 *)
(***************************************************************************)
EXTENDS Lifecycle, KernelQueuesProofs, FiniteSetTheorems

\* A call that is not refused has passed every check.
LEMMA AllChecksPass ==
    ASSUME NEW n \in Nat, NEW checks, DOMAIN checks = 1 .. n,
           FirstFailure(checks) = "OK"
    PROVE  \A i \in 1 .. n : checks[i] = "OK"
<1> DEFINE failed == {i \in DOMAIN checks : checks[i] # "OK"}
<1>1. SUFFICES ASSUME failed # {} PROVE FALSE
  OBVIOUS
<1>2. failed \in SUBSET Nat
  OBVIOUS
<1>3. \E x \in failed : \A y \in failed : x <= y
  BY <1>1, <1>2, LeastNatural
<1>4. Min(failed) \in failed
  BY <1>3 DEF Min
<1>5. checks[Min(failed)] = "OK"
  BY <1>1 DEF FirstFailure
<1>. QED
  BY <1>4, <1>5

\* rts_init works on a kernel in RESET.
LEMMA InitPasses ==
    ASSUME kernel \in KernelType, InitStatus(FALSE) = "OK"
    PROVE  kernel.lifecycle = "RESET"
<1> DEFINE checks == <<Check(FALSE, "INVALID_CONTEXT"),
                       Check(kernel.lifecycle = "INITIALIZED", "ALREADY_INITIALIZED"),
                       Check(kernel.lifecycle = "RUNNING", "ALREADY_STARTED")>>
<1>1. DOMAIN checks = 1 .. 3 /\ FirstFailure(checks) = "OK"
  BY DEF InitStatus
<1>2. \A i \in 1 .. 3 : checks[i] = "OK"
  <2> HIDE DEF checks
  <2>. QED
    BY <1>1, AllChecksPass
<1>3. checks[2] = "OK" /\ checks[3] = "OK"
  BY <1>2
<1>. QED
  BY <1>3 DEF Check, KernelType, Lifecycles

\* rts_task_create works on an initialised kernel with a free slot.
LEMMA CreatePasses ==
    ASSUME NEW config, CreateStatus(config, FALSE) = "OK"
    PROVE  /\ kernel.lifecycle = "INITIALIZED"
           /\ config.priority \in 1 .. MaxPrio
           /\ FreeSlots(kernel.pool) # {}
<1> DEFINE checks == <<Check(config.fields = "no handle", "INVALID_ARGUMENT"),
                       Check(FALSE, "INVALID_CONTEXT"),
                       Check(config.fields = "no config", "INVALID_ARGUMENT"),
                       Check(kernel.lifecycle # "INITIALIZED", "INVALID_STATE"),
                       Check(config.fields = "no entry", "INVALID_TASK_CONFIG"),
                       Check(config.priority \notin 1 .. MaxPrio, "INVALID_PRIORITY"),
                       Check(config.fields = "bad timing", "INVALID_TASK_CONFIG"),
                       Check(config.fields = "bad stack", "INVALID_STACK"),
                       Check(FreeSlots(kernel.pool) = {}, "CAPACITY_EXHAUSTED")>>
<1>1. DOMAIN checks = 1 .. 9
  OBVIOUS
<1>2. FirstFailure(checks) = "OK"
  BY Zenon DEF CreateStatus
<1>3. checks[4] = "OK" /\ checks[6] = "OK" /\ checks[9] = "OK"
  <2> HIDE DEF checks
  <2>1. \A i \in 1 .. 9 : checks[i] = "OK"
    BY <1>1, <1>2, AllChecksPass
  <2>. QED
    BY <2>1
<1>. QED
  BY <1>3 DEF Check

\* rts_start works on an initialised kernel that passes the preflight.
LEMMA StartPasses ==
    ASSUME kernel \in KernelType, StartStatus(FALSE) = "OK"
    PROVE  kernel.lifecycle = "INITIALIZED" /\ PreflightIsCoherent
<1> DEFINE checks == <<Check(FALSE, "INVALID_CONTEXT"),
                       Check(kernel.lifecycle = "RESET", "INVALID_STATE"),
                       Check(kernel.lifecycle = "RUNNING", "ALREADY_STARTED"),
                       Check(~PreflightIsCoherent, "INVALID_STATE")>>
<1>1. DOMAIN checks = 1 .. 4 /\ FirstFailure(checks) = "OK"
  BY DEF StartStatus
<1>2. \A i \in 1 .. 4 : checks[i] = "OK"
  <2> HIDE DEF checks
  <2>. QED
    BY <1>1, AllChecksPass
<1>3. checks[2] = "OK" /\ checks[3] = "OK" /\ checks[4] = "OK"
  BY <1>2
<1>. QED
  BY <1>3 DEF Check, KernelType, Lifecycles

\* rts_timer_init works on an initialised kernel.
LEMMA TimerPasses ==
    ASSUME TimerStatus(TRUE, FALSE) = "OK"
    PROVE  kernel.lifecycle = "INITIALIZED"
<1> DEFINE checks == <<Check(~TRUE, "INVALID_ARGUMENT"),
                       Check(FALSE, "INVALID_CONTEXT"),
                       Check(kernel.lifecycle # "INITIALIZED", "INVALID_STATE"),
                       Check(FreeSlots(timers) = {}, "CAPACITY_EXHAUSTED")>>
<1>1. DOMAIN checks = 1 .. 4 /\ FirstFailure(checks) = "OK"
  BY DEF TimerStatus
<1>2. \A i \in 1 .. 4 : checks[i] = "OK"
  <2> HIDE DEF checks
  <2>. QED
    BY <1>1, AllChecksPass
<1>3. checks[3] = "OK"
  BY <1>2
<1>. QED
  BY <1>3 DEF Check
-----------------------------------------------------------------------------
\* The pool has the configured number of slots.
LEMMA PoolSize == Cardinality(TaskSlots) = MaxTasks
<1>1. 0 \in Int /\ MaxTasks - 1 \in Int /\ 0 <= MaxTasks
  BY LifecycleAssumption
<1>2. Cardinality(0 .. (MaxTasks - 1)) = MaxTasks
  BY <1>1, FS_Interval, LifecycleAssumption
<1>. QED
  BY <1>2 DEF TaskSlots

\* Slots handed out in order leave the scan nothing to skip.
LEMMA FirstFreeIsHint ==
    ASSUME NEW pool, InOrder(pool), DOMAIN pool.slot = TaskSlots,
           pool.hint \in TaskSlots, FreeSlots(pool) # {}
    PROVE  /\ FirstFree(pool) = pool.hint
           /\ \A i \in TaskSlots : pool.slot[i] = IF i < pool.hint THEN "ALLOCATED" ELSE "FREE"
<1>1. Cardinality(TaskSlots) = MaxTasks
  BY PoolSize
<1>2. \A i \in TaskSlots : pool.slot[i] = IF i < pool.hint THEN "ALLOCATED" ELSE "FREE"
  BY DEF InOrder, FreeSlots
<1>3. \A i \in FreeSlots(pool) : i \in TaskSlots /\ i >= pool.hint
  BY <1>2 DEF FreeSlots, TaskSlots
<1>4. \A i \in FreeSlots(pool) : (i - pool.hint) % MaxTasks = i - pool.hint
  BY <1>3, LifecycleAssumption DEF TaskSlots
<1>5. pool.hint \in FreeSlots(pool)
  BY <1>2 DEF FreeSlots, TaskSlots
<1> DEFINE Nearest(i) == \A j \in FreeSlots(pool) :
                            (i - pool.hint) % MaxTasks <= (j - pool.hint) % MaxTasks
<1>6. Nearest(pool.hint)
  BY <1>3, <1>4, <1>5 DEF TaskSlots
<1>7. \A i \in FreeSlots(pool) : Nearest(i) => i = pool.hint
  BY <1>3, <1>4, <1>5 DEF TaskSlots
<1>8. FirstFree(pool) = CHOOSE i \in FreeSlots(pool) : Nearest(i)
  BY <1>1 DEF FirstFree
<1> HIDE DEF Nearest
<1>. QED
  BY <1>2, <1>5, <1>6, <1>7, <1>8
-----------------------------------------------------------------------------
\* A kernel is determined by its fields.
LEMMA KernelFields ==
    ASSUME NEW k \in KernelType, NEW m \in KernelType,
           k.lifecycle = m.lifecycle, k.pool = m.pool, k.object = m.object,
           k.ready = m.ready, k.internal = m.internal, k.current = m.current
    PROVE  k = m
BY DEF KernelType

\* Setting the state of one task.
LEMMA StateUpdate ==
    ASSUME NEW o \in Objects, NEW t \in Tasks,
           NEW s \in States,
           NEW m, m = [o EXCEPT ![t].state = s]
    PROVE  /\ m \in Objects
           /\ m[t].state = s /\ m[t].priority = o[t].priority /\ m[t].stack = o[t].stack
           /\ \A u \in Tasks \ {t} : m[u] = o[u]
<1>1. o[t] \in ObjectType
  BY DEF Objects
<1>2. [o[t] EXCEPT !.state = s] \in ObjectType
  BY <1>1 DEF ObjectType
<1>3. /\ [o[t] EXCEPT !.state = s].state = s
      /\ [o[t] EXCEPT !.state = s].priority = o[t].priority
      /\ [o[t] EXCEPT !.state = s].stack = o[t].stack
  BY <1>1 DEF ObjectType
<1>4. m = [o EXCEPT ![t] = [o[t] EXCEPT !.state = s]]
  OBVIOUS
<1> DEFINE v == [o[t] EXCEPT !.state = s]
<1> HIDE DEF v
<1>5. m = [o EXCEPT ![t] = v] /\ v \in ObjectType
  BY <1>2, <1>4 DEF v
<1>6. m \in Objects /\ m[t] = v /\ \A u \in Tasks \ {t} : m[u] = o[u]
  BY <1>5 DEF Objects
<1>. QED
  BY <1>3, <1>6 DEF v

\* A reservation keeps the pool well formed.
LEMMA ReserveType ==
    ASSUME NEW pool \in PoolType, NEW i \in TaskSlots
    PROVE  Reserve(pool, i) \in PoolType
<1> DEFINE s == [pool.slot EXCEPT ![i] = "RESERVED"]
           n == (i + 1) % Cardinality(DOMAIN pool.slot)
<1>1. s \in [TaskSlots -> {"FREE", "RESERVED", "ALLOCATED"}]
  BY DEF PoolType
<1>2. DOMAIN pool.slot = TaskSlots
  BY DEF PoolType
<1>3. n \in TaskSlots
  BY <1>2, PoolSize, LifecycleAssumption DEF TaskSlots
<1>4. Reserve(pool, i) = [pool EXCEPT !.slot = s, !.hint = n]
  BY DEF Reserve
<1> HIDE DEF s, n
<1>. QED
  BY <1>1, <1>3, <1>4 DEF PoolType

\* Returning the slot that was just reserved gives the pool back.
LEMMA ReserveThenRollback ==
    ASSUME NEW pool \in PoolType, pool.slot[pool.hint] = "FREE"
    PROVE  Rollback(Reserve(pool, pool.hint), pool.hint) = pool
<1> DEFINE back == Rollback(Reserve(pool, pool.hint), pool.hint)
           SlotType == [TaskSlots -> {"FREE", "RESERVED", "ALLOCATED"}]
           s == [pool.slot EXCEPT ![pool.hint] = "RESERVED"]
           n == (pool.hint + 1) % Cardinality(DOMAIN pool.slot)
<1>1. pool.slot \in SlotType /\ pool.hint \in TaskSlots
  BY DEF PoolType
<1>2. s \in SlotType /\ [s EXCEPT ![pool.hint] = "FREE"] = pool.slot
  BY <1>1
<1>3. Reserve(pool, pool.hint) = [pool EXCEPT !.slot = s, !.hint = n]
  BY DEF Reserve
<1> HIDE DEF s, n, SlotType
<1>4. /\ [pool EXCEPT !.slot = s, !.hint = n].slot = s
      /\ [[pool EXCEPT !.slot = s, !.hint = n] EXCEPT !.slot = pool.slot, !.hint = pool.hint]
            = pool
  BY DEF PoolType
<1>. QED
  BY <1>2, <1>3, <1>4 DEF Rollback

\* Undoing a creation whose stack was refused gives the kernel back.
LEMMA CreateRollbackIsExact ==
    ASSUME RollbackInv, NEW config, CreateStatus(config, FALSE) = "OK"
    PROVE  LET i == FirstFree(kernel.pool)
           IN  CreateRollback(Prepared(kernel, i, config), i) = kernel
<1> DEFINE i == kernel.pool.hint
           back == CreateRollback(Prepared(kernel, i, config), i)
<1>1. /\ kernel \in KernelType /\ kernel.pool \in PoolType /\ kernel.object \in Objects
      /\ i \in TaskSlots /\ DOMAIN kernel.pool.slot = TaskSlots
  <2>1. kernel \in KernelType
    BY DEF RollbackInv
  <2>2. kernel.pool \in PoolType /\ kernel.object \in Objects
    BY <2>1 DEF KernelType
  <2>. QED
    BY <2>1, <2>2 DEF PoolType
<1>2. FirstFree(kernel.pool) = i /\ kernel.pool.slot[i] = "FREE"
  <2>1. InOrder(kernel.pool)
    BY DEF RollbackInv
  <2>2. /\ FirstFree(kernel.pool) = i
        /\ \A j \in TaskSlots :
              kernel.pool.slot[j] = IF j < i THEN "ALLOCATED" ELSE "FREE"
    BY <1>1, <2>1, FirstFreeIsHint, CreatePasses
  <2>. QED
    BY <1>1, <2>2 DEF TaskSlots
<1>3. kernel.object[i] = ZeroObject
  BY <1>1, <1>2 DEF RollbackInv
<1> DEFINE mid == Prepared(kernel, i, config)
           o == [kernel.object EXCEPT ![i] = Object("DORMANT", config.priority)]
<1>4. o \in Objects
  <2>1. config.priority \in 1 .. MaxPrio
    BY CreatePasses
  <2>2. Object("DORMANT", config.priority) \in ObjectType
    BY <2>1 DEF Object, ObjectType, States
  <2>. QED
    BY <1>1, <2>2 DEF Objects
<1>5. /\ mid \in KernelType /\ mid.pool = Reserve(kernel.pool, i) /\ mid.object = o
      /\ mid.lifecycle = kernel.lifecycle /\ mid.ready = kernel.ready
      /\ mid.internal = kernel.internal /\ mid.current = kernel.current
  <2>1. Reserve(kernel.pool, i) \in PoolType
    BY <1>1, ReserveType
  <2>2. mid = [kernel EXCEPT !.pool = Reserve(kernel.pool, i), !.object = o]
    BY DEF Prepared
  <2> HIDE DEF mid, o
  <2>. QED
    BY <1>1, <1>4, <2>1, <2>2 DEF KernelType
<1>6. [o EXCEPT ![i] = ZeroObject] = kernel.object
  BY <1>1, <1>3 DEF Objects, Tasks
<1> HIDE DEF mid, o
<1>7. back = [mid EXCEPT !.pool = kernel.pool, !.object = kernel.object]
  <2>1. back = [mid EXCEPT !.pool = Rollback(mid.pool, i),
                           !.object = [mid.object EXCEPT ![i] = ZeroObject]]
    BY DEF CreateRollback, mid
  <2>2. Rollback(mid.pool, i) = kernel.pool
    BY <1>1, <1>2, <1>5, ReserveThenRollback
  <2>. QED
    BY <1>5, <1>6, <2>1, <2>2
<1>8. back = kernel
  <2> HIDE DEF back
  <2>1. /\ back \in KernelType /\ back.pool = kernel.pool /\ back.object = kernel.object
        /\ back.lifecycle = mid.lifecycle /\ back.ready = mid.ready
        /\ back.internal = mid.internal /\ back.current = mid.current
    BY <1>1, <1>5, <1>7 DEF KernelType
  <2>. QED
    BY <1>1, <1>5, <2>1, KernelFields
<1>. QED
  BY <1>2, <1>8

\* The task that rts_start selects is one of the queued tasks.
LEMMA SelectedIsQueued ==
    ASSUME kernel \in KernelType, PreflightIsCoherent
    PROVE  \E p \in 0 .. MaxPrio : \E n \in 1 .. Len(kernel.ready[p]) :
              PickNext(kernel.ready) = kernel.ready[p][n]
<1> DEFINE S == {p \in DOMAIN kernel.ready : kernel.ready[p] # << >>}
<1>1. /\ kernel.ready \in [0 .. MaxPrio -> Seq(Tasks)]
      /\ MaxPrio \in Nat
  BY LifecycleAssumption DEF KernelType
<1>2. kernel.ready[0] # << >>
  BY <1>1 DEF PreflightIsCoherent, Queued
<1>3. S \in SUBSET (0 .. MaxPrio) /\ S # {}
  BY <1>1, <1>2
<1>4. Highest(kernel.ready) \in S
  BY <1>1, <1>3, MaxProperties DEF Highest
<1> DEFINE q == kernel.ready[Highest(kernel.ready)]
<1>5. Highest(kernel.ready) \in 0 .. MaxPrio /\ q \in Seq(Tasks) /\ q # << >>
  BY <1>1, <1>4
<1>6. 1 \in 1 .. Len(q) /\ Head(q) = q[1]
  <2> HIDE DEF q
  <2>. QED
    BY <1>5
<1>. QED
  BY <1>5, <1>6 DEF PickNext

\* rts_start makes a ready task the current one and touches no other task.
LEMMA EstablishedFacts ==
    ASSUME RollbackInv, StartStatus(FALSE) = "OK"
    PROVE  LET first == PickNext(kernel.ready)
               up == Established(kernel)
           IN  /\ kernel.lifecycle = "INITIALIZED" /\ kernel.current = NoTask
               /\ first \in Tasks /\ kernel.object[first].state = "READY"
               /\ up \in KernelType /\ up.lifecycle = "RUNNING" /\ up.current = first
               /\ up.object[first].priority = kernel.object[first].priority
               /\ up.object[first].stack = kernel.object[first].stack
               /\ \A u \in Tasks \ {first} : up.object[u] = kernel.object[u]
               /\ up.pool = kernel.pool /\ up.ready = kernel.ready
               /\ up.internal = kernel.internal
<1> DEFINE first == PickNext(kernel.ready)
<1>1. kernel \in KernelType
  BY DEF RollbackInv
<1>2. kernel.lifecycle = "INITIALIZED" /\ PreflightIsCoherent
  BY <1>1, StartPasses
<1>3. PICK p \in 0 .. MaxPrio : \E n \in 1 .. Len(kernel.ready[p]) : first = kernel.ready[p][n]
  BY <1>1, <1>2, SelectedIsQueued
<1>4. first \in Tasks
  <2>1. kernel.ready[p] \in Seq(Tasks)
    BY <1>1 DEF KernelType
  <2> HIDE DEF first
  <2>. QED
    BY <1>3, <2>1
<1>5. kernel.object[first].state = "READY" /\ kernel.current = NoTask
  BY <1>2, <1>3 DEF RollbackInv
<1> HIDE DEF first
<1> DEFINE up == Established(kernel)
           o == [kernel.object EXCEPT ![first].state = "RUNNING"]
<1>6. kernel.object \in Objects
  BY <1>1 DEF KernelType
<1>7. /\ o \in Objects
      /\ o[first].priority = kernel.object[first].priority
      /\ o[first].stack = kernel.object[first].stack
      /\ \A u \in Tasks \ {first} : o[u] = kernel.object[u]
  BY <1>4, <1>6, StateUpdate DEF States
<1>8. /\ up \in KernelType /\ up.lifecycle = "RUNNING" /\ up.object = o /\ up.current = first
      /\ up.pool = kernel.pool /\ up.ready = kernel.ready /\ up.internal = kernel.internal
  <2>1. up = [kernel EXCEPT !.lifecycle = "RUNNING", !.object = o, !.current = first]
    BY DEF Established, first
  <2>2. "RUNNING" \in Lifecycles
    BY DEF Lifecycles
  <2> HIDE DEF up, o
  <2>. QED
    BY <1>1, <1>4, <1>7, <2>1, <2>2 DEF KernelType
<1> HIDE DEF up, o
<1>9. /\ up.object[first].priority = kernel.object[first].priority
      /\ up.object[first].stack = kernel.object[first].stack
      /\ \A u \in Tasks \ {first} : up.object[u] = kernel.object[u]
  BY <1>7, <1>8
<1>. QED
  BY <1>2, <1>4, <1>5, <1>8, <1>9 DEF up, first

\* Undoing a start gives the kernel back.
LEMMA StartRollbackIsExact ==
    ASSUME RollbackInv, StartStatus(FALSE) = "OK"
    PROVE  StartRollback(Established(kernel)) = kernel
<1> DEFINE first == PickNext(kernel.ready)
           up == Established(kernel)
           back == StartRollback(up)
           q == [up.object EXCEPT ![first].state = "READY"]
<1>1. /\ kernel.lifecycle = "INITIALIZED" /\ kernel.current = NoTask
      /\ first \in Tasks /\ kernel.object[first].state = "READY"
      /\ up \in KernelType /\ up.current = first
      /\ up.object[first].priority = kernel.object[first].priority
      /\ up.object[first].stack = kernel.object[first].stack
      /\ \A u \in Tasks \ {first} : up.object[u] = kernel.object[u]
      /\ up.pool = kernel.pool /\ up.ready = kernel.ready
      /\ up.internal = kernel.internal
  BY EstablishedFacts
<1>2. kernel \in KernelType
  BY DEF RollbackInv
<1> HIDE DEF first, up
<1>3. kernel.object \in Objects /\ up.object \in Objects
  BY <1>1, <1>2 DEF KernelType
<1>4. q = kernel.object
  <2>1. /\ q \in Objects /\ q[first].state = "READY"
        /\ q[first].priority = up.object[first].priority
        /\ q[first].stack = up.object[first].stack
        /\ \A u \in Tasks \ {first} : q[u] = up.object[u]
    BY <1>1, <1>3, StateUpdate DEF States
  <2> HIDE DEF q
  <2>2. q[first] \in ObjectType /\ kernel.object[first] \in ObjectType
    BY <1>1, <1>3, <2>1 DEF Objects
  <2>3. q[first] = kernel.object[first]
    BY <1>1, <2>1, <2>2 DEF ObjectType
  <2>. QED
    BY <1>1, <1>3, <2>1, <2>3 DEF Objects
<1>5. back = [up EXCEPT !.lifecycle = "INITIALIZED", !.object = kernel.object,
                        !.current = NoTask]
  <2>1. back = [up EXCEPT !.lifecycle = "INITIALIZED",
                          !.object = [up.object EXCEPT ![up.current].state = "READY"],
                          !.current = NoTask]
    BY DEF StartRollback
  <2> HIDE DEF back
  <2>. QED
    BY <1>1, <1>4, <2>1
<1>6. "INITIALIZED" \in Lifecycles
  BY DEF Lifecycles
<1> HIDE DEF back
<1>7. /\ back \in KernelType /\ back.lifecycle = "INITIALIZED"
      /\ back.object = kernel.object /\ back.current = NoTask
      /\ back.pool = up.pool /\ back.ready = up.ready /\ back.internal = up.internal
  BY <1>1, <1>3, <1>5, <1>6 DEF KernelType
<1>8. back = kernel
  BY <1>1, <1>2, <1>7, KernelFields
<1>. QED
  BY <1>8 DEF back, up
-----------------------------------------------------------------------------
\* The static-zero aggregate satisfies the invariant.
LEMMA ZeroKernelFacts ==
    /\ ZeroKernel \in KernelType
    /\ InOrder(ZeroKernel.pool)
    /\ \A i \in TaskSlots : ZeroKernel.object[i] = ZeroObject
    /\ ZeroKernel.lifecycle = "RESET"
    /\ \A p \in 0 .. MaxPrio : ZeroKernel.ready[p] = << >>
<1>1. EmptyPool(TaskSlots) \in PoolType /\ InOrder(EmptyPool(TaskSlots))
  BY LifecycleAssumption DEF EmptyPool, PoolType, InOrder, TaskSlots
<1>2. ZeroObject \in ObjectType
  BY LifecycleAssumption DEF ZeroObject, ObjectType, States
<1>3. [t \in Tasks |-> ZeroObject] \in Objects
  BY <1>2 DEF Objects
<1>4. [p \in 0 .. MaxPrio |-> << >>] \in [0 .. MaxPrio -> Seq(Tasks)]
  OBVIOUS
<1>5. /\ ZeroKernel.pool = EmptyPool(TaskSlots)
      /\ ZeroKernel.object = [t \in Tasks |-> ZeroObject]
      /\ ZeroKernel.lifecycle = "RESET"
      /\ ZeroKernel.ready = [p \in 0 .. MaxPrio |-> << >>]
  BY DEF ZeroKernel, Tasks
<1>6. ZeroKernel \in KernelType
  BY <1>1, <1>3, <1>4 DEF ZeroKernel, KernelType, Lifecycles, Tasks
<1>. QED
  BY <1>1, <1>5, <1>6 DEF Tasks

\* The program starts in a state of the invariant.
LEMMA RollbackInvInit == Init => RollbackInv
<1>1. SUFFICES ASSUME Init PROVE RollbackInv
  OBVIOUS
<1>2. kernel = ZeroKernel /\ timers = EmptyPool(TimerSlots) /\ handoff = "none"
  BY <1>1 DEF Init
<1>. QED
  BY <1>2, ZeroKernelFacts DEF RollbackInv

\* A step that leaves the kernel alone keeps the invariant.
LEMMA KernelUnchanged ==
    ASSUME RollbackInv, kernel' = kernel, UNCHANGED handoff, handoff # "valid",
           kernel.lifecycle = "RESET" => timers' = timers,
           kernel.lifecycle = "INITIALIZED" => tick' = tick
    PROVE  RollbackInv'
BY DEF RollbackInv

\* A task object with its stack and its state.
LEMMA ObjectWithStack ==
    ASSUME NEW o \in ObjectType, NEW s \in States
    PROVE  /\ BuildStack(o) \in ObjectType
           /\ [BuildStack(o) EXCEPT !.state = s] \in ObjectType
           /\ [BuildStack(o) EXCEPT !.state = s].state = s
<1>1. BuildStack(o) \in ObjectType
  BY DEF BuildStack, ObjectType
<1> DEFINE b == BuildStack(o)
<1> HIDE DEF b
<1>2. b \in ObjectType
  BY <1>1 DEF b
<1>3. [b EXCEPT !.state = s] \in ObjectType /\ [b EXCEPT !.state = s].state = s
  BY <1>2 DEF ObjectType
<1>. QED
  BY <1>1, <1>3 DEF b

\* rts_init publishes the idle task, which is ready, and the service task.
LEMMA BootstrappedFacts ==
    /\ Bootstrapped \in KernelType
    /\ Bootstrapped.lifecycle = "INITIALIZED" /\ Bootstrapped.current = NoTask
    /\ Bootstrapped.pool = ZeroKernel.pool
    /\ \A i \in TaskSlots : Bootstrapped.object[i] = ZeroObject
    /\ \A p \in 0 .. MaxPrio : \A n \in 1 .. Len(Bootstrapped.ready[p]) :
          Bootstrapped.object[Bootstrapped.ready[p][n]].state = "READY"
<1> DEFINE so == BuildStack(ServiceObject)
           io == [BuildStack(IdleObject) EXCEPT !.state = "READY"]
           o == [ZeroKernel.object EXCEPT ![Service] = so, ![Idle] = io]
           q == ReadyInsert(ZeroKernel.ready, 0, Idle)
<1>1. so \in ObjectType /\ io \in ObjectType /\ io.state = "READY"
  <2>1. ServiceObject \in ObjectType /\ IdleObject \in ObjectType /\ "READY" \in States
    BY LifecycleAssumption DEF ServiceObject, IdleObject, Object, ObjectType, States
  <2>. QED
    BY <2>1, ObjectWithStack
<1> HIDE DEF so, io
<1>2. ZeroKernel.object \in Objects /\ ZeroKernel.current = NoTask
  BY ZeroKernelFacts DEF KernelType, ZeroKernel
<1>3. /\ o \in Objects /\ o[Idle] = io
      /\ \A i \in TaskSlots : o[i] = ZeroObject
  BY <1>1, <1>2, ZeroKernelFacts, LifecycleAssumption DEF Objects, Tasks, TaskSlots
<1>4. /\ q \in [0 .. MaxPrio -> Seq(Tasks)]
      /\ q[0] = <<Idle>>
      /\ \A p \in 1 .. MaxPrio : q[p] = << >>
  <2>1. ZeroKernel.ready \in [0 .. MaxPrio -> Seq(Tasks)] /\ 0 \in 0 .. MaxPrio
    BY ZeroKernelFacts, LifecycleAssumption DEF KernelType
  <2>2. ZeroKernel.ready[0] = << >> /\ <<Idle>> \in Seq(Tasks)
    BY <2>1, ZeroKernelFacts DEF Tasks
  <2>3. q = [ZeroKernel.ready EXCEPT ![0] = <<Idle>>]
    BY <2>1, <2>2 DEF ReadyInsert
  <2> DEFINE r == ZeroKernel.ready
             front == <<Idle>>
  <2>4. /\ r \in [0 .. MaxPrio -> Seq(Tasks)] /\ front \in Seq(Tasks)
        /\ \A p \in 1 .. MaxPrio : p \in 0 .. MaxPrio /\ p # 0 /\ r[p] = << >>
    BY <2>1, <2>2, ZeroKernelFacts, LifecycleAssumption
  <2>5. q = [r EXCEPT ![0] = front]
    BY <2>3
  <2> HIDE DEF r, front, q
  <2>6. /\ q \in [0 .. MaxPrio -> Seq(Tasks)]
        /\ q[0] = front
        /\ \A p \in 1 .. MaxPrio : q[p] = << >>
    BY <2>1, <2>4, <2>5
  <2>. QED
    BY <2>6 DEF front
<1>5. Bootstrapped = [ZeroKernel EXCEPT !.lifecycle = "INITIALIZED", !.object = o,
                                        !.ready = q, !.internal = {Idle, Service}]
  BY DEF Bootstrapped, so, io
<1> HIDE DEF o, q
<1>6. /\ Bootstrapped \in KernelType
      /\ Bootstrapped.lifecycle = "INITIALIZED" /\ Bootstrapped.current = NoTask
      /\ Bootstrapped.pool = ZeroKernel.pool
      /\ Bootstrapped.object = o /\ Bootstrapped.ready = q
  BY <1>2, <1>3, <1>4, <1>5, ZeroKernelFacts DEF KernelType, Lifecycles
<1>7. ASSUME NEW p \in 0 .. MaxPrio, NEW n \in 1 .. Len(q[p])
      PROVE  o[q[p][n]].state = "READY"
  <2>1. p = 0 \/ p \in 1 .. MaxPrio
    BY LifecycleAssumption
  <2>2. q[p] = <<Idle>> /\ n = 1
    <3>1. CASE p = 0
      <4>1. q[p] = <<Idle>>
        BY <1>4, <3>1
      <4>2. Len(q[p]) = 1
        BY <4>1
      <4>. QED
        BY <4>1, <4>2
    <3>2. CASE p \in 1 .. MaxPrio
      BY <1>4, <3>2
    <3>. QED
      BY <2>1, <3>1, <3>2
  <2>. QED
    BY <1>1, <1>3, <2>2
<1>. QED
  BY <1>3, <1>6, <1>7

\* rts_init establishes the invariant of an initialised kernel.
LEMMA InitSucceedsInv ==
    ASSUME RollbackInv, InitSucceeds
    PROVE  RollbackInv'
<1>1. kernel \in KernelType /\ kernel.lifecycle = "RESET" /\ handoff = "none"
  BY InitPasses DEF RollbackInv, InitSucceeds
<1>2. kernel' = Bootstrapped /\ tick' = "READY" /\ handoff' = "none"
  BY <1>1 DEF InitSucceeds
<1>. QED
  BY <1>2, BootstrappedFacts, ZeroKernelFacts DEF RollbackInv

\* Handing out the slot at the hint keeps the slots in order.
LEMMA CommitInOrder ==
    ASSUME NEW pool \in PoolType, InOrder(pool), FreeSlots(pool) # {},
           NEW m, m = Commit(Reserve(pool, pool.hint), pool.hint)
    PROVE  /\ m \in PoolType /\ InOrder(m)
           /\ m.slot[pool.hint] = "ALLOCATED"
           /\ \A i \in TaskSlots \ {pool.hint} : m.slot[i] = pool.slot[i]
<1> DEFINE h == pool.hint
           s == [pool.slot EXCEPT ![h] = "RESERVED"]
           t == [s EXCEPT ![h] = "ALLOCATED"]
           n == (h + 1) % Cardinality(DOMAIN pool.slot)
<1>1. /\ pool.slot \in [TaskSlots -> {"FREE", "RESERVED", "ALLOCATED"}]
      /\ DOMAIN pool.slot = TaskSlots
      /\ h \in TaskSlots /\ pool.count \in Nat
  BY DEF PoolType
<1>2. \A i \in TaskSlots : pool.slot[i] = IF i < h THEN "ALLOCATED" ELSE "FREE"
  BY <1>1, FirstFreeIsHint
<1>3. /\ t \in [TaskSlots -> {"FREE", "RESERVED", "ALLOCATED"}]
      /\ t[h] = "ALLOCATED" /\ \A i \in TaskSlots \ {h} : t[i] = pool.slot[i]
  BY <1>1
<1>4. n \in TaskSlots /\ n = IF h + 1 = MaxTasks THEN 0 ELSE h + 1
  BY <1>1, PoolSize, LifecycleAssumption DEF TaskSlots
<1>5. /\ Reserve(pool, h).slot = s /\ Reserve(pool, h).count = pool.count
      /\ Reserve(pool, h).hint = n /\ Reserve(pool, h) \in PoolType
  <2>1. Reserve(pool, h) = [pool EXCEPT !.slot = s, !.hint = n]
    BY DEF Reserve
  <2>2. Reserve(pool, h) \in PoolType
    BY <1>1, ReserveType
  <2> HIDE DEF s, n
  <2>. QED
    BY <2>1, <2>2 DEF PoolType
<1>6. m.slot = t /\ m.hint = n /\ m \in PoolType
  <2> DEFINE res == Reserve(pool, h)
  <2>1. m = [res EXCEPT !.slot = t, !.count = pool.count + 1]
    BY <1>5 DEF Commit
  <2>2. res \in PoolType /\ res.hint = n
    BY <1>5
  <2> DEFINE c == pool.count + 1
  <2>3. c \in Nat
    BY <1>1
  <2> HIDE DEF t, n, res, c
  <2>4. m = [res EXCEPT !.slot = t, !.count = c]
    BY <2>1 DEF c
  <2>. QED
    BY <1>3, <2>2, <2>3, <2>4 DEF PoolType
<1> HIDE DEF t, n
<1>7. InOrder(m)
  <2>1. CASE h + 1 = MaxTasks
    <3>1. m.hint = 0
      BY <1>4, <1>6, <2>1
    <3>2. \A i \in TaskSlots : t[i] = "ALLOCATED"
      BY <1>1, <1>2, <1>3, <2>1, LifecycleAssumption DEF TaskSlots
    <3>3. DOMAIN m.slot = TaskSlots
      BY <1>3, <1>6
    <3>. QED
      BY <1>6, <3>1, <3>2, <3>3 DEF InOrder
  <2>2. CASE h + 1 # MaxTasks
    BY <1>1, <1>2, <1>3, <1>4, <1>6, <2>2 DEF InOrder, TaskSlots
  <2>. QED
    BY <2>1, <2>2
<1>. QED
  BY <1>3, <1>6, <1>7

\* A creation publishes one ready task in the next slot.
LEMMA CreateSucceedsInv ==
    ASSUME RollbackInv, NEW config, CreateSucceeds(config)
    PROVE  RollbackInv'
<1> DEFINE i == kernel.pool.hint
           b == Object("DORMANT", config.priority)
           v == [BuildStack(b) EXCEPT !.state = "READY"]
           mid == Prepared(kernel, i, config)
           o == [kernel.object EXCEPT ![i] = v]
           q == ReadyInsert(kernel.ready, config.priority, i)
           pl == Commit(Reserve(kernel.pool, i), i)
<1>1. /\ kernel.lifecycle = "INITIALIZED" /\ config.priority \in 1 .. MaxPrio
      /\ FreeSlots(kernel.pool) # {}
  BY CreatePasses DEF CreateSucceeds
<1>2. /\ kernel \in KernelType /\ kernel.pool \in PoolType /\ kernel.object \in Objects
      /\ kernel.ready \in [0 .. MaxPrio -> Seq(Tasks)]
  <2>1. kernel \in KernelType
    BY DEF RollbackInv
  <2>. QED
    BY <2>1 DEF KernelType
<1>3. i \in TaskSlots /\ DOMAIN kernel.pool.slot = TaskSlots
  BY <1>2 DEF PoolType
<1>4. /\ FirstFree(kernel.pool) = i
      /\ kernel.pool.slot[i] = "FREE"
  <2>1. InOrder(kernel.pool)
    BY DEF RollbackInv
  <2>2. /\ FirstFree(kernel.pool) = i
        /\ \A j \in TaskSlots :
              kernel.pool.slot[j] = IF j < i THEN "ALLOCATED" ELSE "FREE"
    BY <1>1, <1>3, <2>1, FirstFreeIsHint
  <2>. QED
    BY <1>3, <2>2 DEF TaskSlots
<1>5. /\ pl \in PoolType /\ InOrder(pl) /\ pl.slot[i] = "ALLOCATED"
      /\ \A j \in TaskSlots \ {i} : pl.slot[j] = kernel.pool.slot[j]
  <2>1. InOrder(kernel.pool)
    BY DEF RollbackInv
  <2>. QED
    BY <1>1, <1>2, <2>1, CommitInOrder
<1>6. b \in ObjectType /\ v \in ObjectType /\ v.state = "READY"
  <2>1. b \in ObjectType /\ "READY" \in States
    BY <1>1 DEF Object, ObjectType, States
  <2>. QED
    BY <2>1, ObjectWithStack
<1>7. /\ o \in Objects /\ o[i] = v
      /\ \A t \in Tasks \ {i} : o[t] = kernel.object[t]
  <2> HIDE DEF v
  <2>. QED
    BY <1>2, <1>3, <1>6 DEF Objects, Tasks
<1>8. /\ q \in [0 .. MaxPrio -> Seq(Tasks)]
      /\ \A p \in 0 .. MaxPrio : \A n \in 1 .. Len(q[p]) :
            \/ q[p][n] = i
            \/ \E j \in 1 .. Len(kernel.ready[p]) : q[p][n] = kernel.ready[p][j]
  <2> DEFINE pr == config.priority
             a == Append(kernel.ready[pr], i)
  <2>0. pr \in 0 .. MaxPrio
    BY <1>1, LifecycleAssumption
  <2>1. pr \in 0 .. MaxPrio /\ i \in Tasks /\ kernel.ready[pr] \in Seq(Tasks)
    BY <1>2, <1>3, <2>0 DEF Tasks
  <2>2. /\ a \in Seq(Tasks)
        /\ \A n \in 1 .. Len(a) :
              \/ a[n] = i
              \/ \E j \in 1 .. Len(kernel.ready[pr]) : a[n] = kernel.ready[pr][j]
    BY <2>1
  <2>3. q = [kernel.ready EXCEPT ![pr] = a]
    BY DEF ReadyInsert
  <2> HIDE DEF a, q, pr
  <2>4. q \in [0 .. MaxPrio -> Seq(Tasks)] /\ q[pr] = a
        /\ \A p \in 0 .. MaxPrio : p # pr => q[p] = kernel.ready[p]
    BY <1>2, <2>1, <2>2, <2>3
  <2>. QED
    BY <2>2, <2>4
<1>9. kernel' \in KernelType /\ kernel'.pool = pl /\ kernel'.object = o /\ kernel'.ready = q
      /\ kernel'.lifecycle = "INITIALIZED" /\ kernel'.current = kernel.current
  <2>1. kernel' = [mid EXCEPT
            !.object = [mid.object EXCEPT ![i] = [BuildStack(mid.object[i]) EXCEPT !.state = "READY"]],
            !.ready = ReadyInsert(mid.ready, config.priority, i),
            !.pool = Commit(mid.pool, i)]
    <3> DEFINE f == FirstFree(kernel.pool)
               k == Prepared(kernel, f, config)
    <3>1. kernel' = [k EXCEPT
            !.object = [k.object EXCEPT ![f] = [BuildStack(k.object[f]) EXCEPT !.state = "READY"]],
            !.ready = ReadyInsert(k.ready, config.priority, f),
            !.pool = Commit(k.pool, f)]
      BY DEF CreateSucceeds
    <3>2. f = i
      BY <1>4
    <3> HIDE DEF f
    <3>. QED
      BY <3>1, <3>2
  <2> DEFINE w == [kernel.object EXCEPT ![i] = b]
  <2>2. w \in Objects /\ w[i] = b /\ [w EXCEPT ![i] = v] = o
    <3> HIDE DEF b, v
    <3>. QED
      BY <1>2, <1>3, <1>6 DEF Objects, Tasks
  <2>3. mid = [kernel EXCEPT !.pool = Reserve(kernel.pool, i), !.object = w]
    BY DEF Prepared
  <2>4. Reserve(kernel.pool, i) \in PoolType
    BY <1>2, <1>3, ReserveType
  <2> HIDE DEF mid, w
  <2>5. /\ mid \in KernelType /\ mid.pool = Reserve(kernel.pool, i) /\ mid.object = w
        /\ mid.lifecycle = kernel.lifecycle /\ mid.ready = kernel.ready
        /\ mid.internal = kernel.internal /\ mid.current = kernel.current
    BY <1>2, <2>2, <2>3, <2>4 DEF KernelType
  <2>6. kernel' = [mid EXCEPT !.object = o, !.ready = q, !.pool = pl]
    BY <2>1, <2>2, <2>5
  <2> HIDE DEF o, q, pl
  <2>. QED
    BY <1>1, <1>5, <1>7, <1>8, <2>5, <2>6 DEF KernelType
<1> HIDE DEF o, q, pl, v, mid, b
<1>10. \A j \in TaskSlots : pl.slot[j] = "FREE" => o[j] = ZeroObject
  BY <1>3, <1>5, <1>7 DEF RollbackInv, Tasks
<1>11. ASSUME NEW p \in 0 .. MaxPrio, NEW n \in 1 .. Len(q[p])
       PROVE  o[q[p][n]].state = "READY"
  <2>1. CASE q[p][n] = i
    BY <1>6, <1>7, <2>1
  <2>2. CASE q[p][n] # i
    <3>1. PICK j \in 1 .. Len(kernel.ready[p]) : q[p][n] = kernel.ready[p][j]
      BY <1>8, <2>2
    <3>2. kernel.object[kernel.ready[p][j]].state = "READY"
      BY <1>1 DEF RollbackInv
    <3>3. kernel.ready[p] \in Seq(Tasks)
      BY <1>2
    <3>4. kernel.ready[p][j] \in Tasks
      BY <3>3
    <3>. QED
      BY <1>7, <2>2, <3>1, <3>2, <3>4
  <2>. QED
    BY <2>1, <2>2
<1>12. tick' = tick /\ handoff' = handoff
  BY DEF CreateSucceeds
<1>. QED
  BY <1>1, <1>5, <1>9, <1>10, <1>11, <1>12 DEF RollbackInv

\* A start that succeeds runs a task that was handed out.
LEMMA StartSucceedsInv ==
    ASSUME RollbackInv, StartSucceeds
    PROVE  RollbackInv'
<1> DEFINE first == PickNext(kernel.ready)
           up == Established(kernel)
<1>1. StartStatus(FALSE) = "OK" /\ kernel' = up
  BY DEF StartSucceeds
<1>2. /\ kernel.object[first].state = "READY"
      /\ up \in KernelType /\ up.lifecycle = "RUNNING"
      /\ \A u \in Tasks \ {first} : up.object[u] = kernel.object[u]
      /\ up.pool = kernel.pool
  BY <1>1, EstablishedFacts
<1> HIDE DEF first, up
<1>3. \A i \in TaskSlots : up.pool.slot[i] = "FREE" => up.object[i] = ZeroObject
  <2>1. ZeroObject.state # "READY"
    BY DEF ZeroObject
  <2>. QED
    BY <1>2, <2>1 DEF RollbackInv, Tasks
<1>4. InOrder(up.pool)
  BY <1>2 DEF RollbackInv
<1>5. result'.status = "OK"
  BY DEF StartSucceeds, Returns
<1>. QED
  BY <1>1, <1>2, <1>3, <1>4, <1>5 DEF RollbackInv
-----------------------------------------------------------------------------
\* What a call that fails leaves as it was.
Untouched ==
    /\ UNCHANGED <<kernel, timers, handoff>>
    /\ result'.call # "init" => UNCHANGED tick

\* rts_init fails with the kernel still in RESET.
LEMMA InitFailsUntouched ==
    ASSUME RollbackInv,
           InitPortFails \/ \E fault \in {"service", "idle"} : InitStackFails(fault)
    PROVE  Untouched /\ kernel.lifecycle = "RESET"
<1>1. InitStatus(FALSE) = "OK"
  BY DEF InitPortFails, InitStackFails
<1>2. kernel.lifecycle = "RESET" /\ kernel = ZeroKernel /\ timers = EmptyPool(TimerSlots)
  BY <1>1, InitPasses DEF RollbackInv
<1>3. /\ kernel' = ZeroKernel /\ timers' = EmptyPool(TimerSlots)
      /\ handoff' = handoff /\ result'.call = "init"
  <2>1. CASE InitPortFails
    BY <2>1 DEF InitPortFails, RestoreReset, Returns
  <2>2. ASSUME NEW fault \in {"service", "idle"}, InitStackFails(fault)
        PROVE  /\ kernel' = ZeroKernel /\ timers' = EmptyPool(TimerSlots)
               /\ handoff' = handoff /\ result'.call = "init"
    BY <2>2 DEF InitStackFails, RestoreReset, Returns
  <2>. QED
    BY <2>1, <2>2
<1>. QED
  BY <1>2, <1>3 DEF Untouched

\* rts_task_create and rts_start undo what they did.
LEMMA RolledBackUntouched ==
    ASSUME RollbackInv,
           \/ \E config \in Configs : CreateStackFails(config)
           \/ StartTickFails \/ StartFirstTaskFails
    PROVE  Untouched /\ tick' = tick
<1>1. CASE \E config \in Configs : CreateStackFails(config)
  <2>1. PICK config \in Configs : CreateStackFails(config)
    BY <1>1
  <2>2. kernel' = kernel
    BY <2>1, CreateRollbackIsExact DEF CreateStackFails
  <2>. QED
    BY <2>1, <2>2 DEF CreateStackFails, Untouched
<1>2. CASE StartTickFails \/ StartFirstTaskFails
  <2>1. StartStatus(FALSE) = "OK"
    BY <1>2 DEF StartTickFails, StartFirstTaskFails
  <2>2. kernel' = kernel
    BY <1>2, <2>1, StartRollbackIsExact DEF StartTickFails, StartFirstTaskFails
  <2>3. tick = "READY"
    BY <2>1, EstablishedFacts DEF RollbackInv
  <2>4. tick' = "READY"
    BY <1>2, <2>3 DEF StartTickFails, StartFirstTaskFails, TickStop, TickStarted
  <2>. QED
    BY <1>2, <2>2, <2>3, <2>4 DEF StartTickFails, StartFirstTaskFails, Untouched
<1>. QED
  BY <1>1, <1>2

\* A call that is refused by a check.
LEMMA RejectedUntouched ==
    ASSUME \/ \E isr \in BOOLEAN : InitRejected(isr) \/ StartRejected(isr)
           \/ \E config \in Configs, isr \in BOOLEAN : CreateRejected(config, isr)
           \/ \E fit, isr \in BOOLEAN : TimerInitRejected(fit, isr)
    PROVE  Untouched /\ tick' = tick
BY DEF InitRejected, StartRejected, CreateRejected, TimerInitRejected, Untouched

\* A call that touches nothing keeps the invariant.
LEMMA UntouchedInv ==
    ASSUME RollbackInv, Callable, Untouched,
           tick' = tick \/ kernel.lifecycle = "RESET"
    PROVE  RollbackInv'
<1>1. /\ kernel' = kernel /\ timers' = timers /\ handoff' = handoff
      /\ handoff # "valid"
  BY DEF Callable, Untouched
<1>2. kernel.lifecycle = "INITIALIZED" => tick' = tick
  OBVIOUS
<1>. QED
  BY <1>1, <1>2, KernelUnchanged

\* Every step keeps the invariant, and a step that returns an error touches nothing.
LEMMA LifecycleStep ==
    ASSUME RollbackInv, Next
    PROVE  RollbackInv' /\ (result'.status # "OK" => Untouched)
<1> DEFINE Rejects == \/ \E isr \in BOOLEAN : InitRejected(isr) \/ StartRejected(isr)
                      \/ \E config \in Configs, isr \in BOOLEAN : CreateRejected(config, isr)
                      \/ \E fit, isr \in BOOLEAN : TimerInitRejected(fit, isr)
           InitFails == \/ InitPortFails
                        \/ \E fault \in {"service", "idle"} : InitStackFails(fault)
           RollsBack == \/ \E config \in Configs : CreateStackFails(config)
                        \/ StartTickFails \/ StartFirstTaskFails
<1>1. CASE Callable /\ Rejects
  <2>1. Untouched /\ tick' = tick
    BY <1>1, RejectedUntouched
  <2>. QED
    BY <1>1, <2>1, UntouchedInv
<1>2. CASE InitSucceeds
  BY <1>2, InitSucceedsInv DEF InitSucceeds, Returns
<1>3. CASE Callable /\ InitFails
  <2>1. Untouched /\ kernel.lifecycle = "RESET"
    BY <1>3, InitFailsUntouched
  <2>. QED
    BY <1>3, <2>1, UntouchedInv
<1>4. CASE \E config \in Configs : CreateSucceeds(config)
  <2>1. PICK config \in Configs : CreateSucceeds(config)
    BY <1>4
  <2>2. RollbackInv'
    BY <2>1, CreateSucceedsInv
  <2>3. result'.status = "OK"
    BY <2>1 DEF CreateSucceeds, Returns
  <2>. QED
    BY <2>2, <2>3
<1>5. CASE Callable /\ RollsBack
  <2>1. Untouched /\ tick' = tick
    BY <1>5, RolledBackUntouched
  <2>. QED
    BY <1>5, <2>1, UntouchedInv
<1>6. CASE Callable /\ TimerInit
  <2>1. kernel.lifecycle = "INITIALIZED"
    BY <1>6, TimerPasses DEF TimerInit
  <2>. QED
    BY <1>6, <2>1, KernelUnchanged DEF TimerInit, Returns, Callable
<1>7. CASE StartSucceeds
  BY <1>7, StartSucceedsInv DEF StartSucceeds, Returns
<1>8. CASE SvcEntersTask
  BY <1>8 DEF SvcEntersTask, RollbackInv
<1>9. \/ Callable /\ Rejects
      \/ InitSucceeds
      \/ Callable /\ InitFails
      \/ \E config \in Configs : CreateSucceeds(config)
      \/ Callable /\ RollsBack
      \/ Callable /\ TimerInit
      \/ StartSucceeds
      \/ SvcEntersTask
  BY Zenon DEF Next
<1> HIDE DEF Rejects, InitFails, RollsBack
<1>. QED
  BY <1>1, <1>2, <1>3, <1>4, <1>5, <1>6, <1>7, <1>8, <1>9

\* An initialisation, a creation, a registration or a start that fails leaves the
\* kernel and the timers as they were, and a failed start also the tick source
\* and the hand-off, for pools of every size and every number of priorities.
THEOREM FailedCallsChangeNothing == Spec => FailedCallChangesNothing
<1>1. Init => RollbackInv
  BY RollbackInvInit
<1>2. RollbackInv /\ [Next]_vars => RollbackInv'
  <2>1. ASSUME RollbackInv, UNCHANGED vars PROVE RollbackInv'
    BY <2>1 DEF RollbackInv, vars
  <2>. QED
    BY <2>1, LifecycleStep
<1>3. RollbackInv /\ [Next]_vars =>
        [result'.status # "OK" =>
            /\ UNCHANGED <<kernel, timers>>
            /\ result'.call # "init" => UNCHANGED <<tick, handoff>>]_vars
  BY LifecycleStep DEF Untouched
<1>. QED
  BY <1>1, <1>2, <1>3, PTL DEF Spec, FailedCallChangesNothing
=============================================================================
