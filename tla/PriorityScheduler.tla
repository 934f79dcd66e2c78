-------------------------- MODULE PriorityScheduler -------------------------
(***************************************************************************)
(* What the kernel promises its tasks, without queues, ticks or exceptions *)
(* in sight: a runnable task of the highest priority gets the processor.   *)
(***************************************************************************)
EXTENDS Integers

CONSTANTS Task, Idle, Prio, NoTask

VARIABLES
    runnable,       \* the tasks that could execute
    running         \* the task that has the processor

promiseVars == <<runnable, running>>

Top(S) == {t \in S : \A u \in S : Prio[u] <= Prio[t]}

Init ==
    /\ runnable = {Idle}
    /\ running = NoTask

Admit ==
    /\ running = NoTask
    /\ \E t \in Task \ runnable : runnable' = runnable \cup {t}
    /\ UNCHANGED running

Begin ==
    /\ running = NoTask
    /\ running' \in Top(runnable)
    /\ UNCHANGED runnable

\* Only the running task blocks, and only itself.
Block ==
    /\ running \in runnable \ {Idle}
    /\ runnable' = runnable \ {running}
    /\ UNCHANGED running

Wake ==
    /\ running # NoTask
    /\ \E t \in Task \ runnable : runnable' = runnable \cup {t}
    /\ UNCHANGED running

\* The processor only ever passes to a runnable task of the highest priority.
Dispatch ==
    /\ running # NoTask
    /\ running' \in Top(runnable) \ {running}
    /\ UNCHANGED runnable

\* The running task has blocked, or a more urgent one has become runnable.
Overdue == running # NoTask /\ running \notin Top(runnable)

Next == Admit \/ Begin \/ Block \/ Wake \/ Dispatch

Spec == Init /\ [][Next]_promiseVars

FairSpec == Spec /\ WF_promiseVars(Overdue /\ Dispatch)
=============================================================================
