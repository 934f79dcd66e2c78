----------------------------- MODULE WaitObject -----------------------------
(***************************************************************************)
(* The queue of tasks waiting for a semaphore or a mutex                   *)
(* (kernel/wait_object.c): by falling priority, oldest first among equals. *)
(***************************************************************************)
EXTENDS KernelQueues

\* Faulty variant: a new waiter goes before its equals.
WaitPositionNewestFirst(queue, prio, t) ==
    CHOOSE i \in 1 .. (Len(queue) + 1) :
        /\ i <= Len(queue) => prio[queue[i]] <= prio[t]
        /\ \A j \in 1 .. (i - 1) : prio[queue[j]] > prio[t]

\* Where rts_wait_object_insert stops: the first waiter of lower priority.
WaitPosition(queue, prio, t) ==
    CHOOSE i \in 1 .. (Len(queue) + 1) :
        /\ i <= Len(queue) => prio[queue[i]] < prio[t]
        /\ \A j \in 1 .. (i - 1) : prio[queue[j]] >= prio[t]

WaitInsert(queue, prio, t) ==
    ListInsertBefore(queue, WaitPosition(queue, prio, t), t)
=============================================================================
