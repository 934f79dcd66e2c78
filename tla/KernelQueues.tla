---------------------------- MODULE KernelQueues ----------------------------
(***************************************************************************)
(* The two task queues of the kernel as operators on sequences of tasks:   *)
(* the fixed-priority ready set (kernel/ready_queue.c) and the delay queue *)
(* ordered by wake tick (kernel/delay_queue.c).                            *)
(*                                                                         *)
(* A ready set is a function from priorities to FIFO sequences.  Larger    *)
(* numbers are more urgent and priority 0 belongs to the idle task.  The   *)
(* bitmap of the program is the set of priorities whose queue is not       *)
(* empty, which is how Highest reads it.                                   *)
(***************************************************************************)
EXTENDS TickTime, Sequences, FiniteSetsExt

\* rts_list_remove of the k-th element.
ListRemove(queue, k) == SubSeq(queue, 1, k - 1) \o SubSeq(queue, k + 1, Len(queue))

\* rts_list_insert_before the k-th element; past the end, rts_list_push_back.
ListInsertBefore(queue, k, t) ==
    SubSeq(queue, 1, k - 1) \o <<t>> \o SubSeq(queue, k, Len(queue))

\* Unlink an element from wherever it is queued.
Unlink(queue, t) == ListRemove(queue, CHOOSE i \in 1 .. Len(queue) : queue[i] = t)

Queued(queue, t) == \E i \in 1 .. Len(queue) : queue[i] = t

\* A queue holds each of its members once.
Distinct(queue) ==
    \A i, j \in 1 .. Len(queue) : queue[i] = queue[j] => i = j

\* u is queued ahead of t.
Precedes(queue, u, t) ==
    \E i, j \in 1 .. Len(queue) : i < j /\ queue[i] = u /\ queue[j] = t

\* The keys of the members never decrease along a queue.
OrderedBy(queue, key) ==
    \A i, j \in 1 .. Len(queue) : i < j => key[queue[i]] <= key[queue[j]]
-----------------------------------------------------------------------------
\* Faulty variant: an inserted task goes to the front.
ReadyInsertFront(ready, p, t) == [ready EXCEPT ![p] = <<t>> \o @]

ReadyInsert(ready, p, t) == [ready EXCEPT ![p] = Append(@, t)]

\* Faulty variant: a task that blocks stays linked.
ReadyRemoveNothing(ready, p, t) == ready

ReadyRemove(ready, p, t) == [ready EXCEPT ![p] = Unlink(@, t)]

ReadyHasPeer(ready, p) == Len(ready[p]) > 1

ReadyIsFront(ready, p, t) == Head(ready[p]) = t

ReadyRotate(ready, p) == [ready EXCEPT ![p] = Append(Tail(@), Head(@))]

\* The most significant bit of the ready bitmap.
Highest(ready) == Max({p \in DOMAIN ready : ready[p] # << >>})

PickNext(ready) == Head(ready[Highest(ready)])
-----------------------------------------------------------------------------
\* Faulty variant: wake ticks are compared as plain integers.
DelayPositionUnwrapped(queue, wakeTick, t) ==
    LET Later(i) == wakeTick[t] < wakeTick[queue[i]]
    IN  CHOOSE i \in 1 .. (Len(queue) + 1) :
            /\ i <= Len(queue) => Later(i)
            /\ \A j \in 1 .. (i - 1) : ~Later(j)

\* The list position rts_delay_insert stops at: the first queued task that
\* wakes strictly later, or past the end.
DelayPosition(queue, wakeTick, t) ==
    LET Later(i) == TickBefore(wakeTick[t], wakeTick[queue[i]])
    IN  CHOOSE i \in 1 .. (Len(queue) + 1) :
            /\ i <= Len(queue) => Later(i)
            /\ \A j \in 1 .. (i - 1) : ~Later(j)

\* Faulty variant: the task is blocked and not linked.
DelayInsertDropped(queue, wakeTick, t) == queue

DelayInsert(queue, wakeTick, t) ==
    ListInsertBefore(queue, DelayPosition(queue, wakeTick, t), t)

\* Faulty variant: the head is due one tick late.
HeadExpiredLate(queue, wakeTick, time) ==
    queue # << >> /\ TickBefore(wakeTick[Head(queue)], time)

\* Faulty variant: the head is due one tick early.
HeadExpiredEarly(queue, wakeTick, time) ==
    queue # << >> /\ TickReached(TickAdd(time, 1), wakeTick[Head(queue)])

\* rts_delay_peek_expired: the head is due.
HeadExpired(queue, wakeTick, time) ==
    queue # << >> /\ TickReached(time, wakeTick[Head(queue)])
=============================================================================
