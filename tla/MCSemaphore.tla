----------------------------- MODULE MCSemaphore ----------------------------
(***************************************************************************)
(* Instances of Semaphore for the model checker.                           *)
(***************************************************************************)
EXTENDS Semaphore, TLC

CONSTANTS a, b, c, idle     \* tasks

ThreeTasks == {a, b, c, idle}

\* Two peers above a third task: the peers wait in turn, and preempt c.
PeersAboveOne == (a :> 2) @@ (b :> 2) @@ (c :> 1) @@ (idle :> 0)
=============================================================================
