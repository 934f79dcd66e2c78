---------------------------- MODULE MCScheduler -----------------------------
(***************************************************************************)
(* Instances of Scheduler for the model checker.                           *)
(***************************************************************************)
EXTENDS Scheduler, TLC

CONSTANTS a, b, c, idle     \* tasks

ThreeTasks == {a, b, c, idle}

\* Two peers above a third task, so that delays, slices and preemption meet.
PeersAboveOne == (a :> 2) @@ (b :> 2) @@ (c :> 1) @@ (idle :> 0)
=============================================================================
