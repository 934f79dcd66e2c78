------------------------------ MODULE MCTimers ------------------------------
(***************************************************************************)
(* Instances of Timers for TLC.                                            *)
(***************************************************************************)
EXTENDS Timers, TLC

CONSTANTS a, b, service, idle, p, q

\* The service between two application tasks.
FourTasks == {a, b, service, idle}
ServiceBetween == a :> 3 @@ service :> 2 @@ b :> 1 @@ idle :> 0

\* p is periodic, q expires once. With equal periods they can expire on the
\* same tick in either order.
PeriodsThree == p :> 3 @@ q :> 3
FirstIsPeriodic == p :> TRUE @@ q :> FALSE

\* The instance is one that TimersOnTime speaks of.
ASSUME JumpsAssumption == JumpsFit

\* The state without the wake ticks and deadlines that are out of use: those
\* of tasks that are not delayed and of timers that are not active.
InUse ==
    <<lifecycle, state, ready, delayQ, now, slice, current, plan, pendsv, owes, tick,
      left, timerState, callback, generation, timerQ, ring, running, owed,
      [t \in Task |-> IF Queued(delayQ, t) THEN wakeTick[t] ELSE 0],
      [m \in Timer |-> IF timerState[m] = "ACTIVE" THEN <<deadline[m], due[m]>>
                                                   ELSE <<0, 0>>]>>
=============================================================================
