--------------------------- MODULE MCTicklessIdle ---------------------------
(***************************************************************************)
(* Instances of TicklessIdle for TLC.                                      *)
(***************************************************************************)
EXTENDS TicklessIdle, TLC

CONSTANTS a, service, idle, p

\* One application task above the service, and one periodic timer.
OneTask == {a, service, idle}
TaskAboveService == a :> 2 @@ service :> 1 @@ idle :> 0
EveryTwo == p :> 2
IsPeriodic == p :> TRUE
=============================================================================
