---------------------------- MODULE MCPolicies ------------------------------
(***************************************************************************)
(* Instances of Policies for TLC.                                          *)
(***************************************************************************)
EXTENDS Policies

CONSTANTS a, b, c, idle     \* tasks

ThreeTasks == {a, b, c, idle}

\* For EDF a set that fixed ranks cannot schedule (utilisation 59/60).  For RMS
\* two tasks of equal period above a third, with the shortest deadlines that
\* response-time analysis allows.
Periods == [EDF |-> a :> 3 @@ b :> 4 @@ c :> 5, RMS |-> a :> 3 @@ b :> 4 @@ c :> 3]

Deadlines == [EDF |-> a :> 3 @@ b :> 4 @@ c :> 5, RMS |-> a :> 2 @@ b :> 3 @@ c :> 2]

Budgets == [EDF |-> a :> 1 @@ b :> 1 @@ c :> 2, RMS |-> a :> 1 @@ b :> 1 @@ c :> 1]
=============================================================================
