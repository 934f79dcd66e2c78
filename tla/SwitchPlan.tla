----------------------------- MODULE SwitchPlan -----------------------------
(***************************************************************************)
(* The switch plan (kernel/switch_plan.c): the one-entry mailbox through   *)
(* which scheduling decisions reach the PendSV handler.                    *)
(*                                                                         *)
(* The generation counter of the program only tells a plan from an older   *)
(* one when PendSV completes it.  Here an active plan is never changed     *)
(* except for its reselection flag, so the counter is left out.            *)
(***************************************************************************)

CONSTANT NoTask     \* NULL

NoPlan ==
    [from |-> NoTask, to |-> NoTask, pending |-> FALSE, active |-> FALSE,
     reselect |-> FALSE]

Plans(Task) ==
    [from : Task \cup {NoTask}, to : Task \cup {NoTask}, pending : BOOLEAN,
     active : BOOLEAN, reselect : BOOLEAN]

\* Faulty variant: an event in the ACTIVE window is forgotten.
PrepareSwitchNoReselect(plan, current, next) ==
    IF plan.active THEN plan
    ELSE IF next = current THEN NoPlan
    ELSE [from |-> current, to |-> next, pending |-> TRUE, active |-> FALSE,
          reselect |-> FALSE]

\* Faulty variant: a plan that is already pending keeps its old target.
PrepareSwitchNoRetarget(plan, current, next) ==
    IF plan.active THEN [plan EXCEPT !.reselect = TRUE]
    ELSE IF next = current THEN NoPlan
    ELSE [from |-> current,
          to |-> IF plan.pending THEN plan.to ELSE next,
          pending |-> TRUE, active |-> FALSE, reselect |-> FALSE]

\* rts_scheduler_prepare_switch: record the decision to run next.  While a
\* switch is ACTIVE only the reselection flag is raised; choosing the current
\* task cancels a pending plan; anything else creates or retargets one.
PrepareSwitch(plan, current, next) ==
    IF plan.active THEN [plan EXCEPT !.reselect = TRUE]
    ELSE IF next = current THEN
        IF plan.pending THEN NoPlan ELSE [plan EXCEPT !.reselect = FALSE]
    ELSE [from |-> IF plan.pending THEN plan.from ELSE current,
          to |-> next, pending |-> TRUE, active |-> FALSE, reselect |-> FALSE]

\* Faulty variant: the pending flag is tested after it is set, so that the
\* caller is never told to request PendSV.
NotifiesNever(plan, current, next) == FALSE

\* The result of rts_scheduler_prepare_switch: the port is notified only when
\* a plan is created, not when one is cancelled or retargeted.
Notifies(plan, current, next) ==
    ~plan.active /\ ~plan.pending /\ next # current

\* rts_scheduler_switch_acquire.
AcquirePlan(plan) == [plan EXCEPT !.pending = FALSE, !.active = TRUE]

\* Faulty variant: a completed plan is not cleared.
ClearPlanNot(plan) == plan

\* rts_switch_plan_clear, which keeps the reselection flag.
ClearPlan(plan) ==
    [from |-> NoTask, to |-> NoTask, pending |-> FALSE, active |-> FALSE,
     reselect |-> plan.reselect]
=============================================================================
