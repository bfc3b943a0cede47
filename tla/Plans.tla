-------------------------------- MODULE Plans --------------------------------
(***************************************************************************)
(* Plans of several steps, kept over conversations.  The model creates     *)
(* them and sets the status of a step; the plan is completed when no step  *)
(* is left.  Followed from stores/plan-store.ts, ai/handlers/plans.ts and  *)
(* insights/cleanup-scheduler.ts; one plan.                                *)
(***************************************************************************)
EXTENDS Naturals, FiniteSets

CONSTANTS PlanSteps,      \* the steps of the plan
          MaxPlanDeaths     \* deaths between the two writes of an update

StepStatus == {"pending", "in_progress", "done", "skipped"}

VARIABLES plan,          \* status of its row, none before and after
          step,            \* status of each step in it
          planDeaths,      \* how many of MaxPlanDeaths there were
          reopened         \* ghost: a step of a completed plan was set back

planVars == <<plan, step, planDeaths, reopened>>

PlansTypeOK ==
  /\ plan \in {"none", "active", "completed"}
  /\ step \in [PlanSteps -> StepStatus]
  /\ planDeaths \in 0 .. MaxPlanDeaths
  /\ reopened \in BOOLEAN

PlansInit ==
  /\ plan = "none"
  /\ step = [s \in PlanSteps |-> "pending"]
  /\ planDeaths = 0
  /\ reopened = FALSE

CreatePlan ==
  /\ plan = "none" /\ PlanSteps # {}
  /\ plan' = "active"
  /\ step' = [s \in PlanSteps |-> "pending"]
  /\ reopened' = FALSE
  /\ UNCHANGED planDeaths

Finished(steps) == \A s \in PlanSteps : steps[s] \in {"done", "skipped"}

UpdateStepOnly(s, status) ==         \* a mutant: the plan is not completed
  /\ plan # "none"
  /\ step' = [step EXCEPT ![s] = status]
  /\ reopened' = (plan = "completed" /\ ~Finished(step'))
  /\ UNCHANGED <<plan, planDeaths>>

\* updateStep, whatever the plan's status: the steps are written, and then
\* the status, if that was the last one.
UpdateStep(s, status) ==
  /\ plan # "none"
  /\ step' = [step EXCEPT ![s] = status]
  /\ plan' = IF Finished(step') THEN "completed" ELSE plan
  /\ reopened' = (plan' = "completed" /\ ~Finished(step'))
  /\ UNCHANGED planDeaths

\* Nothing binds the two writes together.
DiesUpdating(s, status) ==
  /\ planDeaths < MaxPlanDeaths
  /\ plan # "none"
  /\ step' = [step EXCEPT ![s] = status]
  /\ planDeaths' = planDeaths + 1
  /\ reopened' = (plan = "completed" /\ ~Finished(step'))
  /\ UNCHANGED plan

\* The nightly clean-up of plans completed thirty days ago.
CleanCompletedPlans ==
  /\ plan = "completed"
  /\ plan' = "none"
  /\ step' = [s \in PlanSteps |-> "pending"]
  /\ reopened' = FALSE
  /\ UNCHANGED planDeaths

PlansNext ==
  \/ \E s \in PlanSteps, status \in StepStatus : UpdateStep(s, status) \/ DiesUpdating(s, status)
  \/ CreatePlan \/ CleanCompletedPlans

PlansSpec == PlansInit /\ [][PlansNext]_planVars

---------------------------------------------------------------------------
(* What is expected of it *)

\* A plan with nothing left to do is listed as active only after a death
\* between the two writes; a completed one has open steps only if one was set
\* back afterwards, and is then never listed again.
PlanStatusFits ==
  /\ plan = "active" => ~Finished(step) \/ planDeaths > 0
  /\ plan = "completed" => Finished(step) \/ reopened
=============================================================================
