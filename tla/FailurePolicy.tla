--------------------------- MODULE FailurePolicy ---------------------------
(***************************************************************************)
(* The failure classifier and the repair decision of the scheduler         *)
(* (src/ai_ent/scheduler/repair.py), as operators over an execution's      *)
(* status and its recorded failure.                                        *)
(*                                                                         *)
(* The code keeps the failure twice, as Execution.error_classification and *)
(* as the "status" of the latest execution checkpoint; finalization writes *)
(* the same word in both, so one "note" stands for the two.                *)
(***************************************************************************)
EXTENDS Naturals

ExecutionStatus ==
    {"none", "running", "succeeded", "failed", "timeout", "cancelled"}

\* What can be recorded about an attempt: nothing, its success checkpoint, or
\* the error_classification of the step that failed.
Note ==
    {"none", "completed", "scope_failed", "verification_failed",
     "commit_denied", "executor_failed", "executor_timeout",
     "executor_exception", "codex_not_configured",
     "codex_configuration_invalid", "worktree_error",
     "package_construction_failed"}

\* FailureClassifier.classify: the first test that matches decides.
Retryability(status, note) ==
    CASE note = "scope_failed"                               -> "HUMAN_REQUIRED"
      [] note = "verification_failed"                        -> "REPAIRABLE"
      [] note = "commit_denied"                              -> "NON_RETRYABLE"
      [] status = "timeout" \/ note = "executor_timeout"     -> "TRANSIENT"
      [] note = "codex_not_configured"                       -> "HUMAN_REQUIRED"
      [] note = "worktree_error"                             -> "TRANSIENT"
      [] /\ status \in {"failed", "cancelled"}
         /\ note \in {"none", "completed", "executor_failed",
                      "executor_exception", "codex_configuration_invalid",
                      "package_construction_failed"}         -> "REPAIRABLE"
      [] OTHER                                               -> "HUMAN_REQUIRED"

\* RepairPlanner._action_for: an unrepairable class never consults the budget,
\* and a transient failure is left to be retried by whoever called.
RepairAction(retryability, repairCount, maxRepairs) ==
    CASE retryability = "HUMAN_REQUIRED" -> "ESCALATE_HUMAN"
      [] retryability = "NON_RETRYABLE"  -> "BLOCK"
      [] retryability = "TRANSIENT"      -> "RETRY_SAME_EXECUTION_STAGE"
      [] /\ retryability = "REPAIRABLE"
         /\ repairCount >= maxRepairs    -> "ESCALATE_HUMAN"
      [] OTHER                           -> "REPAIR_WITH_NEW_EXECUTION"
=============================================================================
