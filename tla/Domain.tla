------------------------------- MODULE Domain -------------------------------
(***************************************************************************)
(* The closed vocabularies of the case store (domain/enums.py) and the two *)
(* deterministic policies every case passes through: which risk levels     *)
(* need a human approval, and what an approval state lets the workflow do. *)
(* Policy reasons and the advisory risk fields are wording and provenance: *)
(* no decision reads them.                                                 *)
(***************************************************************************)

ExceptionStatus == {"ingested", "in_review", "resolved"}
RiskLevel == {"low", "medium", "high"}
WorkflowLifecycleState == {"started", "completed", "failed"}
ApprovalState ==
    {"pending_policy", "not_required", "pending", "approved", "rejected"}
ApprovalDecisionType == {"approved", "rejected"}
ExecutionAction ==
    {"retry_provider_after_validation", "request_missing_document",
     "review_duplicate_records", "review_payout_reconciliation",
     "manual_triage"}
ExecutionState == {"pending", "started", "succeeded", "failed", "skipped"}
EvidenceStatus == {"succeeded", "failed"}

(* The statuses the code gives an execution record: it is created STARTED, *)
(* the enum's "pending" is never written.                                  *)
ExecutionRecordStatus == {"started", "succeeded", "failed"}

(* No action: the advice of a remediation record that failed or does not   *)
(* validate, and the action of an attempt that has chosen none.            *)
NoAction == "none"
Advice == ExecutionAction \cup {NoAction}

(* Mutant of TargetState: the verb of the endpoint instead of the state.   *)
TargetStateVerb(decision) ==
    IF decision = "approved" THEN "approve" ELSE "reject"

(* The approval state a decision of an operator stands for.                *)
TargetState(decision) ==
    IF decision = "approved" THEN "approved" ELSE "rejected"

(* Mutants of RequiresApproval: a forgotten level, and a gate for all.     *)
OnlyHighRisk(risk) == risk = "high"
EveryRisk(risk) == risk \in RiskLevel

(* Which cases wait for a human. The AI's own requires_approval is carried *)
(* along as metadata and never consulted.                                  *)
RequiresApproval(risk) == risk \in {"medium", "high"}

(* Mutant of ExecutionDecision: blocked states are not told apart.         *)
ExecuteUnlessRejected(approval) ==
    IF approval = "rejected" THEN "skip" ELSE "execute"

(* What the workflow may do in an approval state, and the action it would  *)
(* take: advice outside the allowlist falls back to manual triage.         *)
ExecutionDecision(approval) ==
    CASE approval = "rejected" -> "skip"
      [] approval \in {"approved", "not_required"} -> "execute"
      [] OTHER -> "block"

PermittedAction(advised) ==
    IF advised \in ExecutionAction THEN advised ELSE "manual_triage"
=============================================================================
