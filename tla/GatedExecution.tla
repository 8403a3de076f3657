--------------------------- MODULE GatedExecution ---------------------------
(***************************************************************************)
(* What the system promises about one case, without saying how: operators  *)
(* may pass verdicts on a case that is not low risk, and at most one       *)
(* action is ever performed for a case, never before the case was low risk *)
(* or approved. README.md states it as "low-risk or approved cases can     *)
(* continue into allowlisted execution through the workflow".              *)
(***************************************************************************)
EXTENDS Domain, Sequences

VARIABLES risk, verdicts, performed

gatedVars == <<risk, verdicts, performed>>

Permitted == risk = "low" \/ \E i \in DOMAIN verdicts : verdicts[i] = "approved"

Init ==
    /\ risk \in RiskLevel
    /\ verdicts = <<>>
    /\ performed = <<>>

Decide ==
    /\ risk # "low"
    /\ \E d \in ApprovalDecisionType : verdicts' = Append(verdicts, d)
    /\ UNCHANGED <<risk, performed>>

Perform ==
    /\ performed = <<>>
    /\ Permitted
    /\ \E a \in ExecutionAction : performed' = <<a>>
    /\ UNCHANGED <<risk, verdicts>>

Next == Decide \/ Perform

Spec == Init /\ [][Next]_gatedVars
=============================================================================
