\* One worker, one slow answer of the model, one reader.
SPECIFICATION ViewSpec
CONSTANTS
    Operators = {o1}
    MaxFaults = 1
    LateActivities = {"generate_remediation_plan"}
    StartAmbiguous = FALSE
    EvidenceResults <- LittleEvidence
    AdvisedActions <- TwoActions
\* A closed workflow takes no step.
CHECK_DEADLOCK FALSE
INVARIANTS
    ApprovedIsExecuted
