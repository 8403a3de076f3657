\* One lost gate attempt, two contradicting decisions.
SPECIFICATION Spec
CONSTANTS
    Operators = {o1, o2}
    MaxFaults = 1
    LateActivities = {}
    StartAmbiguous = FALSE
    EvidenceResults <- LittleEvidence
    AdvisedActions <- SomeActions
SYMMETRY OperatorSymmetry
\* A closed workflow takes no step.
CHECK_DEADLOCK FALSE
PROPERTIES
    RejectedNeverExecutes
