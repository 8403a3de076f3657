\* No faults at all: the handler is merely slower than the workflow.
SPECIFICATION Spec
CONSTANTS
    Operators = {o1}
    MaxFaults = 0
    LateActivities = {}
    StartAmbiguous = FALSE
    EvidenceResults <- LittleEvidence
    AdvisedActions <- SomeActions
\* A closed workflow takes no step.
CHECK_DEADLOCK FALSE
INVARIANTS
    CompletionIsVisible
