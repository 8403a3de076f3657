\* Several workers: two open requests, two lost attempts of any activity, which
\* may go on writing. The evidence adapter fails and the model advises nothing:
\* no property here tells one record of theirs from another.
SPECIFICATION FairSpec
CONSTANTS
    Operators = {o1, o2}
    MaxFaults = 2
    LateActivities <- Activity
    StartAmbiguous = TRUE
    EvidenceResults = {}
    AdvisedActions = {}
\* A closed workflow takes no step.
CHECK_DEADLOCK FALSE
INVARIANTS
    TypeOK
    ExecutionNeedsApproval
    AtMostOnce
    DecisionsPerGate
    ReconcileOffered
PROPERTIES
    ImplementsGate
    LowRiskCloses
    SignalCloses
