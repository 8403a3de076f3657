\* One worker: one reader, two open requests, one lost attempt that may go on
\* writing while it awaits an adapter or the model.
SPECIFICATION ViewSpec
CONSTANTS
    Operators = {o1, o2}
    MaxFaults = 1
    LateActivities <- Awaiting
    StartAmbiguous = TRUE
    EvidenceResults <- LittleEvidence
    AdvisedActions <- TwoActions
SYMMETRY OperatorSymmetry
\* A closed workflow takes no step.
CHECK_DEADLOCK FALSE
INVARIANTS
    ViewTypeOK
    EffectIsRecorded
    OutcomeAgrees
    VerdictIsShown
    OutcomeIsShown
    ReviewedIsExecuted
    RetryRepeatsWhatIsShown
PROPERTIES
    EvidenceFrozen
    OutcomeIsFinal
