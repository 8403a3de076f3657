\* The corpus, every stage to stop at, and any fixture under many settings.
SPECIFICATION CorpusSpec
CONSTANTS
    Operators = {o1}
    MaxFaults = 0
    LateActivities = {}
    StartAmbiguous = FALSE
    EvidenceResults <- SomeEvidence
    AdvisedActions <- AllActions
    OverrideSets <- FixtureOverrides
    Selections <- Selected
\* A replay ends.
CHECK_DEADLOCK FALSE
INVARIANTS
    ReplayTypeOK
    RaisesOnlyForAMisfit
    StopsWhereItSays
    CorpusMeetsExpectations
    OutcomePredicted
PROPERTIES
    EachCaseImplementsGate
