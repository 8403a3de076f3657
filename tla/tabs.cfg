\* Two tabs, two approvers, no time and no change of roles.
SPECIFICATION Spec
CONSTANTS
    Tabs = {t1, t2}
    Users = {ann, bob}
    Nobody = nobody
    RoleSets <- ApproversOnly
    Ttl = 1
    MaxTime = 0
    MaxTokens = 5
    MaxDecisions = 1
SYMMETRY TabSymmetry
\* A browser may be left alone.
CHECK_DEADLOCK FALSE
INVARIANTS
    TypeOK
    ActorSawTheCase
    LoggedOutFormsAreDead
