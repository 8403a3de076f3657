\* One tab, one user, roles that change, sessions that expire.
SPECIFICATION Spec
CONSTANTS
    Tabs = {t1}
    Users = {ann}
    Nobody = nobody
    RoleSets <- SomeRoles
    Ttl = 2
    MaxTime = 3
    MaxTokens = 4
    MaxDecisions = 2
\* A browser may be left alone.
CHECK_DEADLOCK FALSE
INVARIANTS
    DecisionAuthorised
    RetryFormNeverDecides
