\* Two commands at once, or one and an API that starts with DB_AUTO_CREATE.
SPECIFICATION Spec
CONSTANTS
    Runners = {r1, r2}
    Cases = {c1, c2}
SYMMETRY BothSymmetries
INVARIANTS
    MigrationsTypeOK
    SchemaMatchesRevision
    AtLeastItsRevision
PROPERTIES
    RaisesOnlyWhenOvertaken
    CasesSurvive
