\* One request of each kind, under fair threads and loop; two connections.
SPECIFICATION FairSpec
CONSTANTS
    Requests <- Pages
    Kind <- Itself
    PoolSize = 2
INVARIANTS
    PoolTypeOK
    NothingLeaks
PROPERTIES
    StuckUntilTimeout
    EveryRequestEnds
