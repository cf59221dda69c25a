SPECIFICATION FairSpec
CONSTANTS
    Reqs = {r1, r2}
    PoolSize = 2
    Backends = {"postgres", "clickhouse"}
    MaxChunks = 2
    MaxBatch = 1
INVARIANTS
    ConnectionInv
    ReadYourWrites
    HandoffOnce
PROPERTIES
    RunsAreTruthful
    EveryRequestEnds
