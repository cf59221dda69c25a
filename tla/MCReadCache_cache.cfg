SPECIFICATION FairSpec
CONSTANTS
    t1 = t1
    t2 = t2
    e1 = e1
    Replicas = {c1}
    Tables <- MCTables2
    Endpoints <- MCEndpoints
    Reads <- MCReadsJoin
    Readers = {r1, r2}
    Writers = {w1}
    Redis = TRUE
    MaxWrites = 1
    MaxRestarts = 1
    MaxTimeouts = 1
    MaxLosses = 1
INVARIANTS
    ReadYourWrites
    FlightInv
PROPERTIES
    ReadsEnd
CONSTRAINT OneFault
