SPECIFICATION FairSpec
CONSTANTS
    k1 = k1
    k2 = k2
    va = va
    vb = vb
    NoVal = NoVal
    Keys <- MCKeys
    Vals <- MCVals
    Runs <- MCRuns3
    PrunedRuns <- MCNone
    Rejects <- MCNone
    Pushers = {p1}
    Slots = {s1, s2}
    BatchRows = 1
    MaxAttempts = 2
    MaxWrites = 2
    MaxFaults = 2
    Lag = 1
    ReuseRuns = FALSE
    Linger = FALSE
INVARIANTS
    TargetCaughtUp
PROPERTIES
    Converges
    TargetNeverRegresses
    Replicates
