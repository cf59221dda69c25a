SPECIFICATION Spec
CONSTANTS
    k1 = k1
    k2 = k2
    va = va
    vb = vb
    NoVal = NoVal
    Keys <- MCKeys
    Vals <- MCVals
    Runs <- MCRuns2
    PrunedRuns <- MCPruned
    Rejects <- MCRejectOne
    Pushers = {p1, p2}
    Slots = {s1, s2}
    BatchRows = 2
    MaxAttempts = 1
    MaxWrites = 2
    MaxFaults = 1
    Lag = 2
    ReuseRuns = FALSE
    Linger = TRUE
INVARIANTS
    PastCursorIsLedgered
    LedgerIsBacked
    LineageInv
SYMMETRY CallSymmetry
