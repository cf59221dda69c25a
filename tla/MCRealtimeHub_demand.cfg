SPECIFICATION Spec
CONSTANTS
    c1 = c1
    c2 = c2
    c3 = c3
    i1 = i1
    i2 = i2
    Conns <- MCConns
    Kind <- MCKind
    Identities <- MCIdentities
    SubOf <- MCSubOf
    Internal <- MCInternal
    Symbols <- MCSymbols
    LifetimeCap = 2
    MaxCancels = 1
INVARIANTS
    DemandSound
    RegistryConsistent
CHECK_DEADLOCK FALSE
