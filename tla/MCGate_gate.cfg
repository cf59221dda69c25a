SPECIFICATION FairSpec
CONSTANTS
    Reqs = {r1, r2}
    pat = pat
    r1 = r1
    r2 = r2
    bad = bad
    addr = addr
    Pats = {pat}
    LocalKeys = {}
    Malformed = {bad}
    None = None
    Ips = {addr}
    Headers <- McHeaders
    AnonLimit = 1
    AuthedLimit = 1
    PerKey = 1
    PerIp = 1
    Ttl = 2
    MaxWindow = 1
INVARIANTS GateInv WindowBounded
PROPERTIES RevocationTakesEffect
CHECK_DEADLOCK FALSE
