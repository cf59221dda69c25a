SPECIFICATION FairSpec
CONSTANTS
    b1 = b1
    b2 = b2
    r1 = r1
    r2 = r2
    Backends = {b1, b2}
    Requests = {r1, r2}
    Admins = {r2}
    Models = {"flash", "emb", "big", "claude", "up/flash", "up/big"}
    NoBackend = NoBackend
    NoModel = NoModel
    OpenRouter = OpenRouter
    Configs <- MCConfigs
    DefaultModel = "flash"
    OpenRouterMap <- MCOpenRouterMap
    Advertised <- MCAdvertised
    Flaky = {b1}
    Claude = {"claude"}
    DefaultRoof = 1
    QueueRoof = 1
    ThroughputWindow = 2
    CircuitOpenAfter = 2
    Hedging = TRUE
    Chunks = {"data"}
    MaxHedged = 1
INVARIANTS
    PoolInv
    MeteredIsAllowed
    OneVoice
    CatalogHonest
PROPERTIES
    SilenceEnds
    BeliefsFollow
    SpillNotBalance
