SPECIFICATION QuerySpec
CONSTANTS
    EndpointSpecs <- MCEndpoints
    Callers <- MCCallers
    Paths <- MCPaths
    NameOrder <- MCNameOrder
    RawQueries <- MCRawQueries
    Encoded <- MCEncoded
    Upper <- MCUpper
    Lower <- MCLower
    KeyText <- MCKeyText
    Number <- MCNumber
    Moment <- MCMoment
    Chars <- MCChars
    Unqualified <- MCUnqualified
    KeyCols = {"k"}
    ReadRole = "oversight"
    CacheCapacity = 2
INVARIANTS
    QueryInv
    OneMeaning
    SelfTenantScoped
