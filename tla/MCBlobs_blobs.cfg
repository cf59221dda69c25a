SPECIFICATION FairSpec
CONSTANTS
    Users = {u1, u2}
    Root = Root
    Shas = {s1}
    Other = Other
    png = png
    html = html
    Types = {png, html}
    PrefixOf <- McPrefixOf
    Octet = Octet
    None = None
    Forwarded = Forwarded
    u1 = u1
    u2 = u2
    s1 = s1
    Requests <- McRequests
    Runs = {"x1"}
    BlobPaths <- McBlobPaths
    ListPaths <- McListPaths
    Uploads = {up1, up2}
    Loads <- McLoads
    HasAttrs = {"shadow"}
    Ttl = 2
    MaxTouches = 1
INVARIANTS StoreInv DedupWithinTenant ReadInv
PROPERTIES DeletionReachesShadow
CHECK_DEADLOCK FALSE
