-------------------------------- MODULE Blobs --------------------------------
(***************************************************************************)
(* The blob plane of two instances: a primary, and a shadow that answers   *)
(* reads from the primary through a cache that is keyed by path.  Shared   *)
(* blobs (POST /ingest/blob) live under their content type and hash,       *)
(* private ones (POST /me/blobs) under their owner, retrieval results      *)
(* under their run, each with the rows that name them; PUT and DELETE      *)
(* reach any key.  Bytes are their hash.  A read names its key in a path:  *)
(* the shadow looks at the path as it was sent, the handler at the key     *)
(* that decoding and sanitize_key make of it.                              *)
(***************************************************************************)
EXTENDS Integers, FiniteSets

CONSTANTS
    Users,      \* callers with the role user
    Root,       \* a caller with a local key, as is the shadow to its peer
    Shas,       \* contents
    Other,      \* bytes of no hash in Shas, for PUT
    Types,      \* content types
    PrefixOf,   \* key_prefix_for: content type to key prefix
    Octet,      \* application/octet-stream
    None,       \* absent, or the answer 404
    Forwarded,  \* the answer is the peer's
    Runs,       \* retrieval runs
    BlobPaths,  \* reads of GET /blobs/<key>: the key, and is it written plainly, or
                \*   in some other way that comes to the same key
    ListPaths,  \* reads of GET /blobs, each with its limit
    Uploads,    \* upload requests
    Loads,      \* what a behaviour has: the uploads that are still to come, and does
                \*   the shadow forward its reads (read_federate)
    Requests,   \* what an upload may be: its mode, site, caller, content and type
    HasAttrs,   \* sites whose store keeps attributes (S3, not a directory)
    Ttl,        \* ages a forwarded answer is kept for
    MaxTouches  \* bound: PUTs and DELETEs by key

Sites == {"primary", "shadow"}
Callers == Users \cup {Root}
CasKey(t, s) == <<"cas", PrefixOf[t], s>>
tenant_key(o, s) == <<"tenants", o, s>>
RetrievalKey(x) == <<"retrievals", x>>
CasKeys == {CasKey(t, s) : t \in Types, s \in Shas}
TenantKeys == {tenant_key(o, s) : o \in Users, s \in Shas}
RetrievalKeys == {RetrievalKey(x) : x \in Runs}
Keys == CasKeys \cup TenantKeys \cup RetrievalKeys
Paths == BlobPaths \cup ListPaths
Listings == [objects : SUBSET Keys, truncated : BOOLEAN]
Bodies == Shas \cup {Other} \cup Listings
Objects == [bytes : Shas \cup {Other}, type : Types \cup {Octet, None}]
Rows == [key : Keys, type : Types]
Places == {"start", "put", "open", "insert", "done"}
Answers == {"none", "existed", "ok", "error"}

ASSUME BlobConstants ==
    /\ IsFiniteSet(Users) /\ IsFiniteSet(Shas) /\ IsFiniteSet(Types) /\ IsFiniteSet(Uploads)
    /\ Root \notin Users /\ Other \notin Shas
    /\ {None, Forwarded} \cap (Shas \cup {Other} \cup Types) = {} /\ None \notin Objects
    /\ None \notin Listings /\ Forwarded \notin Listings /\ None \notin Paths
    /\ BlobPaths \subseteq [key : Keys, plain : BOOLEAN]
    /\ ListPaths \subseteq [limit : Nat \ {0}]
    /\ BlobPaths \cap ListPaths = {}
    /\ Requests \subseteq [mode : {"shared", "private"}, site : Sites, who : Users,
                           sha : Shas, type : Types]
    /\ HasAttrs \subseteq Sites
    /\ Loads \subseteq [uploads : SUBSET Uploads, federate : BOOLEAN]
    /\ Ttl \in Nat \ {0} /\ MaxTouches \in Nat

VARIABLES
    objects,   \* object stores: site and key to bytes and attribute
    blobs,     \* raw.blobs: site and hash to key and type
    tenants,   \* raw.tenant_blobs: site, owner and hash to key and type
    up,        \* each upload's progress and local variables
    cache,     \* ShadowCache: path to the answer and its age
    fwd,       \* a read the shadow has sent to its peer; "off": it sends none
    touched,   \* history: the site and key pairs PUT or DELETE wrote
    uploaded   \* history: site, owner and hash of the private uploads that got a row

vars == <<objects, blobs, tenants, up, cache, fwd, touched, uploaded>>
rowVars == <<blobs, tenants>>
readVars == <<cache, fwd>>
history == <<touched, uploaded>>

Object(b, t) == [bytes |-> b, type |-> t]
Quiet == [pc |-> "idle", path |-> None, got |-> None]
Off == [pc |-> "off", path |-> None, got |-> None]

(* The uploads that are not still to come were made before, and failed while  *)
(* they looked for their row.                                                 *)
Init ==
    /\ objects = [x \in Sites \X Keys |-> None]
    /\ blobs = [x \in Sites \X Shas |-> None]
    /\ tenants = [x \in Sites \X Users \X Shas |-> None]
    /\ up \in [Uploads -> [pc : {"start", "done"}, req : Requests, answer : {"none", "error"}]]
    /\ \E l \in Loads :
         /\ \A u \in l.uploads : up[u].pc = "start" /\ up[u].answer = "none"
         /\ \A u \in Uploads \ l.uploads :
              /\ up[u].pc = "done" /\ up[u].answer = "error"
              /\ up[u].req = CHOOSE r \in Requests : TRUE
         /\ fwd = IF l.federate THEN Quiet ELSE Off
    /\ cache = [p \in Paths |-> None]
    /\ touched = {}
    /\ uploaded = {}
-----------------------------------------------------------------------------
At(u, pc) == up[u].pc = pc
Goto(u, pc) == up' = [up EXCEPT ![u].pc = pc]
Answer(u, a) == up' = [up EXCEPT ![u].pc = "done", ![u].answer = a]

KeyFor(u) ==
    IF up[u].req.mode = "private" THEN tenant_key(up[u].req.who, up[u].req.sha)
    ELSE CasKey(up[u].req.type, up[u].req.sha)

(* Mutant of RowOf: private uploads are recognised by their hash alone. *)
RowOfHash(u) ==
    IF up[u].req.mode = "shared" THEN blobs[up[u].req.site, up[u].req.sha]
    ELSE IF \E o \in Users : tenants[up[u].req.site, o, up[u].req.sha] # None
         THEN tenants[up[u].req.site,
                      CHOOSE o \in Users : tenants[up[u].req.site, o, up[u].req.sha] # None, up[u].req.sha]
         ELSE None

(* The row an upload is recognised by: shared ones by their hash, private    *)
(* ones by their owner and hash.                                             *)
RowOf(u) ==
    IF up[u].req.mode = "private" THEN tenants[up[u].req.site, up[u].req.who, up[u].req.sha]
    ELSE blobs[up[u].req.site, up[u].req.sha]

(* A row: nothing is written again.  The bytes are not looked for. *)
LookupExisting(u) ==
    /\ At(u, "start")
    /\ \/ RowOf(u) # None /\ Answer(u, "existed")
       \/ RowOf(u) = None /\ Goto(u, "put")
       \/ Answer(u, "error")
    /\ UNCHANGED <<objects, rowVars, readVars, history>>

(* put_with_optional_attrs: a store without attributes keeps the bytes. *)
Stored(site, b, t) == Object(b, IF site \in HasAttrs THEN t ELSE None)

(* Mutant of PutBytes: the row is written first. *)
PutBytesLater(u) ==
    /\ At(u, "put")
    /\ Goto(u, IF up[u].req.mode = "shared" THEN "open" ELSE "insert")
    /\ UNCHANGED <<objects, rowVars, readVars, history>>

PutBytes(u) ==
    /\ At(u, "put")
    /\ \/ /\ objects' = [objects EXCEPT ![<<up[u].req.site, KeyFor(u)>>] =
                           Stored(up[u].req.site, up[u].req.sha, up[u].req.type)]
          /\ Goto(u, IF up[u].req.mode = "shared" THEN "open" ELSE "insert")
       \/ Answer(u, "error") /\ UNCHANGED objects
    /\ UNCHANGED <<rowVars, readVars, history>>

(* A shared upload keeps a provenance run around its row. *)
OpenRun(u) ==
    /\ At(u, "open")
    /\ Goto(u, "insert") \/ Answer(u, "error")
    /\ UNCHANGED <<objects, rowVars, readVars, history>>

Row(u) == [key |-> KeyFor(u), type |-> up[u].req.type]

(* INSERT ... ON CONFLICT: the row that is there stays.  A shared upload     *)
(* answers with its own key all the same, a private one with the row's.      *)
InsertShared(u) ==
    LET x == <<up[u].req.site, up[u].req.sha>> IN
    /\ At(u, "insert") /\ up[u].req.mode = "shared"
    /\ \/ /\ blobs' = IF blobs[x] = None THEN [blobs EXCEPT ![x] = Row(u)] ELSE blobs
          /\ Answer(u, "ok")
       \/ Answer(u, "error") /\ UNCHANGED blobs
    /\ UNCHANGED <<objects, tenants, readVars, history>>

InsertPrivate(u) ==
    LET x == <<up[u].req.site, up[u].req.who, up[u].req.sha>> IN
    /\ At(u, "insert") /\ up[u].req.mode = "private"
    /\ \/ /\ tenants' = IF tenants[x] = None THEN [tenants EXCEPT ![x] = Row(u)] ELSE tenants
          /\ uploaded' = uploaded \cup {x}
          /\ Answer(u, "ok")
       \/ Answer(u, "error") /\ UNCHANGED <<tenants, uploaded>>
    /\ UNCHANGED <<objects, blobs, readVars, touched>>

(* The client goes away and the handler is dropped where it waits. *)
Abandon(u) ==
    /\ up[u].pc \in {"put", "open", "insert"}
    /\ Answer(u, "error")
    /\ UNCHANGED <<objects, rowVars, readVars, history>>

(* POST /retrieve leaves its result in the store of the site that ran it. *)
Materialize(site, x) ==
    /\ objects[site, RetrievalKey(x)] = None
    /\ <<site, RetrievalKey(x)>> \notin touched
    /\ objects' = [objects EXCEPT ![<<site, RetrievalKey(x)>>] = Stored(site, Other, Octet)]
    /\ UNCHANGED <<rowVars, up, readVars, history>>

(* PUT and DELETE by key, for holders of the write scope. *)
PutBlob(site, k) ==
    /\ Cardinality(touched) < MaxTouches
    /\ objects' = [objects EXCEPT ![<<site, k>>] = Stored(site, Other, Octet)]
    /\ touched' = touched \cup {<<site, k>>}
    /\ UNCHANGED <<rowVars, up, readVars, uploaded>>

DeleteBlob(site, k) ==
    /\ Cardinality(touched) < MaxTouches
    /\ objects' = [objects EXCEPT ![<<site, k>>] = None]
    /\ touched' = touched \cup {<<site, k>>}
    /\ UNCHANGED <<rowVars, up, readVars, uploaded>>
-----------------------------------------------------------------------------
may_read_tenant(who, o) == who = Root \/ who = o

(* The bytes serve_blob answers with at a site; None is 404, which is also   *)
(* what a private key of somebody else looks like.                           *)
ServeBlob(site, who, k) ==
    IF \/ k \in TenantKeys /\ ~may_read_tenant(who, k[2])
       \/ objects[site, k] = None
    THEN None ELSE objects[site, k].bytes

(* The type it answers with: the object's, else raw.blobs' row of the hash   *)
(* in the key, else that of unknown bytes.                                   *)
ContentType(site, k) ==
    IF objects[site, k].type # None THEN objects[site, k].type
    ELSE IF k \in CasKeys \cup TenantKeys /\ blobs[site, k[3]] # None
         THEN blobs[site, k[3]].type
         ELSE Octet

(* GET /me/blobs/<hash>: the caller's row, then the object it names. *)
FetchOwn(site, who, s) ==
    LET row == tenants[site, who, s] IN
    IF row = None \/ objects[site, row.key] = None THEN None ELSE objects[site, row.key].bytes

(* GET /blobs with a limit: the results it may give.  Retrieval results are  *)
(* hidden from everyone, private blobs from all but privileged callers, and  *)
(* both before the limit is applied.                                         *)
Visible(site, who) ==
    {k \in Keys \ RetrievalKeys :
       objects[site, k] # None /\ (k \in TenantKeys => who = Root)}

ListBlobs(site, who, limit) ==
    LET visible == Visible(site, who) IN
    {[objects |-> S, truncated |-> Cardinality(visible) > limit] :
       S \in {T \in SUBSET visible : Cardinality(T) <= limit
                                      /\ (Cardinality(T) < limit => T = visible)}}

(* What the handler of a read may answer at a site: it sees the key. *)
Handle(site, who, p) ==
    IF p \in ListPaths THEN ListBlobs(site, who, p.limit)
    ELSE {ServeBlob(site, who, p.key)}

(* Mutant of LocalOnly: private keys are read from the peer. *)
LocalOnlyRetrievals(p) == p \in BlobPaths /\ p.plain /\ p.key \in RetrievalKeys

(* What a shadow never forwards: private blobs, and the retrieval results    *)
(* it has itself, both known by the prefix of the path as it was sent.       *)
LocalOnly(p) == p \in BlobPaths /\ p.plain /\ p.key \in TenantKeys \cup RetrievalKeys

(* A read at a site, as far as it is answered there: on a shadow that        *)
(* forwards, a read that is not local-only is the answer cached for its      *)
(* path, whoever it was first given to, or goes to the peer.                 *)
Get(site, who, p) ==
    IF site = "primary" \/ fwd.pc = "off" \/ LocalOnly(p) THEN Handle(site, who, p)
    ELSE {IF cache[p] = None THEN Forwarded ELSE cache[p].got}

(* shadow_forward past its cache: the peer is asked with the peer's own      *)
(* local key, whoever the caller is.                                         *)
ShadowForward(p) ==
    /\ ~LocalOnly(p) /\ cache[p] = None /\ fwd.pc = "idle"
    /\ fwd' = [pc |-> "asked", path |-> p, got |-> None]
    /\ UNCHANGED <<objects, rowVars, up, cache, history>>

PeerAnswers ==
    /\ fwd.pc = "asked"
    /\ \E got \in Handle("primary", Root, fwd.path) :
         fwd' = [pc |-> "answered", path |-> fwd.path, got |-> got]
    /\ UNCHANGED <<objects, rowVars, up, cache, history>>

PeerUnreachable ==
    /\ fwd.pc = "asked"
    /\ fwd' = Quiet
    /\ UNCHANGED <<objects, rowVars, up, cache, history>>

(* Only a 200 is kept. *)
Relay ==
    /\ fwd.pc = "answered"
    /\ cache' = IF fwd.got = None THEN cache
                ELSE [cache EXCEPT ![fwd.path] = [got |-> fwd.got, age |-> 0]]
    /\ fwd' = Quiet
    /\ UNCHANGED <<objects, rowVars, up, history>>

(* Mutant of Age: entries are dropped only by pressure, never by age. *)
AgeNever ==
    /\ \E p \in Paths : cache[p] # None
    /\ UNCHANGED vars

Age ==
    /\ \E p \in Paths : cache[p] # None
    /\ cache' = [p \in Paths |-> IF cache[p] = None \/ cache[p].age + 1 >= Ttl THEN None
                                 ELSE [cache[p] EXCEPT !.age = @ + 1]]
    /\ UNCHANGED <<objects, rowVars, up, fwd, history>>
-----------------------------------------------------------------------------
Step(u) ==
    LookupExisting(u) \/ PutBytes(u) \/ OpenRun(u) \/ InsertShared(u) \/ InsertPrivate(u)

Next ==
    \/ \E u \in Uploads : Step(u) \/ Abandon(u)
    \/ \E site \in Sites, x \in Runs : Materialize(site, x)
    \/ \E site \in Sites, k \in Keys : PutBlob(site, k) \/ DeleteBlob(site, k)
    \/ \E p \in Paths : ShadowForward(p)
    \/ PeerAnswers \/ PeerUnreachable \/ Relay \/ Age

Spec == Init /\ [][Next]_vars

(* Forwarded reads end, by an answer or a timeout, and time passes. *)
FairSpec == Spec /\ WF_vars(PeerAnswers \/ Relay) /\ WF_vars(Age)
-----------------------------------------------------------------------------
(* Every variable has its type. *)
TypeOK ==
    /\ objects \in [Sites \X Keys -> Objects \cup {None}]
    /\ blobs \in [Sites \X Shas -> Rows \cup {None}]
    /\ tenants \in [Sites \X Users \X Shas -> Rows \cup {None}]
    /\ up \in [Uploads -> [pc : Places, req : Requests, answer : Answers]]
    /\ cache \in [Paths -> [got : Bodies, age : 0 .. Ttl - 1] \cup {None}]
    /\ fwd \in [pc : {"off", "idle", "asked", "answered"}, path : Paths \cup {None},
                got : Bodies \cup {None}]
    /\ touched \subseteq Sites \X Keys
    /\ uploaded \subseteq Sites \X Users \X Shas

(* A row names a key that holds the bytes of its hash, whichever uploads     *)
(* raced, failed or were abandoned half-way, and an owner reads back what it *)
(* uploaded, unless the key was written or deleted directly.                 *)
RowsHaveBytes ==
    \A site \in Sites, s \in Shas :
      /\ LET row == blobs[site, s] IN
         row # None /\ <<site, row.key>> \notin touched
           => objects[site, row.key] # None /\ objects[site, row.key].bytes = s
      /\ \A o \in Users :
           tenants[site, o, s] # None /\ <<site, tenants[site, o, s].key>> \notin touched
             => FetchOwn(site, o, s) = s

(* The content type of a shared blob survives a store that keeps none: what  *)
(* is served at the key of its row is a type some upload of these bytes to   *)
(* that key declared.                                                        *)
TypeSurvives ==
    \A site \in Sites, s \in Shas :
      LET row == blobs[site, s] IN
      row # None /\ <<site, row.key>> \notin touched
        => \E u \in Uploads : /\ up[u].req.site = site /\ KeyFor(u) = row.key
                              /\ up[u].req.type = ContentType(site, row.key)

(* A tenant is told that a private blob exists only if it uploaded those     *)
(* bytes itself, and its row names its own key: nobody else's upload shows.  *)
DedupWithinTenant ==
    /\ \A u \in Uploads :
         up[u].req.mode = "private" /\ up[u].answer = "existed"
           => <<up[u].req.site, up[u].req.who, up[u].req.sha>> \in uploaded
    /\ \A site \in Sites, o \in Users, s \in Shas :
         tenants[site, o, s] # None => tenants[site, o, s].key = tenant_key(o, s)

(* A private key and everybody else: the primary answers 404 whichever way   *)
(* the path is written, and so does the shadow from its own store when the   *)
(* path is written plainly.  No peer's answer to such a path is ever under   *)
(* way or cached, for the cache does not know who asked.                     *)
TenantPrivate ==
    \A p \in BlobPaths : p.key \in TenantKeys =>
      /\ p.plain => fwd.path # p /\ cache[p] = None
      /\ \A who \in Users \ {p.key[2]} :
           /\ Get("primary", who, p) = {None}
           /\ p.plain => Get("shadow", who, p) = {None}

(* The URI a retrieval hands out works where it was handed out: a result     *)
(* that is in a site's store is found by a plain read at that site.          *)
RetrievalReadable ==
    \A site \in Sites, who \in Callers, p \in BlobPaths :
      p.plain /\ p.key \in RetrievalKeys /\ objects[site, p.key] # None
        => Get(site, who, p) = {objects[site, p.key].bytes}

(* A listing of the primary that is not marked truncated has everything its  *)
(* caller may see and nothing else, and one that is marked is full.  What    *)
(* the shadow answers has no retrieval results either and keeps the limit.   *)
ListingExact ==
    \A who \in Callers, p \in ListPaths :
      /\ \A l \in Get("primary", who, p) :
           /\ l.objects \subseteq Visible("primary", who)
           /\ IF l.truncated THEN Cardinality(l.objects) = p.limit
              ELSE l.objects = Visible("primary", who)
      /\ \A l \in Get("shadow", who, p) \ {Forwarded} :
           /\ l.objects \cap RetrievalKeys = {}
           /\ Cardinality(l.objects) <= p.limit
           /\ l.truncated => Cardinality(l.objects) = p.limit

(* An answer that shows a key: its bytes, or a listing that names it. *)
Shows(p, got, k) == IF p \in ListPaths THEN k \in got.objects ELSE p.key = k

ShownByShadow(k) ==
    \/ \E p \in Paths : cache[p] # None /\ Shows(p, cache[p].got, k)
    \/ fwd.pc = "answered" /\ fwd.got # None /\ Shows(fwd.path, fwd.got, k)

(* Once a key is gone from the primary for good, the shadow stops serving    *)
(* and listing what it took from there: a cached copy lives for its TTL and  *)
(* a late answer once more.                                                  *)
DeletionReachesShadow ==
    \A k \in Keys :
      <>[](objects["primary", k] = None) => <>[]~ShownByShadow(k)

(* handlers/blobs.rs:218 and me_blobs.rs:15 say that private blobs never     *)
(* appear in the shared listing of anybody but admins and local keys.  A     *)
(* shadow lists with the peer's local key and keeps the answer for everyone. *)
ListingHidesPrivate ==
    \A site \in Sites, who \in Users, p \in ListPaths :
      \A l \in Get(site, who, p) \ {Forwarded} : l.objects \cap TenantKeys = {}

(* handlers/me_blobs.rs:13 says that a private blob is readable by its owner *)
(* only, GET /blobs/<key> included.  A shadow that does not see from the     *)
(* path that the key is private asks the peer with its local key, and keeps  *)
(* the bytes for whoever sends that path next.                               *)
PrivateByOwner ==
    \A site \in Sites, who \in Users, p \in BlobPaths :
      p.key \in TenantKeys /\ who # p.key[2] => Get(site, who, p) \subseteq {None, Forwarded}

(* What is stored: rows have their bytes and their content type, whatever  *)
(* uploads raced or stopped between the object and its row.                *)
StoreInv == TypeOK /\ RowsHaveBytes /\ TypeSurvives

(* What is read: private bytes by their owner only, results where they     *)
(* were handed out, listings complete.                                     *)
ReadInv == TenantPrivate /\ RetrievalReadable /\ ListingExact
=============================================================================
