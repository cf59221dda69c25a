-------------------------------- MODULE Gate --------------------------------
(***************************************************************************)
(* What a request passes before its handler runs: the token its headers    *)
(* carry, the identity that token stands for (a local key, or lum.id's     *)
(* answer, cached), the fixed-window rate limit of its key, and the        *)
(* in-flight slots of its key and of its address, held until the response  *)
(* body is dropped.  WebSocket handlers use the same resolution outside    *)
(* the limits.  The clock is two things here: the window it falls in and   *)
(* the age of the entries of the introspection cache.                      *)
(***************************************************************************)
EXTENDS Integers, FiniteSets

CONSTANTS
    Reqs,         \* request slots, each used again and again
    Pats,         \* tokens of lum.id; each names one subject
    LocalKeys,    \* tokens of LUMID_API_KEYS
    Malformed,    \* tokens of neither shape
    None,         \* no token
    Ips,          \* client addresses
    Headers,      \* the header combinations each request slot may carry
    AnonLimit, AuthedLimit,    \* requests per window
    PerKey, PerIp,             \* in-flight limits
    Ttl,          \* ages an introspection answer is kept for
    MaxWindow     \* bound: windows the clock goes through

Tokens == Pats \cup LocalKeys \cup Malformed
Keys == Pats \cup LocalKeys \cup Ips    \* id:<sub> or ip:<addr>
AddrBucket(i) == <<"addr", i>>          \* the bare address, the other kind of bucket
Buckets == Keys \cup {AddrBucket(i) : i \in Ips}

ASSUME GateConstants ==
    /\ IsFiniteSet(Reqs) /\ IsFiniteSet(Ips)
    /\ None \notin Tokens \cup Ips
    /\ \A i \in Ips : AddrBucket(i) \notin Keys
    /\ \A r \in Reqs :
         /\ Headers[r] # {}
         /\ Headers[r] \subseteq [apiKey : Tokens \cup {None}, bearer : Tokens \cup {None},
                                  proto : Tokens \cup {None}, ip : Ips]
    /\ AnonLimit \in Nat /\ AuthedLimit \in Nat
    /\ PerKey \in Nat \ {0} /\ PerIp \in Nat \ {0}
    /\ Ttl \in Nat \ {0} /\ MaxWindow \in Nat

VARIABLES
    req,       \* per request: progress, headers, identity, window read
    active,    \* lum.id's own view of each token
    cache,     \* introspection cache: token to answer and age
    window,    \* the window the clock is in
    bucket,    \* rate limiter: key to the window and count
    inflight,  \* concurrency limiter: bucket to its counter
    admitted,  \* history: requests let through, by key and window
    late       \* history: requests counted behind a newer window, by key

vars == <<req, active, cache, window, bucket, inflight, admitted, late>>
authVars == <<active, cache>>
rateVars == <<bucket, admitted, late>>

Windows == 0 .. MaxWindow
Pcs == {"idle", "resolve", "asking", "answered", "rate", "count", "key", "undoKey", "ip",
        "undoIp", "identity", "serving", "body", "dropKey", "dropIp", "ws"}
Answers == {"active", "no", "lost"}

AllHeaders == UNION {Headers[r] : r \in Reqs}
Idle == [pc |-> "idle", via |-> "gate", hdr |-> CHOOSE h \in AllHeaders : TRUE, ident |-> None,
         answer |-> "lost", win |-> 0]

Init ==
    /\ req = [r \in Reqs |-> Idle]
    /\ active = [t \in Pats |-> TRUE]
    /\ cache = [t \in Pats |-> None]
    /\ window = 0
    /\ bucket = [k \in Keys |-> [win |-> 0, count |-> 0]]
    /\ inflight = [b \in Buckets |-> 0]
    /\ admitted = [k \in Keys |-> [w \in Windows |-> 0]]
    /\ late = [k \in Keys |-> 0]
-----------------------------------------------------------------------------
At(r, pc) == req[r].pc = pc
Goto(r, pc) == req' = [req EXCEPT ![r].pc = pc]

FirstOf(s) ==
    IF \E n \in DOMAIN s : s[n] # None
    THEN s[CHOOSE n \in DOMAIN s : s[n] # None /\ \A m \in 1 .. n - 1 : s[m] = None]
    ELSE None

(* The gate looks at x-api-key first, a WebSocket at Authorization first.  *)
extract_token(h) == FirstOf(<<h.apiKey, h.bearer>>)
extract_ws_token(h) == FirstOf(<<h.bearer, h.apiKey, h.proto>>)
TokenOf(r) ==
    IF req[r].via = "ws" THEN extract_ws_token(req[r].hdr) ELSE extract_token(req[r].hdr)

(* The rate-limit key: the identity, or the address of a caller without one. *)
KeyOf(r) == IF req[r].ident = None THEN req[r].hdr.ip ELSE req[r].ident
AddrOf(r) == AddrBucket(req[r].hdr.ip)

Arrive(r) ==
    /\ At(r, "idle")
    /\ \E h \in Headers[r], v \in {"gate", "ws"} :
         req' = [req EXCEPT ![r].pc = "resolve", ![r].hdr = h, ![r].via = v]
    /\ UNCHANGED <<authVars, window, rateVars, inflight>>

(* An identity in hand, or none at all: the gate goes on to the limits, a    *)
(* WebSocket to its upgrade (which needs an identity).                       *)
Resolved(r, who) ==
    req' = [req EXCEPT ![r] =
              IF req[r].via = "ws" /\ who = None THEN Idle
              ELSE [req[r] EXCEPT !.pc = IF req[r].via = "ws" THEN "ws" ELSE "rate",
                                  !.ident = who, !.answer = Idle.answer]]

(* The response is sent and nothing is held; the slot is free again. *)
Refuse(r) == req' = [req EXCEPT ![r] = Idle]

(* resolve_identity up to the question to lum.id: no token, a local key, a   *)
(* token of the wrong shape, a cached answer.                                *)
ResolveLocally(r) ==
    LET t == TokenOf(r) IN
    /\ At(r, "resolve")
    /\ \/ t \in LocalKeys \cup {None} /\ Resolved(r, t)
       \/ t \in Malformed /\ Refuse(r)
    /\ UNCHANGED <<authVars, window, rateVars, inflight>>

(* Mutant of ResolveCached: a hit renews the entry it was served from. *)
ResolveCachedRenews(r) ==
    LET t == TokenOf(r) IN
    /\ At(r, "resolve") /\ t \in Pats /\ cache[t] # None
    /\ IF cache[t].ok THEN Resolved(r, t) ELSE Refuse(r)
    /\ cache' = [cache EXCEPT ![t].age = 0]
    /\ UNCHANGED <<active, window, rateVars, inflight>>

ResolveCached(r) ==
    LET t == TokenOf(r) IN
    /\ At(r, "resolve") /\ t \in Pats /\ cache[t] # None
    /\ IF cache[t].ok THEN Resolved(r, t) ELSE Refuse(r)
    /\ UNCHANGED <<authVars, window, rateVars, inflight>>

Ask(r) ==
    LET t == TokenOf(r) IN
    /\ At(r, "resolve") /\ t \in Pats /\ cache[t] = None
    /\ Goto(r, "asking")
    /\ UNCHANGED <<authVars, window, rateVars, inflight>>

(* lum.id answers from what it knows now and the answer is read later: the  *)
(* token is active; it is not, or the status is not 200; or there is no      *)
(* answer (lum.id cannot be reached, the body is not JSON).                  *)
LumidAnswers(r) ==
    /\ At(r, "asking")
    /\ \E a \in Answers :
         /\ a = "active" => active[TokenOf(r)]
         /\ req' = [req EXCEPT ![r].pc = "answered", ![r].answer = a]
    /\ UNCHANGED <<authVars, window, rateVars, inflight>>

(* Yes and no are cached; no answer is not (401 or 503, fail closed). *)
Introspected(r) ==
    LET a == req[r].answer IN
    /\ At(r, "answered")
    /\ IF a = "active" THEN Resolved(r, TokenOf(r)) ELSE Refuse(r)
    /\ cache' = [cache EXCEPT ![TokenOf(r)] =
                   IF a = "lost" THEN @ ELSE [ok |-> a = "active", age |-> 0]]
    /\ UNCHANGED <<active, window, rateVars, inflight>>

Expires(e) == e.age + 1 >= Ttl

(* The cache's clock: every entry grows older and goes at its TTL; under     *)
(* pressure an entry may go before.                                          *)
Age ==
    /\ \E t \in Pats : cache[t] # None
    /\ cache' = [t \in Pats |-> IF cache[t] = None \/ Expires(cache[t]) THEN None
                                ELSE [cache[t] EXCEPT !.age = @ + 1]]
    /\ UNCHANGED <<req, active, window, rateVars, inflight>>

Evict(t) ==
    /\ cache[t] # None
    /\ cache' = [cache EXCEPT ![t] = None]
    /\ UNCHANGED <<req, active, window, rateVars, inflight>>

(* The owner of a token revokes it, or has it reinstated. *)
ChangeToken(t) ==
    /\ active' = [active EXCEPT ![t] = ~@]
    /\ UNCHANGED <<req, cache, window, rateVars, inflight>>
-----------------------------------------------------------------------------
(* The clock passes into the next window. *)
NextWindow ==
    /\ window < MaxWindow
    /\ window' = window + 1
    /\ UNCHANGED <<req, authVars, rateVars, inflight>>

LimitOf(k) == IF k \in Ips THEN AnonLimit ELSE AuthedLimit

(* check reads the clock, then takes the bucket's lock. *)
ReadClock(r) ==
    /\ At(r, "rate")
    /\ req' = [req EXCEPT ![r].pc = "count", ![r].win = window]
    /\ UNCHANGED <<authVars, window, rateVars, inflight>>

(* Mutant of Counted: a bucket that has run full starts again. *)
CountedRestarts(k, w) ==
    IF bucket[k].win # w \/ bucket[k].count > LimitOf(k) THEN 1 ELSE bucket[k].count + 1

(* The count after this request; nothing tells apart the values above the    *)
(* limit, so it stops one above it.                                          *)
Counted(k, w) ==
    IF bucket[k].win # w THEN 1
    ELSE IF bucket[k].count > LimitOf(k) THEN bucket[k].count ELSE bucket[k].count + 1

Check(r) ==
    LET k == KeyOf(r)
        w == req[r].win
        count == Counted(k, w)
        allowed == count <= LimitOf(k)
    IN
    /\ At(r, "count")
    /\ bucket' = [bucket EXCEPT ![k] = [win |-> w, count |-> count]]
    /\ late' = IF bucket[k].win > w THEN [late EXCEPT ![k] = @ + 1] ELSE late
    /\ admitted' = IF allowed THEN [admitted EXCEPT ![k][w] = @ + 1] ELSE admitted
    /\ IF allowed THEN req' = [req EXCEPT ![r].pc = "key", ![r].win = Idle.win] ELSE Refuse(r)
    /\ UNCHANGED <<authVars, window, inflight>>
-----------------------------------------------------------------------------
Fits(prev, limit) == prev < limit

(* try_acquire: add first, look at what was there, take it back if full. *)
AcquireKey(r) ==
    /\ At(r, "key")
    /\ inflight' = [inflight EXCEPT ![KeyOf(r)] = @ + 1]
    /\ Goto(r, IF Fits(inflight[KeyOf(r)], PerKey) THEN "ip" ELSE "undoKey")
    /\ UNCHANGED <<authVars, window, rateVars>>

UndoKey(r) ==
    /\ At(r, "undoKey")
    /\ inflight' = [inflight EXCEPT ![KeyOf(r)] = @ - 1]
    /\ Refuse(r)
    /\ UNCHANGED <<authVars, window, rateVars>>

AcquireIp(r) ==
    /\ At(r, "ip")
    /\ inflight' = [inflight EXCEPT ![AddrOf(r)] = @ + 1]
    /\ Goto(r, IF Fits(inflight[AddrOf(r)], PerIp) THEN "identity" ELSE "undoIp")
    /\ UNCHANGED <<authVars, window, rateVars>>

(* Mutant of UndoIp: the key's slot is forgotten. *)
UndoIpKeepsKey(r) ==
    /\ At(r, "undoIp")
    /\ inflight' = [inflight EXCEPT ![AddrOf(r)] = @ - 1]
    /\ Refuse(r)
    /\ UNCHANGED <<authVars, window, rateVars>>

(* The address is full: its slot is taken back, then the guard of the key    *)
(* that was already acquired is dropped.                                     *)
UndoIp(r) ==
    /\ At(r, "undoIp")
    /\ inflight' = [inflight EXCEPT ![AddrOf(r)] = @ - 1]
    /\ Goto(r, "undoKey")
    /\ UNCHANGED <<authVars, window, rateVars>>

(* Anonymous callers are counted like others and turned away only now; the   *)
(* rest reach the handler.                                                   *)
RequireIdentity(r) ==
    /\ At(r, "identity")
    /\ Goto(r, IF req[r].ident = None THEN "dropKey" ELSE "serving")
    /\ UNCHANGED <<authVars, window, rateVars, inflight>>

(* The handler's response is wrapped with the guards (CountedBody). *)
HandlerReturns(r) ==
    /\ At(r, "serving")
    /\ Goto(r, "body")
    /\ UNCHANGED <<authVars, window, rateVars, inflight>>

(* The body is consumed, or the client goes away before that or while the    *)
(* handler still runs: the guards are dropped, the key's first.              *)
Finished(r) ==
    /\ req[r].pc \in {"serving", "body"}
    /\ Goto(r, "dropKey")
    /\ UNCHANGED <<authVars, window, rateVars, inflight>>

DropKey(r) ==
    /\ At(r, "dropKey")
    /\ inflight' = [inflight EXCEPT ![KeyOf(r)] = @ - 1]
    /\ Goto(r, "dropIp")
    /\ UNCHANGED <<authVars, window, rateVars>>

DropIp(r) ==
    /\ At(r, "dropIp")
    /\ inflight' = [inflight EXCEPT ![AddrOf(r)] = @ - 1]
    /\ Refuse(r)
    /\ UNCHANGED <<authVars, window, rateVars>>

(* A WebSocket ends; no limit of this module applied to it. *)
WsClosed(r) ==
    /\ At(r, "ws")
    /\ Refuse(r)
    /\ UNCHANGED <<authVars, window, rateVars, inflight>>

(* Steps the runtime takes for a request once it has arrived. *)
Step(r) ==
    \/ ResolveLocally(r) \/ ResolveCached(r) \/ Ask(r) \/ LumidAnswers(r) \/ Introspected(r)
    \/ ReadClock(r) \/ Check(r) \/ AcquireKey(r) \/ UndoKey(r) \/ AcquireIp(r) \/ UndoIp(r)
    \/ RequireIdentity(r) \/ HandlerReturns(r) \/ DropKey(r) \/ DropIp(r)

Next ==
    \/ \E r \in Reqs : Arrive(r) \/ Step(r) \/ Finished(r) \/ WsClosed(r)
    \/ \E t \in Pats : Evict(t) \/ ChangeToken(t)
    \/ Age \/ NextWindow

Spec == Init /\ [][Next]_vars

(* Tasks are scheduled, a call to lum.id ends by its timeout, and time       *)
(* passes.  Nobody promises that a client consumes its body, or comes.       *)
FairSpec == Spec /\ WF_vars(Age) /\ \A r \in Reqs : WF_vars(Step(r))
-----------------------------------------------------------------------------
(* Every variable has its type. *)
TypeOK ==
    /\ req \in [Reqs -> [pc : Pcs, via : {"gate", "ws"}, hdr : AllHeaders,
                         ident : Tokens \cup {None}, answer : Answers, win : Windows]]
    /\ active \in [Pats -> BOOLEAN]
    /\ cache \in [Pats -> [ok : BOOLEAN, age : 0 .. Ttl - 1] \cup {None}]
    /\ window \in Windows
    /\ bucket \in [Keys -> [win : Windows, count : Nat]]
    /\ inflight \in [Buckets -> Nat]
    /\ admitted \in [Keys -> [Windows -> Nat]]
    /\ late \in [Keys -> Nat]

KeyHeld == {"undoKey", "ip", "undoIp", "identity", "serving", "body", "dropKey"}
AddrHeld == {"undoIp", "identity", "serving", "body", "dropKey", "dropIp"}
HoldersOfKey(k) == {r \in Reqs : req[r].pc \in KeyHeld /\ KeyOf(r) = k}
HoldersOfAddr(i) == {r \in Reqs : req[r].pc \in AddrHeld /\ req[r].hdr.ip = i}

(* Each in-flight counter is the number of requests between their increment  *)
(* and their decrement: refusals, anonymous callers, disconnects and long    *)
(* bodies give back exactly the slots they took.                             *)
SlotsAccounted ==
    /\ \A k \in Keys : inflight[k] = Cardinality(HoldersOfKey(k))
    /\ \A i \in Ips : inflight[AddrBucket(i)] = Cardinality(HoldersOfAddr(i))

Served == {"identity", "serving", "body"}

(* However the increments and decrements of refused requests interleave      *)
(* with those of admitted ones, no key and no address has more requests with *)
(* a handler or a body alive than its limit.                                 *)
WithinLimits ==
    /\ \A k \in Keys : Cardinality({r \in HoldersOfKey(k) : req[r].pc \in Served}) <= PerKey
    /\ \A i \in Ips : Cardinality({r \in HoldersOfAddr(i) : req[r].pc \in Served}) <= PerIp

(* A window admits its limit of requests of a key, and one limit more for    *)
(* each request that read the clock before the window and was counted in it: *)
(* such a request sets the bucket back, and the window starts again.         *)
WindowBounded ==
    \A k \in Keys : \A w \in Windows : admitted[k][w] <= LimitOf(k) * (1 + late[k])

(* A request is taken for the token's subject in this step: the gate sends  *)
(* it on to the limits, a WebSocket handler to its upgrade.                  *)
Accepts(r, t) ==
    /\ req[r].pc \in {"resolve", "answered"}
    /\ req'[r].pc \in {"rate", "ws"}
    /\ req'[r].ident = t

(* Once a token is revoked for good, the gate and the WebSocket handlers in  *)
(* the end accept no request with it: the cached answer ages out whatever    *)
(* traffic presents the token, and an answer already under way is the last   *)
(* that can renew it.  A WebSocket that is open stays open.                  *)
RevocationTakesEffect ==
    \A t \in Pats :
        <>[]~active[t] => <>[][\A r \in Reqs : ~Accepts(r, t)]_vars

(* Types, exact in-flight counters, and limits that hold under every       *)
(* interleaving: the safety of ConcurrencyLimiter::acquire.                *)
GateInv == TypeOK /\ SlotsAccounted /\ WithinLimits
=============================================================================
