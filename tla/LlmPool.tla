------------------------------ MODULE LlmPool ------------------------------
(***************************************************************************)
(* The LLM gateway: the pool of local backends (llm_pool.rs) with its      *)
(* in-flight slots, circuit breakers, prober and queue scraper, and the    *)
(* requests that go through it (handlers/llm.rs), from the routing decision *)
(* to the end of a hedged stream.  OpenRouter is the metered upstream that *)
(* absorbs what the pool cannot take.                                      *)
(***************************************************************************)
EXTENDS Integers, Sequences, FiniteSets

CONSTANTS
    Backends, Models, Requests,
    Admins,              \* the requests whose caller's role may spend
    NoBackend, NoModel,  \* no slot held; the request names no model
    OpenRouter,          \* the metered upstream, as a leg of the model list
    Configs,             \* the settings to consider, by name: see Intern
    DefaultModel,        \* llm_default_model, or NoModel
    OpenRouterMap,       \* LUMID_LLM_OPENROUTER_MODEL_MAP: local id to upstream id
    Advertised,          \* the ids a backend, and OpenRouter, list
    Flaky,               \* bound: the backends that may fail
    Claude,              \* the ids that begin with "claude-"
    DefaultRoof,         \* llm_backend_max_concurrency
    QueueRoof,           \* llm_queue_roof
    ThroughputWindow,    \* THROUGHPUT_WINDOW_S, in scraper ticks
    CircuitOpenAfter,
    Hedging,             \* llm_hedge_after_s > 0
    Chunks,              \* what an upstream may send: see Data
    MaxHedged            \* bound: hedge frames waiting in the channel

(* The number that is not there: a key is absent, or its text does not     *)
(* parse as a number.                                                      *)
Bad == -1

(* An entry of the roster is a URL with the keys of its suffix; a line of  *)
(* /metrics is a value of a family.                                        *)
Keys == {"tier", "max_concurrency", "short_tier", "short_roof"}
Entries == [url : Backends, keys : [Keys -> Nat \cup {Bad}]]
Rows == [model : Models, urls : Seq(Entries)]
Lines == [fam : STRING, val : Nat \cup {Bad}]

Routes == {"chat", "completions", "messages", "embeddings", "images", "count_tokens",
           "speech", "transcriptions", "models"}

ASSUME LlmConstants ==
    /\ IsFiniteSet(Requests) /\ IsFiniteSet(Backends)
    /\ Admins \subseteq Requests
    /\ NoBackend \notin Backends /\ NoModel \notin Models /\ OpenRouter \notin Backends
    /\ \A name \in DOMAIN Configs : LET c == Configs[name] IN
         /\ c.federate \in {"off", "peer", "unknown"}
         /\ c.asks \in [Requests -> SUBSET (Routes \X BOOLEAN)]
         /\ c.roster \in Seq(Rows)
         /\ c.primary \in Seq(Entries) /\ Len(c.primary) <= 1
         /\ c.openrouter \in BOOLEAN
         /\ c.metrics \subseteq Seq(Lines)
         /\ c.primary # << >> \/ \E i \in DOMAIN c.roster : c.roster[i].urls # << >>
    /\ DefaultModel \in Models \cup {NoModel} /\ Flaky \subseteq Backends
    /\ DOMAIN OpenRouterMap \subseteq Models /\ Claude \subseteq Models
    /\ Advertised \in [Backends \cup {OpenRouter} -> SUBSET Models]
    /\ DefaultRoof \in Nat /\ QueueRoof \in Nat /\ ThroughputWindow \in Nat \ {0}
    /\ CircuitOpenAfter \in Nat \ {0}
    /\ Hedging \in BOOLEAN
    /\ Chunks \subseteq {"data", "comment", "split"}
    /\ MaxHedged \in Nat

Mapped == DOMAIN OpenRouterMap
-----------------------------------------------------------------------------
(* The pool is built from the settings.                                   *)

Number(e, key, absent) ==
    IF e.keys[key] # Bad THEN e.keys[key] ELSE absent

(* parse_suffix: a typo loses the promotion, never the backend. *)
ParseSuffix(e) == [tier |-> Number(e, "tier", 0),
                   roof |-> Number(e, "max_concurrency", DefaultRoof)]

(* parse_short_suffix: both keys, valid, and a roof above 0; or no preference. *)
ParseShortSuffix(e) ==
    LET t == Number(e, "short_tier", Bad)
        r == Number(e, "short_roof", Bad)
    IN IF t # Bad /\ r > 0 THEN [tier |-> t, roof |-> r] ELSE [tier |-> 0, roof |-> 0]

Roster(c) == [i \in 1 .. Len(c.roster) |-> c.roster[i].urls]

(* Mutant of InternOrder: the bare fallback is interned first. *)
InternOrderPrimaryFirst(c) == <<c.primary>> \o Roster(c)

(* The order in which intern_backends sees the URLs: the roster first, row *)
(* by row.                                                                 *)
InternOrder(c) == Append(Roster(c), c.primary)

Places(rows) == UNION {{<<i, j>> : j \in DOMAIN rows[i]} : i \in DOMAIN rows}
Before(p, q) == p[1] < q[1] \/ (p[1] = q[1] /\ p[2] < q[2])
At(rows, p) == rows[p[1]][p[2]]

(* intern: the first entry of a URL makes its handle. *)
Firsts(rows) ==
    {p \in Places(rows) :
       \A q \in Places(rows) : Before(q, p) => At(rows, q).url # At(rows, p).url}
FirstOf(rows, b) == At(rows, CHOOSE p \in Firsts(rows) : At(rows, p).url = b)

Nth(ps, n) == CHOOSE p \in ps : Cardinality({q \in ps : Before(q, p)}) = n - 1

(* A model that the roster names twice has the last of its rows that is    *)
(* not empty.                                                              *)
RowOf(c, m) ==
    CHOOSE i \in DOMAIN c.roster :
      /\ c.roster[i].model = m /\ c.roster[i].urls # << >>
      /\ \A j \in DOMAIN c.roster : j > i /\ c.roster[j].model = m => c.roster[j].urls = << >>

Intern(c) ==
    LET rows == InternOrder(c)
        firsts == Firsts(rows)
        urls == {At(rows, p).url : p \in firsts}
        listed == {c.roster[i].model : i \in {j \in DOMAIN c.roster : c.roster[j].urls # << >>}}
    IN [config |-> c,
        byModel |-> [m \in listed |-> LET us == c.roster[RowOf(c, m)].urls
                                      IN [i \in 1 .. Len(us) |-> us[i].url]],
        all |-> [n \in 1 .. Cardinality(firsts) |-> At(rows, Nth(firsts, n)).url],
        primary |-> IF c.primary = << >> THEN NoBackend ELSE c.primary[1].url,
        own |-> [b \in urls |-> ParseSuffix(FirstOf(rows, b))],
        short |-> [b \in urls |-> ParseShortSuffix(FirstOf(rows, b))]]

Deployments == [name \in DOMAIN Configs |-> Intern(Configs[name])]

VARIABLES
    config,   \* the name of the settings the process started with
    inflight, healthy, failures, depth,  \* BackendHandle
    up,       \* does the backend accept work (its own state)
    prober,   \* the prober: its place in `all` and its step
    scraper,  \* the queue scraper, likewise
    window,   \* throughput_samples: the samples of a backend, with their age
    req       \* the requests: see Fresh

pool == <<inflight, healthy, failures, depth>>
world == <<config, up>>
background == <<prober, scraper, window>>
vars == <<pool, world, background, req>>

(* BackendPool (by_model, all, primary) and the fixed parts of the handles. *)
deployment == Deployments[config]

(* A request: what it asks; the backends it has still to try, and the one  *)
(* whose slot it holds; of its stream task, whether the client has left,   *)
(* the StreamSide that won, the hedge task, its channel, and the sides     *)
(* whose data frames the client has heard; and of a model list, the legs   *)
(* it awaits and the ones that answered.                                   *)
Fresh ==
    [pc |-> "done", kind |-> "json", model |-> NoModel, left |-> << >>, at |-> NoBackend,
     gone |-> FALSE, winner |-> "none", hedge |-> "off", hx |-> << >>, heard |-> {},
     owed |-> {}, got |-> {}]

Init ==
    /\ config \in DOMAIN Configs
    /\ inflight = [b \in Backends |-> 0]
    /\ healthy = [b \in Backends |-> TRUE]
    /\ failures = [b \in Backends |-> 0]
    /\ depth = [b \in Backends |-> -1]
    /\ up = [b \in Backends |-> TRUE]
    /\ prober = [i |-> 1, step |-> "look"]
    /\ scraper = [i |-> 1, step |-> "look"]
    /\ window = [b \in Backends |-> << >>]
    /\ req = [r \in Requests |-> Fresh]
-----------------------------------------------------------------------------
(* BackendHandle's gates.  An unknown depth, -1, never saturates. *)
AtQueueRoof(b) == QueueRoof > 0 /\ depth[b] >= 0 /\ depth[b] >= QueueRoof

AtRoof(b) ==
    LET roof == deployment.own[b].roof
    IN AtQueueRoof(b) \/ (roof > 0 /\ inflight[b] >= roof)

EffectiveTier(b, short) ==
    IF short /\ inflight[b] < deployment.short[b].roof
    THEN deployment.short[b].tier ELSE deployment.own[b].tier

ByModel == deployment.byModel

(* backends_for_class: the handles for a model, before they are sorted. *)
Handles(m) ==
    IF m \in DOMAIN ByModel THEN ByModel[m]
    ELSE IF (m # NoModel /\ DOMAIN ByModel # {}) \/ deployment.primary = NoBackend
    THEN << >>
    ELSE <<deployment.primary>>

(* The sort key (unhealthy, at the roof, tier, in flight), one rung at a   *)
(* time, each rung a number.                                               *)
Rank(b, short) ==
    <<IF healthy[b] THEN 0 ELSE 1, IF AtRoof(b) THEN 1 ELSE 0,
      EffectiveTier(b, short), inflight[b]>>

KeyLess(k, l) ==
    \E i \in 1 .. 4 : k[i] < l[i] /\ \A j \in 1 .. i - 1 : k[j] = l[j]

(* The stable sort of the handles: the orders that are one. *)
TryOrders(m, short) ==
    LET hs == Handles(m)
        n == Len(hs)
        key == [i \in 1 .. n |-> Rank(hs[i], short)]
        goes(i, j) == KeyLess(key[i], key[j]) \/ (key[i] = key[j] /\ i < j)
    IN {[i \in 1 .. n |-> hs[p[i]]] : p \in
          {q \in [1 .. n -> 1 .. n] : \A i, j \in 1 .. n : i < j => goes(q[i], q[j])}}

(* openrouter_serves and can_overflow_to_openrouter: the map is the        *)
(* allowlist, and no model is in it by default.                            *)
OpenRouterServes(m) == deployment.config.openrouter /\ m \in Mapped

(* resolve's verdict for a model with local backends. *)
Overflows(m) ==
    LET hs == {Handles(m)[i] : i \in 1 .. Len(Handles(m))}
        allAtRoof == DefaultRoof > 0 /\ \A b \in hs : AtRoof(b)
        allDown == \A b \in hs : ~healthy[b]
    IN (allAtRoof \/ allDown) /\ OpenRouterServes(m)

(* resolve: Claude never; local backends unless they overflow; a mapped    *)
(* model with no backend for the privileged roles alone; nothing unknown.  *)
Verdict(m, privileged) ==
    IF m \in Claude THEN "refused"
    ELSE IF Handles(m) # << >> THEN (IF Overflows(m) THEN "openrouter" ELSE "local")
    ELSE IF OpenRouterServes(m) /\ privileged THEN "openrouter"
    ELSE "refused"
-----------------------------------------------------------------------------
(* The handlers: what a route accepts, and how it is dispatched. *)
KindOf(route, stream) ==
    CASE route = "models" -> "list"
      [] route = "speech" -> "bytes"
      [] route = "transcriptions" -> "multipart"
      [] route \in {"chat", "completions", "messages"} /\ stream -> "stream"
      [] OTHER -> "json"

Binary == {"bytes", "multipart"}

(* apply_default_model; the one multipart route has no default. *)
ApplyDefaultModel(m, kind) ==
    IF m = NoModel /\ kind # "multipart" THEN DefaultModel ELSE m

(* federation_peer: JSON and streams go to the peer, if one is configured; *)
(* the binary routes never look.                                           *)
Federated(kind) == deployment.config.federate # "off" /\ kind \notin Binary

(* dispatch_json, dispatch_stream, dispatch_bytes: where a request goes.   *)
(* Binary is never forwarded upstream.                                     *)
Dispatch(kind, m, privileged) ==
    LET verdict == Verdict(m, privileged)
    IN IF Federated(kind)
       THEN IF deployment.config.federate = "peer" THEN "peer" ELSE "refused"
       ELSE IF kind \in Binary /\ verdict = "openrouter" THEN "refused" ELSE verdict

(* audio_transcriptions: the form must name its model. *)
Malformed(kind, m) == kind = "multipart" /\ m = NoModel

(* The request's state becomes q. *)
To(r, q) == req' = [req EXCEPT ![r] = q]

(* A request arrives and is dispatched; one that is refused leaves no trace. *)
Resolve(r) ==
    /\ req[r].pc = "done"
    /\ \E ask \in deployment.config.asks[r], named \in Models \cup {NoModel}, short \in BOOLEAN :
         LET k == KindOf(ask[1], ask[2])
             m == ApplyDefaultModel(named, k)
             to == Dispatch(k, m, r \in Admins)
             asked == [Fresh EXCEPT !.kind = k, !.model = m]
         IN /\ k # "list" /\ ~Malformed(k, m)
            /\ \/ /\ to \in {"openrouter", "peer"}
                  /\ To(r, [asked EXCEPT !.pc = to])
               \/ /\ to = "local" /\ (k \in Binary => ~short)
                  /\ \E s \in TryOrders(m, short) : To(r, [asked EXCEPT !.pc = "try", !.left = s])
    /\ UNCHANGED <<pool, world, background>>

(* list_models: the peer's list; the list of the one base there is, through *)
(* proxy_json; or one leg for each of the bases, none of which takes a slot. *)
Bases ==
    {b \in {deployment.primary} : b # NoBackend}
    \cup {deployment.all[i] : i \in DOMAIN deployment.all}
    \cup (IF deployment.config.openrouter THEN {OpenRouter} ELSE {})

ListModels(r) ==
    LET asked == [Fresh EXCEPT !.kind = "list"]
    IN /\ req[r].pc = "done"
       /\ \E ask \in deployment.config.asks[r] : KindOf(ask[1], ask[2]) = "list"
       /\ IF Federated("list")
          THEN deployment.config.federate = "peer" /\ To(r, [asked EXCEPT !.pc = "peer"])
          ELSE IF Cardinality(Bases) = 1
          THEN \E s \in TryOrders(NoModel, FALSE) : To(r, [asked EXCEPT !.pc = "try", !.left = s])
          ELSE To(r, [asked EXCEPT !.pc = "list", !.owed = Bases])
       /\ UNCHANGED <<pool, world, background>>

(* A leg answers, fails, or is past its LEG_BUDGET. *)
ListLeg(r) ==
    /\ req[r].pc = "list"
    /\ \E b \in req[r].owed :
         \/ To(r, [req[r] EXCEPT !.owed = @ \ {b}])
         \/ /\ b # OpenRouter => up[b]
            /\ To(r, [req[r] EXCEPT !.owed = @ \ {b}, !.got = @ \cup {b}])
    /\ UNCHANGED <<pool, world, background>>

(* All legs are over: the merged list is the answer. *)
ListEnds(r) ==
    /\ req[r].pc = "list" /\ req[r].owed = {}
    /\ To(r, Fresh)
    /\ UNCHANGED <<pool, world, background>>

(* or_reverse: an upstream id's local id; of several, the map keeps one. *)
Reverses ==
    LET ids == {OpenRouterMap[m] : m \in Mapped}
    IN {f \in [ids -> Mapped] : \A u \in ids : OpenRouterMap[f[u]] = u}

(* Mutant of IdsOf: OpenRouter's catalog is merged verbatim. *)
IdsOfVerbatim(b, rev) == Advertised[b]

(* The ids a leg contributes: OpenRouter's under their local names, and    *)
(* only the mapped ones.                                                   *)
IdsOf(b, rev) ==
    IF b = OpenRouter THEN {rev[u] : u \in Advertised[b] \cap DOMAIN rev} ELSE Advertised[b]

(* The order of the legs: the primary, the pool, OpenRouter. *)
Precedes(b, c) ==
    LET place(x) == IF x = OpenRouter THEN Len(deployment.all) + 1
                    ELSE IF x = deployment.primary THEN 0
                    ELSE CHOOSE i \in DOMAIN deployment.all : deployment.all[i] = x
    IN place(b) < place(c)

(* The merged list: an id is listed once, from the first leg that has it. *)
Catalog(got, rev) ==
    {e \in Models \X got :
       /\ e[1] \in IdsOf(e[2], rev)
       /\ \A b \in got : e[1] \in IdsOf(b, rev) => ~Precedes(b, e[2])}

(* The next backend: BackendHandle::acquire takes a slot. *)
Try(r) ==
    /\ req[r].pc = "try" /\ req[r].left # << >>
    /\ LET b == Head(req[r].left)
       IN /\ inflight' = [inflight EXCEPT ![b] = @ + 1]
          /\ To(r, [req[r] EXCEPT !.pc = "send", !.at = b, !.left = Tail(@)])
    /\ UNCHANGED <<healthy, failures, depth, world, background>>

(* Mutant of Release: the guard does not go with the attempt. *)
ReleaseNothing(b) == inflight

(* Drop of the InFlightGuard, if there is one. *)
Release(b) == IF b = NoBackend THEN inflight ELSE [inflight EXCEPT ![b] = @ - 1]

(* The request is over, and with it the guard it held. *)
Ends(r) ==
    /\ To(r, Fresh)
    /\ inflight' = Release(req[r].at)

NextBackend(r) ==
    /\ To(r, [req[r] EXCEPT !.pc = "try", !.at = NoBackend])
    /\ inflight' = Release(req[r].at)

(* on_connect_err counts; the count matters up to the threshold only. *)
Counted(b) == IF failures[b] < CircuitOpenAfter THEN failures[b] + 1 ELSE CircuitOpenAfter

(* A connect error or a 503: count it, and open the circuit in a step of   *)
(* its own when the count says so; then the next backend.                  *)
SendFails(r) ==
    LET b == req[r].at
    IN /\ req[r].pc = "send" /\ ~up[b]
       /\ failures' = [failures EXCEPT ![b] = Counted(b)]
       /\ IF Counted(b) >= CircuitOpenAfter
          THEN /\ To(r, [req[r] EXCEPT !.pc = "trip"])
               /\ UNCHANGED inflight
          ELSE NextBackend(r)
       /\ UNCHANGED <<healthy, depth, world, background>>

Trip(r) ==
    /\ req[r].pc = "trip"
    /\ healthy' = [healthy EXCEPT ![req[r].at] = FALSE]
    /\ NextBackend(r)
    /\ UNCHANGED <<failures, depth, world, background>>

(* An answer: on_connect_ok resets the count, then closes the circuit.  A  *)
(* binary request takes a 503 for an answer too.                           *)
SendOk(r) ==
    LET b == req[r].at
    IN /\ req[r].pc = "send" /\ (up[b] \/ req[r].kind \in Binary)
       /\ failures' = [failures EXCEPT ![b] = 0]
       /\ To(r, [req[r] EXCEPT !.pc = "close"])
       /\ UNCHANGED <<inflight, healthy, depth, world, background>>

(* ... and then the body (of an error too) is read, or the stream starts. *)
Close(r) ==
    /\ req[r].pc = "close"
    /\ healthy' = [healthy EXCEPT ![req[r].at] = TRUE]
    /\ \E next \in {"body", "stream"} :
         /\ next = "stream" => req[r].kind = "stream"
         /\ To(r, [req[r] EXCEPT !.pc = next, !.left = << >>])
    /\ UNCHANGED <<inflight, failures, depth, world, background>>

Body(r) ==
    /\ req[r].pc = "body"
    /\ Ends(r)
    /\ UNCHANGED <<healthy, failures, depth, world, background>>

(* Mutant of Spills: an outage goes upstream whatever the model is. *)
SpillsAnything(r) == req[r].kind \in {"json", "stream"}

(* Which exhausted requests are spilled: the allowlist again.  A binary one *)
(* never is, nor a list, which has no body to name a model.                 *)
Spills(r) == req[r].kind \in {"json", "stream"} /\ OpenRouterServes(req[r].model)

(* No backend is left: OpenRouter, or the stored error. *)
Exhausted(r) ==
    /\ req[r].pc = "try" /\ req[r].left = << >>
    /\ To(r, IF Spills(r) THEN [req[r] EXCEPT !.pc = "openrouter"] ELSE Fresh)
    /\ UNCHANGED <<pool, world, background>>

(* proxy_json and its kin: the backend loop of each handler. *)
BackendLoop(r) ==
    Try(r) \/ SendFails(r) \/ Trip(r) \/ SendOk(r) \/ Close(r) \/ Body(r) \/ Exhausted(r)

ProxyJson(r) == req[r].kind \in {"json", "list"} /\ BackendLoop(r)
ProxyStream(r) == req[r].kind = "stream" /\ BackendLoop(r)
ProxyBytes(r) == req[r].kind = "bytes" /\ BackendLoop(r)
ProxyMultipart(r) == req[r].kind = "multipart" /\ BackendLoop(r)

(* proxy_json_openrouter: the answer, or an error. *)
ProxyJsonOpenRouter(r) ==
    /\ req[r].pc = "openrouter" /\ req[r].kind = "json"
    /\ To(r, Fresh)
    /\ UNCHANGED <<pool, world, background>>

(* proxy_stream_openrouter: a stream of its own, or one error frame. *)
ProxyStreamOpenRouter(r) ==
    /\ req[r].pc = "openrouter" /\ req[r].kind = "stream"
    /\ \/ To(r, [req[r] EXCEPT !.pc = "orstream"])
       \/ To(r, Fresh)
    /\ UNCHANGED <<pool, world, background>>

(* proxy_json_peer: the peer's answer, relayed, or an error. *)
ProxyJsonPeer(r) ==
    /\ req[r].pc = "peer" /\ req[r].kind \in {"json", "list"}
    /\ To(r, Fresh)
    /\ UNCHANGED <<pool, world, background>>

ProxyStreamPeer(r) ==
    /\ req[r].pc = "peer" /\ req[r].kind = "stream"
    /\ \/ To(r, [req[r] EXCEPT !.pc = "peerstream"])
       \/ To(r, Fresh)
    /\ UNCHANGED <<pool, world, background>>

(* The task of a relayed stream: a chunk that finds the client gone, and   *)
(* the end of the upstream, end it.                                        *)
Relaying == {"orstream", "peerstream"}
RelayEnds(r) ==
    /\ req[r].pc \in Relaying
    /\ To(r, Fresh)
    /\ UNCHANGED <<pool, world, background>>

(* The client leaves a handler that awaits: it is dropped with its guard. *)
Abandon(r) ==
    /\ req[r].pc \in {"send", "body", "openrouter", "peer", "list"}
    /\ Ends(r)
    /\ UNCHANGED <<healthy, failures, depth, world, background>>

(* The client leaves a stream: its channel is closed, its task is not told. *)
Disconnect(r) ==
    /\ req[r].pc \in {"stream", "drain"} \cup Relaying /\ ~req[r].gone
    /\ To(r, [req[r] EXCEPT !.gone = TRUE])
    /\ UNCHANGED <<pool, world, background>>
-----------------------------------------------------------------------------
(* The stream task of proxy_stream.  chunk_has_data_frame sees the data    *)
(* frames that a chunk holds whole, and not the parts of a split one.      *)
Data(c) == c = "data"

quiet == <<healthy, failures, depth, world, background>>

Won(r, side, c) == IF req[r].winner = "none" /\ Data(c) THEN side ELSE req[r].winner

(* The task forwards a chunk of a side, or finds the client gone. *)
Forward(r, side, c, q) ==
    IF req[r].gone
    THEN Ends(r)
    ELSE /\ To(r, [q EXCEPT !.heard = IF Data(c) THEN @ \cup {side} ELSE @])
         /\ UNCHANGED inflight

(* Mutant of LocalForwards: a late local answer is forwarded too. *)
LocalForwardsLate(w) == TRUE

LocalForwards(w) == w # "hedge"

(* A chunk of the local upstream: forwarded unless the hedge has won. *)
LocalChunk(r) ==
    /\ req[r].pc = "stream"
    /\ \E c \in Chunks :
         LET won == Won(r, "local", c)
             q == [req[r] EXCEPT !.winner = won]
         IN IF LocalForwards(won)
            THEN Forward(r, "local", c, q)
            ELSE To(r, q) /\ UNCHANGED inflight
    /\ UNCHANGED quiet

(* The local upstream ends: a hedge in flight that has not lost is drained. *)
LocalEnds(r) ==
    LET q == req[r]
    IN /\ q.pc = "stream"
       /\ IF \/ q.winner = "local" \/ q.hedge = "off"
             \/ q.hedge = "closed" /\ q.hx = << >>
          THEN Ends(r)
          ELSE To(r, [req[r] EXCEPT !.pc = "drain"]) /\ UNCHANGED inflight
       /\ UNCHANGED quiet

(* A frame of the hedge: the first data frame wins, and only a winner's    *)
(* frames are forwarded.                                                   *)
HedgeChunk(r) ==
    /\ req[r].pc = "stream" /\ req[r].hx # << >>
    /\ LET c == Head(req[r].hx)
           won == Won(r, "hedge", c)
           q == [req[r] EXCEPT !.winner = won, !.hx = Tail(@)]
       IN IF won = "hedge"
          THEN Forward(r, "hedge", c, q)
          ELSE To(r, q) /\ UNCHANGED inflight
    /\ UNCHANGED quiet

(* The hedge timer: no data yet and a plan, which needs a mapped model. *)
HedgeTimer(r) ==
    /\ req[r].pc = "stream" /\ req[r].hedge = "off" /\ req[r].winner = "none"
    /\ Hedging /\ OpenRouterServes(req[r].model)
    /\ To(r, [req[r] EXCEPT !.hedge = "asked"])
    /\ UNCHANGED <<pool, world, background>>

(* Mutant of Keepalive: the client is probed until the first data frame. *)
KeepaliveUndecided(r) ==
    /\ req[r].pc \in {"stream"} \cup Relaying /\ req[r].gone /\ req[r].winner = "none"
    /\ Ends(r)
    /\ UNCHANGED quiet

(* The keepalive tick of a stream or a relay, when it finds the client gone. *)
Keepalive(r) ==
    /\ req[r].pc \in {"stream"} \cup Relaying /\ req[r].gone
    /\ Ends(r)
    /\ UNCHANGED quiet

(* The drain of the hedge after the local end: recv alone, no other arm. *)
Drain(r) ==
    LET q == req[r]
    IN /\ q.pc = "drain"
       /\ \/ q.hx # << >> /\ Forward(r, "hedge", Head(q.hx), [q EXCEPT !.hx = Tail(@)])
          \/ q.hx = << >> /\ q.hedge = "closed" /\ Ends(r)
       /\ UNCHANGED quiet

(* The hedge task: OpenRouter's answer, its chunks, its end. *)
HedgeTask(r) ==
    /\ \/ /\ req[r].hedge = "asked"
          /\ \E h \in {"open", "closed"} : To(r, [req[r] EXCEPT !.hedge = h])
       \/ /\ req[r].hedge = "open" /\ Len(req[r].hx) < MaxHedged
          /\ \E c \in Chunks : To(r, [req[r] EXCEPT !.hx = Append(@, c)])
       \/ /\ req[r].hedge = "open"
          /\ To(r, [req[r] EXCEPT !.hedge = "closed"])
    /\ UNCHANGED <<pool, world, background>>
-----------------------------------------------------------------------------
(* A background loop goes on to the next backend, and round again. *)
Onward(task) ==
    [i |-> IF task.i = Len(deployment.all) THEN 1 ELSE task.i + 1, step |-> "look"]

(* Mutant of Probe: the healthy backends are probed. *)
ProbeHealthy ==
    LET b == deployment.all[prober.i]
    IN /\ prober.step = "look"
       /\ prober' = IF ~healthy[b] THEN Onward(prober) ELSE [prober EXCEPT !.step = "asked"]
       /\ UNCHANGED <<pool, world, scraper, window, req>>

(* The health prober: an unhealthy backend is asked, and its answer counted *)
(* like a request's.                                                        *)
Probe ==
    LET b == deployment.all[prober.i]
    IN /\ prober.step = "look"
       /\ prober' = IF healthy[b] THEN Onward(prober) ELSE [prober EXCEPT !.step = "asked"]
       /\ UNCHANGED <<pool, world, scraper, window, req>>

Probed ==
    LET b == deployment.all[prober.i]
    IN /\ \/ /\ prober.step = "asked" /\ up[b]
             /\ failures' = [failures EXCEPT ![b] = 0]
             /\ prober' = [prober EXCEPT !.step = "close"]
             /\ UNCHANGED healthy
          \/ /\ prober.step = "asked" /\ ~up[b]
             /\ failures' = [failures EXCEPT ![b] = Counted(b)]
             /\ prober' = IF Counted(b) >= CircuitOpenAfter
                          THEN [prober EXCEPT !.step = "trip"] ELSE Onward(prober)
             /\ UNCHANGED healthy
          \/ /\ prober.step \in {"trip", "close"}
             /\ healthy' = [healthy EXCEPT ![b] = (prober.step = "close")]
             /\ prober' = Onward(prober)
             /\ UNCHANGED failures
       /\ UNCHANGED <<inflight, depth, world, scraper, window, req>>

(* What /metrics says: a sequence of samples of a family, Bad if a value   *)
(* does not parse.                                                         *)
Total(e, fams) ==
    LET sum[i \in 0 .. Len(e)] ==
          IF i = 0 THEN 0
          ELSE sum[i - 1] + (IF e[i].fam \in fams /\ e[i].val # Bad THEN e[i].val ELSE 0)
    IN sum[Len(e)]
Seen(e, fams) == \E i \in DOMAIN e : e[i].fam \in fams /\ e[i].val # Bad

(* parse_num_requests_waiting: the requests that wait for capacity; without *)
(* the breakdown, all that wait; -1 without either.                         *)
ParseNumRequestsWaiting(e) ==
    IF Seen(e, {"capacity"}) THEN Total(e, {"capacity"})
    ELSE IF Seen(e, {"waiting"}) THEN Total(e, {"waiting"}) ELSE -1

GenerationTokens == {"vllm_tokens", "tensorfold_tokens", "llamacpp_tokens"}

(* parse_throughput_counters: no sample without a token counter, and no    *)
(* request count where the engine has none.                                *)
ParseThroughputCounters(e) ==
    IF Seen(e, GenerationTokens)
    THEN {[tokens |-> Total(e, GenerationTokens),
           success |-> IF Seen(e, {"success"}) THEN Total(e, {"success"}) ELSE Bad]}
    ELSE {}

(* At a push the oldest samples go, one by one, up to the first that is    *)
(* within the window; the one just pushed is 0 old and stays.              *)
Evicted(w) ==
    LET kept == CHOOSE i \in 1 .. Len(w) :
                  /\ w[i].age <= ThroughputWindow
                  /\ \A j \in 1 .. i - 1 : w[j].age > ThroughputWindow
    IN SubSeq(w, kept, Len(w))

PushThroughputSample(w, counters, n) ==
    Evicted(Append(w, [age |-> 0, tokens |-> counters.tokens, success |-> counters.success,
                       inflight |-> n]))

(* throughput_rates: nothing before two samples, nor after a restart of    *)
(* the engine took its counter back.                                       *)
ThroughputRates(b) ==
    LET w == window[b]
        o == w[1]
        n == w[Len(w)]
        counted == o.success # Bad /\ n.success # Bad /\ n.success >= o.success
    IN IF w = << >> \/ o.age <= n.age \/ n.tokens < o.tokens THEN {}
       ELSE {[elapsed |-> o.age - n.age, tokens |-> n.tokens - o.tokens,
              requests |-> IF counted THEN n.success - o.success ELSE Bad]}

(* Time passes between the rounds of the scraper.  An age past the window  *)
(* is as good as any other.                                                *)
Aged(w) == [i \in DOMAIN w |->
              [w[i] EXCEPT !.age = IF @ <= ThroughputWindow + 1 THEN @ + 1 ELSE @]]
RoundOver(win) ==
    IF scraper.i = Len(deployment.all) THEN [b \in Backends |-> Aged(win[b])] ELSE win

(* The queue scraper: an unhealthy backend's depth is forgotten, a healthy *)
(* one's metrics are fetched.                                              *)
Scrape ==
    LET b == deployment.all[scraper.i]
    IN /\ scraper.step = "look"
       /\ IF healthy[b]
          THEN /\ scraper' = [scraper EXCEPT !.step = "asked"]
               /\ UNCHANGED <<depth, window>>
          ELSE /\ depth' = [depth EXCEPT ![b] = -1]
               /\ scraper' = Onward(scraper)
               /\ window' = RoundOver(window)
       /\ UNCHANGED <<inflight, healthy, failures, world, prober, req>>

(* ... and what they say is stored; nothing (<< >>) if they cannot be read. *)
Scraped ==
    LET b == deployment.all[scraper.i]
    IN /\ scraper.step = "asked"
       /\ scraper' = Onward(scraper)
       /\ UNCHANGED <<inflight, healthy, failures, world, prober, req>>
       /\ \E e \in deployment.config.metrics \cup {<< >>} :
            /\ depth' = [depth EXCEPT ![b] = ParseNumRequestsWaiting(e)]
            /\ LET cs == ParseThroughputCounters(e)
                   pushed == IF cs = {} THEN window[b]
                             ELSE PushThroughputSample(window[b], CHOOSE c \in cs : TRUE,
                                                       inflight[b])
               IN window' = RoundOver([window EXCEPT ![b] = pushed])

(* A backend fails, or recovers. *)
Flip(b) ==
    /\ \E i \in 1 .. Len(deployment.all) : deployment.all[i] = b
    /\ up' = [up EXCEPT ![b] = ~@]
    /\ UNCHANGED <<config, pool, background, req>>
-----------------------------------------------------------------------------
Handler(r) ==
    \/ ProxyJson(r) \/ ProxyStream(r) \/ ProxyBytes(r) \/ ProxyMultipart(r)
    \/ ProxyJsonOpenRouter(r) \/ ProxyStreamOpenRouter(r)
    \/ ProxyJsonPeer(r) \/ ProxyStreamPeer(r)
    \/ ListModels(r) \/ ListLeg(r) \/ ListEnds(r)

Upstream(r) == RelayEnds(r) \/ LocalChunk(r) \/ LocalEnds(r) \/ HedgeTask(r)

StreamTask(r) == HedgeChunk(r) \/ HedgeTimer(r) \/ Keepalive(r) \/ Drain(r)

Next ==
    \/ \E r \in Requests :
         \/ Resolve(r) \/ Handler(r) \/ Upstream(r) \/ StreamTask(r)
         \/ Abandon(r) \/ Disconnect(r)
    \/ Probe \/ Probed
    \/ Scrape \/ Scraped
    \/ \E b \in Flaky : Flip(b)

Spec == Init /\ [][Next]_vars

(* The timer arm of a stream task, its drain, the legs of a list and the   *)
(* two background loops run on (a leg, a probe and a scrape have their own *)
(* timeouts).  Nothing is assumed of an upstream or a client.              *)
Timed(r) == Keepalive(r) \/ Drain(r) \/ ListLeg(r) \/ ListEnds(r)

FairSpec ==
    /\ Spec
    /\ \A r \in Requests : WF_vars(Timed(r))
    /\ WF_vars(Probe \/ Probed)
    /\ WF_vars(Scrape \/ Scraped)
-----------------------------------------------------------------------------
RequestType ==
    [pc : {"done", "try", "send", "trip", "close", "body", "stream", "drain", "openrouter",
           "orstream", "peer", "peerstream", "list"},
     kind : {"json", "stream", "bytes", "multipart", "list"},
     model : Models \cup {NoModel},
     left : Seq(Backends), at : Backends \cup {NoBackend},
     gone : BOOLEAN, winner : {"none", "local", "hedge"},
     hedge : {"off", "asked", "open", "closed"}, hx : Seq(Chunks),
     heard : SUBSET {"local", "hedge"},
     owed : SUBSET (Backends \cup {OpenRouter}), got : SUBSET (Backends \cup {OpenRouter})]

(* Every variable holds a value of its kind. *)
TypeOK ==
    /\ config \in DOMAIN Configs
    /\ inflight \in [Backends -> Nat]
    /\ healthy \in [Backends -> BOOLEAN]
    /\ failures \in [Backends -> 0 .. CircuitOpenAfter]
    /\ depth \in [Backends -> Nat \cup {-1}]
    /\ up \in [Backends -> BOOLEAN]
    /\ prober \in [i : DOMAIN deployment.all, step : {"look", "asked", "trip", "close"}]
    /\ scraper \in [i : DOMAIN deployment.all, step : {"look", "asked"}]
    /\ window \in [Backends -> Seq([age : Nat, tokens : Nat, success : Nat \cup {Bad},
                                   inflight : Nat])]
    /\ req \in [Requests -> RequestType]

(* The in-flight count of a backend is the number of requests that hold    *)
(* its slot, whatever was retried, dropped, hedged or drained: a slot that *)
(* leaks pins the backend at its roof.                                     *)
SlotsBalanced ==
    \A b \in Backends : inflight[b] = Cardinality({r \in Requests : req[r].at = b})

(* "OpenRouter is reached ONLY as a bounded overflow for a KNOWN,          *)
(* configured model": a metered call (an overflow, a spill, a hedge or a   *)
(* model of OpenRouter's own) is for a mapped model that is not Claude's,  *)
(* and without local backends for a privileged caller only.                *)
MeteredIsAllowed ==
    \A r \in Requests :
      req[r].pc \in {"openrouter", "orstream"} \/ req[r].hedge # "off" =>
        /\ deployment.config.openrouter /\ req[r].model \in Mapped \ Claude
        /\ Handles(req[r].model) = << >> => r \in Admins

(* A hedged client gets the data frames of one side only: adopting either  *)
(* side is invisible to it.                                                *)
OneVoice == \A r \in Requests : Cardinality(req[r].heard) <= 1

(* "LIVENESS MUST BE PROBED ON EVERY TICK": a stream or a relay whose      *)
(* client has left is over, or is draining its hedge, though no upstream   *)
(* ever sends another byte.                                                *)
DepartedLeaveLoop ==
    \A r \in Requests :
      (req[r].pc \in {"stream"} \cup Relaying /\ req[r].gone) ~> req[r].pc \in {"done", "drain"}

(* The same of the whole stream task, its drain of the hedge included. *)
DepartedRelease ==
    \A r \in Requests : (req[r].at # NoBackend /\ req[r].gone) ~> req[r].at = NoBackend

(* "ONE backend that accepts the TCP connection and never answers" does    *)
(* not stall the catalog: a model list is answered whatever the backends   *)
(* do.                                                                     *)
CatalogAnswers == \A r \in Requests : req[r].pc = "list" ~> req[r].pc # "list"

(* The depth of a backend that is not scraped "is STALE and must not       *)
(* gate": while its circuit stays open it is forgotten.                    *)
StaleDepthForgotten ==
    \A b \in Backends : ~healthy[b] ~> (healthy[b] \/ depth[b] = -1)

(* "recovery is automatic": a backend that stays up has its circuit closed *)
(* in the end, whatever connects and probes raced before.                  *)
CircuitCloses ==
    \A b \in Backends : <>[](up[b]) => <>[](healthy[b])

(* "spill, not balance": a request for one of several backends that is     *)
(* resolved tries a ready one before any of a higher tier, by the tier the *)
(* ROSTER gives each URL ("a roster entry for a URL always wins over the   *)
(* bare fallback"), unless the URL has a short-prompt preference.          *)
RosterTier(b) ==
    LET c == deployment.config
    IN ParseSuffix(FirstOf(Roster(c), b)).tier
SpillNotBalance ==
    [][\A r \in Requests : req[r].pc = "done" /\ req'[r].pc = "try" /\ Len(req'[r].left) > 1 =>
         LET s == req'[r].left
         IN \A i, j \in DOMAIN s :
              /\ i < j /\ healthy[s[j]] /\ ~AtRoof(s[j])
              /\ deployment.short[s[i]].roof = 0 /\ deployment.short[s[j]].roof = 0
              => RosterTier(s[i]) <= RosterTier(s[j])]_vars

(* /v1/models must not be "a menu of things the gateway refuses to cook":  *)
(* whichever legs answered, no id is listed twice, an id that comes from   *)
(* OpenRouter is one the gateway serves to a caller that may spend (the    *)
(* ids of Claude aside), and no leg that answered loses an id of its own.  *)
CatalogHonest ==
    \A r \in Requests : req[r].pc = "list" /\ req[r].owed = {} =>
      \A rev \in Reverses :
        LET list == Catalog(req[r].got, rev)
        IN /\ \A x, y \in list : x[1] = y[1] => x = y
           /\ \A x \in list : x[2] = OpenRouter /\ x[1] \notin Claude
                                => Verdict(x[1], TRUE) # "refused"
           /\ \A b \in req[r].got \ {OpenRouter} : \A m \in Advertised[b] :
                \E x \in list : x[1] = m

(* "warming up", and a rate over THROUGHPUT_WINDOW_S: what a rate is       *)
(* computed from lies within one window, however many scrapes failed in    *)
(* between.                                                                *)
RatesOfWindow ==
    \A b \in Backends : \A x \in ThroughputRates(b) : x.elapsed \in 1 .. ThroughputWindow

(* No upstream that falls silent holds a request: a stream whose client    *)
(* left and a model list both go on by a timer of their own.               *)
SilenceEnds == DepartedLeaveLoop /\ CatalogAnswers

(* What the pool believes of a backend follows the backend: the circuit    *)
(* closes when it is back, and its last depth does not outlive its health. *)
BeliefsFollow == CircuitCloses /\ StaleDepthForgotten

(* The pool's own books, whatever the requests do: types, the slots of     *)
(* InFlightGuard, the samples behind throughput_rates.                     *)
PoolInv == TypeOK /\ SlotsBalanced /\ RatesOfWindow
=============================================================================
