# Verification of lumid-platform

lumid-platform is a Rust data service: it ingests records into Postgres or
ClickHouse, serves declarative reads behind a two-level cache, streams quotes to
WebSocket and SSE clients, keeps blobs, pushes tables from one instance to
another, and fronts a pool of LLM backends. This directory models the parts of
it whose correctness depends on the order in which things happen, and the
compilation of its read endpoints; it checks them with TLC on small instances,
and proves the main safety results with TLAPS for every value of the constants.

`PROJECT.json` has the machine-readable index: the components, the runs, a
mutant per checked property, the source lines behind every definition, the
hazards, the findings and the theorems. Paths below are relative to
`src/crates/platform/src/`.

## 1. The system and its parts

| Part | State | Operations | Talks to |
|---|---|---|---|
| Push helper, `sync/push.rs` | `sync.push_cursor`, one row per peer and table | `run_push`: page, group by run, POST with retries, save cursor | the inbox of a peer over HTTP |
| Inbox, `sync/inbox.rs` | `sync.inbox_ledger`, `provenance.runs` | `post_sync_apply`: lookup, run preamble, apply, ledger | ingest core |
| Ingest core and merge, `ingest/core.rs`, `write/` | tables, `provenance.runs` | `ingest_records`, `open_run`, `close_run`, merge | backends, registry, cache invalidation |
| Ingest handlers, `handlers/ingest.rs`, `ingest/webhook.rs` | none of their own | typed, streamed, file, blob, webhook ingest; proposals | core, proposals, cache, lumilake |
| Connection pool (deadpool) | the connections of one Postgres pool | check out, give back, wait five seconds | everything that reads or writes |
| Table proposals, `ingest/proposals.rs` | `ingest.table_proposals` | create, counter, approve, reject | registry, ACL, backends |
| Backend registry, `backend/registry.rs` | a cached table-to-backend map | resolve, record, note | Postgres |
| Ingest ACL, `ingest/acl.rs` | a 30 s snapshot; capability scopes | load, check, invalidate | Postgres |
| Gate, `auth/` | introspection cache, rate buckets, in-flight counters | resolve a token, check, acquire, release | every handler, lum.id |
| Response cache, `read/cache.rs` | generations, L1 (moka), L2 (Redis) | `get_or_compute`, `invalidate_table`, pub/sub listener | read path, ingest handlers, Redis |
| Read path, `read/{spec,parse,ir,bind,dialect,exec}.rs` | the loaded endpoints | lint, parse, bind, lower, run, shape | cache, backends, federation |
| Realtime hub, `realtime/hub.rs` | connections, identity and symbol indices, a queue per connection | register, unregister, subscribe, unsubscribe, warm, push, replay | Redis pub/sub, a demand listener |
| Transports, `handlers/{ws,sse_quotes}.rs` | one task or stream per connection | open, frames in, frames out, close | hub |
| LLM pool, `llm_pool.rs` | per backend: in-flight, health, failures, queue depth, throughput samples | intern, acquire, record failure or success, probe, scrape | LLM backends |
| LLM proxy, `handlers/llm.rs` | one task per stream | route, resolve, try backends, spill, hedge, relay, list models | pool, OpenRouter, federation peers |
| Blobs, `ingest/blob.rs`, `handlers/{blobs,me_blobs}.rs`, `objstore.rs` | objects and the rows that name them | put, get, delete, list | object store, Postgres |
| Federation, `federation/mod.rs` | a cache of forwarded answers | forward a request to a peer | reads, blobs, proxy |
| Agent and retrieval, `agent/`, `retrieve/` | a card cache, a loop per request | tool loop, plan, replay | LLM, read path |
| Reports, catalogue, export, OpenAPI | none | read-only | read path |
| Boot, config, DDL | none after boot | wiring | all |

What is hard in it:

* **Concurrency without a lock.** Two pushes of one table share one cursor row;
  the breaker of a backend is two atomics, the limiter an increment, a look and
  a decrement; a read takes the cache generation before its query; an approval
  reads its proposal and awaits before its transaction; a snapshot of the
  allowlist is loaded outside the lock that stores it.
* **Failure between two steps.** The inbox applies and ledgers in separate
  transactions; a ClickHouse table is created outside the transaction that
  records it; an object is stored before its row; a client leaves anywhere.
* **Delivery.** An ACK is lost, a request outlives the timeout of its sender, an
  invalidation is published while the listener is reconnecting.
* **Restart.** Generations live in memory, the entries they name in Redis.
* **Limits.** A full connection queue, a backend at its roof, a page boundary
  among rows with equal watermarks, a pool whose users each want a second
  connection, a window that ends between the clock and the bucket.
* **Progress.** A wakeup must not be lost, a departed client must be noticed, an
  open circuit must close, the target must catch up, a revoked token must stop
  working.
* **Two dialects.** One endpoint is text for Postgres and a rebuilt statement
  for ClickHouse, and its cached body is found by a string.

What makes each part correct:

* Push plane: the cursor passes only delivered rows; the ledger claims only
  what was applied; a target row is one real version of the source row, payload
  and run together; it never goes back; the target catches up.
* Cache: a read that begins after a write was acknowledged sees it; one flight
  per key; every read ends.
* Read path: both backends are asked the same thing; nobody gets another
  request's answer; a self-tenant endpoint filters on its caller.
* Hub: the indices agree; each 0→1 and 1→0 transition of a symbol's audience is
  announced once; a displaced stream is told; a queue loses its oldest frames
  only, counts them, and is always drained.
* LLM gateway: no slot leaks; nothing is metered that may not be; a hedged
  client hears one side; the model list names what is served; departures, stale
  depths and recovered backends are noticed.
* Ingest: a run is closed at most once and counts truthfully; connections are
  returned; success means readable; rows are handed off once; everyone ends.
* Onboarding: an applied proposal stays; the recorded backend has the table; a
  write has a grant or a scope, and a revocation takes effect in the end even if
  its invalidation is lost.
* Gate: slots are conserved, limits hold, revocation takes effect.
* Blobs: a row has its bytes; private bytes stay private at the primary, and on a
  shadow as far as their path says what they are; a deletion reaches the shadow.

## 2. Plan

Order: what can lose or corrupt data first, then what can serve stale data, then
what can leak or stall.

| # | Module | Composes / uses | State |
|---|---|---|---|
| 1 | `SyncPlane`, `SyncPlaneProofs` | push helper, inbox and merge in one system; refines `ReplicatedTable` | done, proved |
| | `ReplicatedTable` | the abstract replicated table | done |
| 2 | `ReadCache`, `ReadCacheProofs` | replicas, Redis, read path and ingest invalidation | done, proved |
| 3 | `RealtimeHub`, `RealtimeHubProofs` | hub and the life of both transports | done, proved |
| 4 | `ClientQueue` | one connection's queue, Notify and sender | done, proved |
| 5 | `LlmPool`, `LlmPoolProofs` | pool, proxy, model list, peer relay | done, proved |
| 6 | `RunLedger` | the abstract ledger of runs | done |
| 7 | `IngestRequests`, `IngestProofs` | four handlers, runs, connection pool, handoff; refines `RunLedger` | done, proved |
| 8 | `TableOnboarding`, `TableOnboardingProofs` | proposals, backend registry, allowlist, ingest gate | done, proved |
| 9 | `Gate`, `GateProofs` | tokens, introspection cache, rate and in-flight limits | done, limiter and windows proved |
| 10 | `Blobs`, `BlobsProofs` | uploads, direct writes, reads, shadow and its cache | done, store and reads proved |
| 11 | `ReadQuery` (proofs in `ReadCacheProofs`) | spec, parser, binder, dialects and execution as operators, with a cache around them | done, who gets which answer proved |

Each has an `MC` module with its instances.

## 3. Modules

### SyncPlane

One table, one peer. `src` maps a natural key to its row (payload, run,
watermark, ctid); `log` is the history of its versions and `late` the stamps of
commits that landed behind a position some push had reached; the two exist for
the properties only. `SourceWrite` is a committed merge: changed rows get the
transaction's stamp, its run and new tuple ids; a row merged with an equal
payload is left alone, run included. The stamp is read before the transaction
ends, so a commit may land after one stamped later, by less than `Lag` stamps
(with `Lag = 1` commits land in order). `StartPush`, `ReadPage`, `Send`,
`ReceiveAck`, `ReceiveError`, `Drained` are `run_push`: load the cursor, select
the next `BatchRows` rows after it in (watermark, ctid) order, group them by run
in ascending order (a `BTreeMap`), send each group with up to `MaxAttempts`
attempts, and save the end of the page when every group was acknowledged. A page
that cannot be delivered ends the push, which saves the cursor it holds: the end
of the page before.

`Lookup`, `Preamble`, `Apply`, `WriteLedger` are the handler of the inbox: a
batch the ledger knows is answered at once; otherwise the run is upserted, the
records are validated and merged in one transaction, and the ledger row is
written. A batch of which every record is rejected is an error and is not
ledgered; one of which some are rejected is ledgered. A batch is its own
`batch_id`, because the id hashes the run and every payload and nothing else
that varies here (`BatchOf`).

Faults: `Timeout` (the answer does not come; the request is cancelled with the
connection, or with `Linger` goes on), `ReplyDropped`, `RequestFails` (any step
of the inbox fails, which also covers a target that dies between two of them),
`PushDies` (the helper's process or its caller goes away anywhere).

`ReplicatedTable` is what all of this amounts to with one push at a time. The
source commits versions, each newer than the ones its row had (`Commit`); the
target takes versions in that order, with gaps (`Install`); and a row becomes
delivered when the target has its newest version or refuses it (`Confirm`), is
left alone from then on, and stops being delivered with the next commit to it.
`Replicates` says that `SyncPlane` implements it
(`INSTANCE ReplicatedTable WITH history <- log, replica <- tgt, delivered <- Passed`):
delivered are the rows that the saved cursor has passed.

### ReadCache

`gen`, `l1` and `chan` per replica, `l2` shared. Data is a version number per
table, and a body is the versions its query saw; 0 everywhere is the `[]` of a
timed-out query. `StartRead` takes the generation (`run_spec` reads it before
the lookup); then `HitL1`/`MissL1`, `HitL2`/`MissL2`, `Query`, `SetEx`, `Fill`
and `Respond` are the steps of `get_or_compute`, whose L1 lets one task per key
compute while others wait. A flight that fails answers those waiting with its
error; when the task of a flight is cancelled, those waiting start over and one
of them becomes the next flight.
`Commit`, `InvalidateLocal`, `PublishAndAck` are an ingest request: the local
bump comes before the publication and the answer. `Deliver` is the listener,
which bumps again, on the writer's replica too.
`LoseMessage`, `EvictL1`, `EvictL2`, `Restart`, `CancelRead` and `CancelWrite`
are the environment. `acked` and a read's `need` exist for the property only.

### ReadQuery

What `ReadCache` takes as one step, from the inside. A statement is a sequence
of tokens (keyword, identifier, literal, operator, `:name`, `{{fragment}}`,
cast, placeholder, parenthesis, comma), so that the byte scanners of
`read/parse.rs` become operators on nesting depth (`FindTop`, `SplitTopCommas`,
`SplitTopAnd`, `MatchingParen`). `Load` is the lint and the parse of an endpoint
(`ParseSelect` returns the IR, or `NoIr` for what is outside the grammar, which
is then run as text). `Resolve` is `bind.rs`: coercion of each parameter by its
type, range and transform, enum and presence fragments, the canonical form
behind the cache key (`Canon`). `LowerBinds`, `LowerTextBinds` and `LowerIr` are
the lowerings of `dialect.rs`, the last with its hoist of conjuncts on the
leading `ORDER BY` column into `PREWHERE` and its renumbering of values.
`RunSpec` is a request end to end (self-tenant scoping, admin elevation, key,
lookup or execution, 404, `If-None-Match`), `ExecuteToValue` the entry that MCP
uses, `DeliverAnswer` the answer that reaches its caller, `Forget` an entry that
leaves the cache.

Parameters are resolved in the order of the endpoint and stand in the canonical
form in the order of their names, which `NameOrder` gives. `Texts` is what each
parameter puts there (a choice, or the value), `Pair` its `&name=text`. A body
keeps the texts of the request it was made for, for the properties only: the key
is an ambiguous spelling of them when a text holds a separator. The parser's
recursion is a recursive function on sequences of tokens (`ParseTree`); what
walks a parsed expression is bounded by its `height`.

`Meaning` is the reference both dialects are held against: what a statement
with its values in place selects, from where, filtered by which set of
conjuncts, grouped, ordered and limited how. `OneMeaning` compares what
ClickHouse is sent with what Postgres would be asked by the same request.

### RealtimeHub and ClientQueue

`HubState` is behind one mutex, so a critical section is one action. The
demand events decided in a section are fired after it (`FireDemand`), each in a
detached task (`ListenerRuns`). A connection is a WebSocket task, an SSE request
that becomes a stream (`SetupSubscribe`, then `StreamOpens`, where its
`CleanupGuard` begins), or the warm set. `CancelSetup` is an SSE client that
leaves before the guard exists: its connection stays in the registry.

`ClientQueue` is one connection seen from inside: `Push` (with its overflow and
its warning), the `Notify` with its single stored permit, and both senders. A
push releases the queue before it notifies, so the two are separate steps
(`owed`). `Stash` and `FanOut` are the hub's listener, `FetchLast` and
`ReplayLast` the replay of the last tick on subscribe. The two modules share the
connection's life only; `ClientQueue` starts where `StreamOpens`, or the socket
loop, does.

### LlmPool

`Configs` are the settings a deployment may have, and `Intern` is what the
constructor makes of them: one handle per URL, made by the first place it has
(`Firsts`) in the rows of the roster and then the fallback, with its tier, roof and short-prompt preference parsed from the suffix
of the URL. Per backend the counters of `BackendHandle`; per request its place
in the handler or in its stream task.

`Resolve` is a request that arrives on one of the routes: the default model, the
malformed and the federated ones, then `resolve` with `backends_for_class` (which
backends, in which order by effective tier, roofs and in-flight, or overflow, or
refusal). `Try`, `SendFails`/`Trip`, `SendOk`/`Close`, `Body`, `Exhausted` are
the backend loops of the four kinds of request (`ProxyJson`, `ProxyStream`,
`ProxyBytes`, `ProxyMultipart`). `on_connect_err` and `on_connect_ok` are two
steps each, because `failures` and `healthy` are two atomics. `LocalChunk`,
`LocalEnds`, `HedgeTimer`, `HedgeTask`, `HedgeChunk`, `Keepalive`, `Drain` are
the select loop of a hedged stream and what follows it;
`ProxyJsonOpenRouter`, `ProxyStreamOpenRouter`, `ProxyJsonPeer` and
`ProxyStreamPeer` the relays. `ListModels`, `ListLeg` and `ListEnds` are
`GET /v1/models`, one leg per base and each with its timeout, and `Catalog` the
merged list with its reversed OpenRouter ids. `Probe`/`Probed` and
`Scrape`/`Scraped` are the two background tasks, which look, await, and then
act; a scrape parses the samples of `/metrics` and keeps the window of
throughput samples. `Flip` is a backend that goes down or comes back. Chunks are
`data`, `comment`, or `split` (a part of a data frame that was cut, which
`chunk_has_data_frame` does not recognise).

### IngestRequests and RunLedger

A request is one of four kinds (`typed`, `file`, `stream`, `webhook`) and goes
from the gate in front of it (`GateCached`, `GateGet`, `GateTarget`,
`AuthenticateWebhook`, `CheckCanWrite`), through parsing, to `ingest_records`:
`Enter`, the lookup of the table, `Validate`, `OpenRun`, the write on Postgres or
ClickHouse, `Close`, and `Finish` with its invalidation and its handoff to
lumilake. A stream opens its run once, repeats `ingest_records` per chunk and
closes at the end on a connection of its own (`StreamCloseGet`). `out` is the
set of connections checked out, each by a request for a purpose: `client`, the
one `ingest_records` holds, and `inner`, the one that `table_meta` or the
transaction checks out while the first is held. `PoolTimeout` is the five-second
wait of the pool, `Cancel` a client that leaves at any await, `Fails` any
database call that returns an error; a ClickHouse statement may take effect and
still fail.

`RunLedger` is what `provenance.runs` promises: a run is opened once, rows are
committed under it while it is running, it is closed at most once, with a count
that is exact unless it failed. `RunsAreTruthful` says that `IngestRequests`
implements it (`INSTANCE RunLedger WITH Runs <- Reqs`).

### TableOnboarding

One table. `row` is the record of its backend, `exists` where the table really
is, `cache` the registry's memory, `acl` the allowlist and `snap` its snapshot.
An approval is `ReadPending`, `CreateClickHouse` (outside the transaction),
`RecordBackendAclStatus` (the transaction), `NoteBackendCached`,
`InvalidateAcl`. `GrantAcl` and `RevokeAcl` are the statement that takes effect;
its answer is awaited (the place `granted`), and `InvalidateAcl` follows it. A
handler may stop at any of these awaits (`AdminStops`): a statement fails, its
answer is lost, or the client has gone and the future is dropped. What was
committed then stays, and the invalidation does not happen. For an
approval that is the lost answer of its commit, or a future dropped while it waits
for the lock of the registry's cache.

A caller's request comes with or without a capability scope (`Asks`; the constant
`Capability` says whether the table is one that a scope names). It resolves the
backend through the cache in three steps (look, read, insert) and looks the table
up. With the scope a table that exists is written without a look at the snapshot
(`ScopeGrants`, `ScopeDecides`); otherwise it consults the snapshot, which `Load`
reads and `StoreSnapshot` stores. Its verdict is to write, to propose (`Create`)
or to refuse, and it may fail on the way (`GateStops`). `late` marks a snapshot
that a change overtook while it was loaded, or that differs from the table when
a handler stops before its invalidation; it exists for the property only.

### Gate

`Arrive` fixes the headers; `ResolveLocally`, `ResolveCached`, `Ask`,
`LumidAnswers`, `Introspected` are `resolve` with its cache, whose entries `Age`
and `Evict`. `ReadClock` and `Check` are the fixed-window limiter: the clock is
read before the bucket is locked. `AcquireKey`, `UndoKey`, `AcquireIp`, `UndoIp`
are `ConcurrencyLimiter::acquire`, one step per atomic; `RequireIdentity`,
`HandlerReturns`, `Finished`, `DropKey`, `DropIp` the rest of the request, whose
guard lives as long as its body. A WebSocket resolves outside the limits.
`ChangeToken` is lum.id revoking a token or reinstating it. `admitted` and
`late` count for `WindowBounded` only.

### Blobs

Two instances, a primary and a shadow, each with a store and rows for shared and
private blobs. An upload is `LookupExisting`, `PutBytes`, `OpenRun` and
`InsertShared` or `InsertPrivate`, and may stop in between (`Abandon`).
`Materialize` stores a retrieval result, `PutBlob` and `DeleteBlob` reach any
key (`touched` remembers which). `HasAttrs` says which stores keep content types.

A read names a path. `BlobPaths` are paths of `GET /blobs/<key>`: the key that
decoding and `sanitize_key` make of the path, and whether the path has that key
in it as it was sent (`plain`); `ListPaths` are `GET /blobs` with a limit. The
handlers look at the key (`Handle`, which is `ServeBlob` or `ListBlobs`); a shadow
looks at the path (`LocalOnly`, a test of its prefix). What a reader gets at a
site is `Get`: at the primary the handler's answer under the caller's own role,
and on a shadow that too if the path is local-only, otherwise the answer cached
for the path, whoever it was first given to. `ShadowForward`, `PeerAnswers`, `PeerUnreachable`,
`Relay` are `shadow_forward` past its cache, one read at a time; the peer sees
its own local key (`Root`), and `Age` is the TTL. `FetchOwn` is `GET /me/blobs/<hash>`,
which is never forwarded. `Loads` says what a behaviour starts with: the uploads
that are still to come (the others were made before and failed at their lookup),
and whether the shadow forwards at all (`read_federate`); if not (`Off`), it
answers every read itself.

## 4. Runs

| Run | Instance | Shows |
|---|---|---|
| `sync_faults` | 2 pushes, 2 request slots, pages of 2, 2 writes to 2 keys, 1 fault, one attempt, a rejected record, a pruned run, lingering requests, a commit that lands late (`Lag = 2`) | `PastCursorIsLedgered`, `LedgerIsBacked`, `LineageInv` under overlap, loss and failure |
| `sync_live` | 1 push at a time, pages of 1, 2 attempts, 2 faults, a new run per write | `TargetCaughtUp`, `TargetNeverRegresses`, `Replicates`, `Converges` |
| `cache` | a join of 2 tables on 1 replica with Redis, 2 readers, 1 writer, one restart, timeout or loss (`OneFault`) | `ReadYourWrites`, `FlightInv`, `ReadsEnd` |
| `hub_demand` | a socket and a stream of one identity, the warm set, 2 symbols, cap 2, 1 dropped request | `DemandSound`, `RegistryConsistent` |
| `queue` | a queue of 2, socket and stream, 2 ticks, a heartbeat | `QueueInv`, `QueueIsDrained` |
| `llm_gateway` | eight settings: two requests racing on one backend; one hedged stream; two backends with a short-prompt preference; two tiers and the model list; one base URL; a peer; a peer that is not configured; an engine that counts tokens. One flaky backend | `PoolInv`, `MeteredIsAllowed`, `OneVoice`, `CatalogHonest`, `SilenceEnds`, `BeliefsFollow`, `SpillNotBalance` |
| `ingest` | 2 requests of any kind, 2 connections, both backends, streams of 2 chunks, 1 good and 1 bad record | `ConnectionInv`, `ReadYourWrites`, `HandoffOnce`, `RunsAreTruthful`, `EveryRequestEnds` |
| `onboarding` | 1 caller, with a scope or without, 2 administrators, 1 proposal, 1 counter-proposal, 1 change of the allowlist, snapshots that expire | `OnboardingInv`, `AppliedIsFinal`, `WritesAreGranted`, `RevocationSettles` |
| `gate` | 2 request slots used again and again, one token, an anonymous and a malformed one, one address, limits of 1, 2 windows, entries of 2 ages | `GateInv`, `WindowBounded`, `RevocationTakesEffect` |
| `blobs` | 2 users, 1 content, 2 types, 1 retrieval, 1 direct write or deletion, and either 2 uploads and a shadow on its own or 1 upload and a shadow that forwards; a shared and a private key, each with two paths, a result and a listing of one entry; answers of 2 ages | `StoreInv`, `DedupWithinTenant`, `ReadInv`, `DeletionReachesShadow` |
| `query` | some 190 statements, both backends, a user, an admin and a caller without a subject, a cache of 2 entries | `QueryInv`, `OneMeaning`, `SelfTenantScoped` |
| `query_tail` | the same | `NeverMisExecuted` fails: the finding of section 6 |

A name ending in `Inv`, and `DemandSound`, is the conjunction of the module's
`TypeOK` (`QueueTypeOK` in `ClientQueue`, `QueryTypeOK` in `ReadQuery`) with the named safety parts that its definition lists; `SilenceEnds` and
`BeliefsFollow` are conjunctions of two liveness properties.

**Why the bounds suffice.** Two keys and pages of one or two rows give a page
boundary inside a transaction (both rows share a watermark), a page of several
groups, and a page that ends early. Two pushes and two slots are enough for one
to save behind the other and for a retry to run beside its own late first
request. Two writes make a row change while its page is in flight, and one of
them land behind a page that holds the other. Stamps are numbers up to
`MaxWrites`: the code compares watermarks only for their order, and `Lag` only
counts the stamps between two, so numbering the commits in the order they were
stamped loses no behaviour. Push calls are interchangeable, and so are request
slots: `sync_faults`, which checks safety only, says so to TLC
(`CallSymmetry`). Two readers
are a flight and one that waits for it or starts under the next generation; two
tables make a body that is stale in one of them. Two connections of one identity
and a third that is exempt cover takeover and shared symbols; `LifetimeCap` 2 is
reached. A queue of two distinguishes oldest from newest and overflows. One
failing backend with a breaker of two failures opens and closes from both the
requests and the prober. Two requests that each want two of two connections
reach the state in which both wait. Two administrators are two approvals, or an
approval and a rejection or revocation. The caller starts with a grant, so one
change of the allowlist takes it away, with or without its invalidation. Limits of one with two requests are
exceeded by any lost look, and two windows have one boundary. One content
uploaded by two users, or twice by one, is every pairing the dedupe tells apart.
A cached answer depends on its path
and on the primary alone, so one upload, one write and two paths to a key are
every way it can differ from what its reader may see, and a listing of one entry
is both full and truncated.
The statements are put together clause by clause, so that each construct of the
grammar occurs with each neighbour that changes how it is lowered. `MaxWrites`,
`MaxFaults`, `MaxRestarts`, `MaxTimeouts`, `MaxLosses`, `MaxCancels`,
`MaxTicks`, `MaxBeats`, `MaxHedged`, `MaxChunks`, `MaxBatch`, `MaxCols`,
`MaxChanges`, `MaxWindow` and `MaxTouches` bound the environment only; what the
code itself does is never cut off.

The hub, queue, gate and blobs runs allow deadlock: every connection has gone,
the upstream has no tick left, the last window is over, or every upload has
ended, and nothing remains to be done.

**Fairness.** Weak fairness, and only of steps that the runtime takes without
waiting on anyone outside, or that a timeout of the code bounds:

* each push (`PushStep`) and each request at the inbox (`InboxStep`). Somebody is
  assumed to keep calling `POST /admin/sync/push` (`StartPush` is part of
  `PushStep`): the service has no scheduler of its own, and `Converges` says what
  repeated calls achieve;
* the steps of a read (its query is bounded by a timeout);
* the notifier, the subscribe handler and the sender of a connection;
* the keepalive tick and the drain of a stream, the legs of a model list, the
  prober and the scraper (`Timed`, `Probe`/`Probed`, `Scrape`/`Scraped`);
* each step of an ingest request, the pool's timeout included;
* each step of a request at the gate up to its handler (the call to lum.id has a
  timeout), and the passing of time (`Age`);
* an answer or a timeout for a forwarded blob read, and the passing of time;
* the end of `CACHE_TTL` for a snapshot of the allowlist (`SnapshotExpires`): time
  again, which passes whatever callers and handlers do. No step of a caller or an
  administrator is fair, so a lost invalidation is never made up for.

Nothing is assumed of writers, faults, clients, upstream LLMs or lost messages.

## 5. Theorems

All hold for arbitrary constants that satisfy the module's `ASSUME`.

| Module | Theorem | States | Extra assumption |
|---|---|---|---|
| `SyncPlaneProofs` | `TypeCorrect` | `TypeOK` | – |
| | `CursorIsSafe` | `PastCursorIsLedgered` | – |
| | `InOrderNothingIsMissed` | `PastCursorIsLedgered` without its exception | `Lag = 1` |
| | `LedgerIsSafe` | `LedgerIsBacked` | – |
| | `LineageIsWhole` | `LineageInv` | – |
| | `CaughtUp` | `TargetCaughtUp` | `SolePush` |
| | `NeverRegresses` | `TargetNeverRegresses` (action property) | `SolePush` |
| | `PlaneReplicates` | `Replicates` (refinement) | `SolePush` |
| `ReadCacheProofs` | `ReadsSeeWrites` | `ReadYourWrites` | `Alone` |
| | `FlightsAreSingle` | `FlightInv` | – |
| | `AnswersAreOwn` | `QueryInv` | – |
| | `TenantIsTheCaller` | `TenantScoped` | – |
| `RealtimeHubProofs` | `RegistrySafe` | `RegistryConsistent` | – |
| | `DemandIsSound` | `DemandSound` | `Conns` is finite |
| | `QueueSafe` | `QueueInv` | – |
| `LlmPoolProofs` | `PoolSafe` | `PoolInv` | – |
| | `MeteredSafe` | `MeteredIsAllowed` | – |
| | `VoiceSafe` | `OneVoice` | – |
| | `CatalogSafe` | `CatalogHonest` | – |
| | `SpillSafe` | `SpillNotBalance` (action property) | – |
| `GateProofs` | `LimiterSafe` | `GateInv` | – |
| | `WindowsBounded` | `WindowBounded` | – |
| `BlobsProofs` | `StoreSafe` | `StoreInv` | – |
| | `DedupSafe` | `DedupWithinTenant` | – |
| | `ReadsSafe` | `ReadInv` | – |
| `IngestProofs` | `LedgerImplemented` | `RunsAreTruthful` (refinement) | – |
| | `ConnectionsSafe` | `ConnectionInv` | – |
| | `AnswersAreFresh` | `ReadYourWrites` | – |
| | `HandedOffOnce` | `HandoffOnce` | – |
| `TableOnboardingProofs` | `OnboardingSafe` | `OnboardingInv` | – |
| | `AppliedStays` | `AppliedIsFinal` | – |
| | `GrantsHold` | `WritesAreGranted` | – |

**`CursorIsSafe`.** The saved cursor alone says nothing about the push about to
save the next one. `CursorInv` adds what each push owes: the cursor it started
from is covered; a row up to the end of its page was covered then or is in the
page unchanged (`OwesPage`: a row rewritten since has moved behind the end, or
its commit was overtaken); the groups no longer to do are ledgered; its
requests carry groups of its page and of nobody else's (`SlotsDisjoint`); and an
acknowledged request is in the ledger (`AckIsDurable`). `UniquePlaces` keeps
two rows from sharing a position, and `Stamped` says that the newest stamp, and
that of every row, is the stamp of some commit. When the last group is
acknowledged the page is covered, and so is its end. A commit disturbs a position
only if it is stamped at or before it (`WriteLands`); the position is not past
the newest stamp, so the commit was overtaken by the one that has that stamp,
less than `Lag` ahead (`LandsOvertaken`), and stays so until the row is written
again. With `Lag = 1` nothing is overtaken (`InOrder`).

**`LedgerIsSafe` and `LineageIsWhole`.** `TargetInv` follows a row from the
source to the target: every copy in a page or a request is a version the source
had, and a request has done what its step implies (the run is on the target from
`apply` on, the rows are there from `ledger` on). No fairness, no bound on
overlap, lingering requests included.

**`CaughtUp`, `NeverRegresses`, `PlaneReplicates`.** The three need `SolePush`:
commits land in the order of their watermarks (`Lag = 1`), a run commits once
(`ReuseRuns = FALSE`), no request outlives its sender (`Linger = FALSE`), and one
caller pushes the table. TLC finds the first two violated when one of the last
three is dropped (a run that commits twice needs three writes), and the first with `Lag = 2`.
`SoloInv` is `CursorInv` and `TargetInv` with what a sole push adds. `Chronicle`:
the history has one version per row and watermark, one watermark per run, and the
present rows last. `InStep`: no row of a page is older than the target's, and one
whose present version is ledgered is that version. `Attended`: every request at
work is the one its sender waits for, so a page read after a timeout never meets
a request from before it. `Delivered` and `AppliedFirst` then say that whatever the
ledger has of the present source, the target has: a batch answered from the
ledger alone is never one the target has lost since. For the refinement, `Track`
adds that a push holds the saved cursor and that its page lies beyond it, so that a
batch that lands touches no delivered row.

**`ReadsSeeWrites`.** `Alone` is: without Redis, anything; with it, one replica
that does not restart. `CacheInv` says of every body that may still be met (in
L1, in L2, in a flight about to store) that it has no later generation than its
replica, that it holds every write acknowledged or about to be acknowledged if
its generation is the current one (`HasWrites`), and that it has what any reader
still asking for its key needs (`Good`). The bump before the acknowledgement is
what makes a body of the old generation harmless.

**`RegistrySafe`.** `RegistryConsistent` with `TypeOK` (an identity names at most
one connection) is inductive as it stands.

**`DemandIsSound`.** `DemandBalanced` needs one thing more: a connection that is
about to subscribe for the first time, or to unregister, has nothing left to
fire (`NothingToFire`), because it waits for its own events before it goes on.
Then a subscribe adds a claim for just the symbols it finds without subscriber,
an unsubscribe a release for just those it leaves without, both decided under
the lock; firing and running move an event without changing what is owed. The
number of connections with an event to fire must be finite, hence the
assumption.

**`FlightsAreSingle`.** `SingleFlight` is inductive with `TypeOK`. A reader takes off only in
`MissL1`, when nobody flies its key; elsewhere it keeps its key and its part in the
flight (`Stays`) or has no part in any afterwards (`Leaves`), and whoever lands
takes its waiters along (`Landing`), as a dropped flight does. It needs no
`Alone`: flights are per replica, and a restart ends a replica's readers all at once.

**`AnswersAreOwn`.** `ServedOwn` speaks of one answer; what a cached body was run
for is forgotten with its request. `QueryIInv` keeps it: every body is kept under
the key of some request of this endpoint that resolves to just the statement the
body came from (`MadeFor`), and what is answered is the request's own or such a
body with its key. That the key alone then decides the statement is the heart of
the proof. `KeyAgrees`: the canonical form is a run of additions, one per name
(`FlattenIsRun`); from its end, the last `&` is where the last text begins, since
no text holds one (`LastMarked`), so two equal forms end in the same addition and
are equal without it, down to the empty form (`PairsAgree`); and the mark of an
elevation, which is nowhere in a form, tells the role. `SameBound`: requests with
the same texts give every parameter the same value, and the same fragment, hence
have the same statement and the same values, whatever else their paths and
queries say. Descent on numbers goes through a least counterexample
(`NoLeast`), which stands in for the induction rule. `IrIs` proves the remaining
part: what `Load` parses has the shape the lowering relies on.

**`TenantIsTheCaller`.** `TenantScoped`, stated in the proof module: an answer of a
self-tenant endpoint to somebody not elevated went over HTTP to a caller with a
subject; the tenant its statement is bound to is that subject, and so is that of
the request whose cached body was served. It follows from `QueryIInv`, with
`Scopable` for the one answered. `SelfTenantScoped` goes on to say that the
statement filters by that tenant.

**`QueueSafe`.** `QueueInv` says the queue is the tail of what was pushed, as a
`SubSeq`. `Newest` says it frame by frame, counted from the end, and is kept by
an append to both, by the loss of the oldest frame and by a drain; `NewestIsSubSeq`
turns it back. At the bound a push drops one frame for the one that comes, so no
room is left for the overflow warning and the bound holds.

**`PoolSafe`, `MeteredSafe`, `VoiceSafe`.** One invariant, `IInv`, gives the three.
`Sound` says of each request by itself: it holds a slot just while it is at a
backend (`Placed`); if it is at the metered upstream or has a hedge, its caller
and model are among the cleared ones (`Metered`), and if it is with the pool, its
model is one the pool serves (`Pooled`), which is why a spill or a hedge, decided
long after `resolve`, is still allowed; only a stream streams; and what its client has heard
is what the winner sent, the hedge alone once the local side has ended
(`OneSide`). What a request was cleared for depends on the settings only, which
do not change (`Settled`). A step of a request keeps, takes or drops its slot
(`Keeps`, `Takes`, `Drops`), and `SlotsStep` shows once that each of them keeps the count.
`Windows` says that the first sample of a backend is within
one window of the last: true after a push, which evicts up to the first sample
that is young enough, and kept by ageing, which moves both.

**`CatalogSafe` and `SpillSafe`.** The first needs `IInv` only for the legs, which
are bases of the deployment; the rest is the order of the legs, in which no two
have the same place (`PlaceOrders`), so every id has one first leg. The second is
about `Intern`: a URL of the roster has the same first entry in the whole order,
because the fallback comes last (`RosterWins`), the handles of a model with
several are URLs of its row (`RosterHandles`), and of two ready ones the sort key
differs in the tier or later (`LowerTierFirst`). Facts about sequences of any
length (that a roster has finitely many places, a URL a first one, a sum a value)
are proved by the least counterexample: `LeastNat` comes from the library's
well-founded orders, which need no operator as a parameter.

**`LimiterSafe`.** That every counter equals the number of its holders
(`SlotsAccounted`) is not enough to bound the requests being served: a request
that was refused still holds its slot until its decrement, and one that was
served gives its key back before its address. `IInv` therefore bounds everyone
whose increment found room: `KeyBooks` and `AddrBooks` say that a counter is the
number of its holders, and that those among them that are not on their way to
undo an increment (`KeyGranted`, `AddrGranted`) are within the limit. A new
grant needs a counter below the limit before the increment, and the counter is
at least the number of the granted. `Vouched` keeps an identity from being the
bucket of an address, so that the two kinds of counters do not meet.

**`WindowsBounded`.** How much a window has admitted depends on where its bucket
stands: nothing in a later window but for the requests that read the clock
before it (`late`), up to its count in its own, and up to the limit in an earlier one.
`Allowance` is that bound, window by window; a request of the bucket's own window
raises count and admissions together, and one that sets the bucket back is `late`
and pays for the limit it frees.

**`LedgerImplemented`.** The map to `RunLedger` is the identity on `run`, `rows`
and `counted`, so every step must be an opening, a commit, a closing or a
stutter. What makes it so is where a request stands: `Books` says, for each
place in its handler and each kind of request, whether its run is not open yet
(`Before`), running (`During`) or no longer its business; that its tally never
exceeds what was committed and equals it while nothing failed (`ok`); and that a
call of `ingest_records` has a chunk left to use up. Requests meet only in the
pool, so `Alone` reduces every step to the books of the request that takes it.
The same invariant gives the other three: `Holds` ties connections to places,
stale reads imply committed rows (which an `ok` tally counts, so the
invalidation is not skipped), and a handoff is fired in `Close` or in `Finish`
according to the kind, never in both.

**`OnboardingSafe`, `AppliedStays`, `GrantsHold`.** `ClickHouseFirst` adds to
`OnboardingInv` what handlers in progress owe: one that is about to record or to
cache ClickHouse has created the table there, and an ingest that read ClickHouse
from the record read it after that. `SnapshotIsCurrent` says when a snapshot may
be trusted: one that is fresh, that no change overtook while it was loaded, and
with no change waiting for its invalidation (`Settled`) is the allowlist itself;
so is a load under way that no change overtook. A handler that stops between its
statement and its invalidation leaves `Settled` true and the snapshot behind; if
the two differ it marks the snapshot (`late`), which is exactly the case
`WritesAreGranted` exempts. How long that case lasts is `RevocationSettles`,
which TLC checks. A scope decides without a snapshot, and only where the request
brought one (`AsksSays`).

**`StoreSafe` and `DedupSafe`.** Outside `touched` keys, `IInv` follows an upload
from its object to its row: an object at a key with a hash in it has the bytes of
that hash and no type but a declared one (`GoodAt`); an upload past its put has
left its object (`UploadGood`); a row names a key where an object is (`Present`),
a shared one under a type declared at that key, a private one under its owner's
key. `Keeps` is what every step does for the others: requests stay, and nothing
that is present goes. Put before insert is what makes a handler dropped in
between harmless. The proof needs `None` not to be an object, which
`BlobConstants` says.

**`ReadsSafe`.** What the primary answers follows from its store and the caller
(`ListingSays`). What a shadow answers was decided when its peer was asked, in
another state and for another caller, so `ReadGood` says it of the read under way
and of every cached answer: its path is not local-only, and a listing has no
retrieval result, keeps its limit, and is full if it is marked truncated
(`PeerListing`). `ForwardSafe` and `CacheSafe` keep it. That a listing of the
primary has as many entries as it should (`Limited`) is a fact about finite sets;
the keys are finite because users, contents and types are. The theorem says of a
private key what the code gives: 404 to other callers at the primary whatever the
path, and on the shadow for a path that shows its prefix. What a shadow does with
listings and with the other paths is in section 6: `ListingHidesPrivate` and
`PrivateByOwner` do not hold.

**Only model-checked.** Liveness (`Converges`, `ReadsEnd`, `QueueIsDrained`,
`SilenceEnds`, `BeliefsFollow`, `EveryRequestEnds`, `RevocationTakesEffect`,
`RevocationSettles`, `DeletionReachesShadow`), because the prover has no fairness or ENABLED.
So are `OneMeaning` and `SelfTenantScoped`, which read a statement back: that
splitting at top-level keywords undoes what the renderer put together, for
expressions of any depth, is an induction over parsed expressions, which is out
of the prover's reach.

## 6. Findings

**A fragment after an `IN` list is dropped** (`query_tail`,
`read/parse.rs:432`). `parse_predicate` returns the list without looking at
what follows its closing parenthesis. A presence fragment glued to it is then
missing from the ClickHouse statement, which runs and returns rows Postgres
would filter out, where `read/ir.rs:24` says "never a silent mis-execution".

Disagreements with a comment or a test that the models reproduce, and that the
passing runs step around by a premise. The name in brackets, if any, is the property
that states what the document says; TLC finds it violated in an instance of that
module:

* **Batch ids repeat** (`sync/push.rs:273`). The id hashes run and payloads, not
  watermarks. A stream keeps one run over many chunks; if it writes a row as A,
  B, A, each pushed, the third batch has the first one's id, the inbox answers
  from its ledger, and the target keeps B (`TargetCaughtUp` with
  `ReuseRuns = TRUE`).
* **Partly rejected batches are ledgered** (`sync/inbox.rs:128`), which
  `tests/sync_inbox_ledger_tests.rs:5` says must not happen: the rejected rows
  are never retried (`LedgerOnlyComplete`).
* **Generations restart at 0** (`read/cache.rs:104`) while the bodies stored
  under them stay in Redis: a read after a restart can miss a write acknowledged
  before it, which is where `ReadYourWrites` ends. Two replicas that share one
  Redis meet the same keys with generations each counts for itself.
* **The slow-client warning is never sent** (`realtime/hub.rs:106`): its
  condition cannot hold after an overflow (`SlowClientTold`).
* **The drain of a hedge ignores its client** (`handlers/llm.rs:912`): it waits
  outside the select, so a silent hedge holds the slot of a client that has left
  (`DepartedRelease`).
* **A shadow's listing shows private keys** (`federation/mod.rs:225`).
  `GET /blobs` is not local-only. The peer is asked with its own local key, for
  which `list_blobs` shows `tenants/`, and the answer is cached by path for every
  caller, where `handlers/blobs.rs:218` says "Tenant-private objects never appear in
  the shared listing", admins and local keys excepted, and `handlers/me_blobs.rs:15`
  "listing hides the `tenants/` prefix" (`ListingHidesPrivate`).
* **A shadow forwards a private key it does not recognise**
  (`federation/mod.rs:241`). What is local-only is decided on the path as it was
  sent, what is private on the key that decoding and sanitising make of it. A path
  that comes to a private key without showing its prefix is answered by the peer
  under its local key and cached by path, where `handlers/me_blobs.rs:13` says
  "Readable only by its owner" and `:17` "Never federated" (`PrivateByOwner`;
  `ReadInv` speaks of plain paths).
* **The mark of an elevated read is text** (`read/exec.rs:149`). It is appended to
  the canonical form, in which a parameter's text may hold the same characters: a
  caller that is not elevated then has the key of an admin's read and gets its
  body, where `read/exec.rs:146` says it "is NEVER served to a self-scoped
  (non-admin) caller" (`ElevationStays`, in an instance whose free text may end in
  the mark). `QueryInv` and `OneMeaning` exclude texts with a separator of the key.

Behaviours the models have and no document rules out:

* A commit that becomes visible behind a watermark already pushed (`Lag` > 1) is
  never selected again, until its row is written anew. `PastCursorIsLedgered`
  says that such rows are the only ones the push can leave behind.
* Two overlapping pushes may save the cursor backwards, which costs a redelivery.
* A request that outlives its sender (`Linger`) may put an older version over a
  newer one until the next push of that row.
* A row merged with an equal payload keeps the run that first wrote it.
* The `[]` of a timed-out query is cached like any other body.
* Claim and release of one symbol run in unordered tasks.
* An SSE client that leaves between `register` and the guard leaves its
  connection in the registry; a displaced connection is told and not closed.
* A live tick may be queued before the older one that a subscribe replays.
* A data frame cut by its transport is recognised in neither part, so a hedge may
  win after a client has heard part of the local answer.
* A success between the count and the swap of a failure leaves a circuit open
  with a count of 0, until the next probe closes it.
* `GET /v1/models` on a deployment with one base and no primary URL is proxied
  to an empty list of backends.
* A stream whose chunks are committed and that finds no connection to close its
  run leaves the run running, skips the invalidation, and answers with an error.
* A grant or revocation whose handler stops before its invalidation takes effect
  when the snapshot expires.
* A request refused by its address holds a slot of its key for a moment, in
  which another request of that key may be refused.
* An answer of lum.id other than 200 is cached as a refusal, like a real one.
* A request counted in a window it read the clock before sets the bucket back,
  and that window admits its limit once more.
* A registry lookup that read before an approval may insert the old backend after
  `note_backend_cached`; the next restart, or the next approval, corrects it.
* The transaction of an approval sets the status without looking at it again, so
  a proposal rejected in between is applied.
* A blob deleted by its key and uploaded again is answered as existing, because
  its row is still there.
* Two requests whose values hold the separator `&` may share a cache key;
  `QueryInv` and `OneMeaning` exclude such values. The names of an endpoint's parameters
  are assumed to be distinct identifiers, without a separator in them; nothing at
  load checks this.
* With `FINAL`, a filter on a leading `ORDER BY` column that is not in the
  sorting key is applied before the versions are merged; `OneMeaning` excludes
  such endpoints.

## 7. Not modelled

* Agent loop and tools: a bounded loop over a language model's answers, alone in
  its request; its tools use the read path. Retrieval: ranking and planning over
  text by a language model; its results appear in `Blobs`, and its card cache
  has a TTL and nothing that invalidates it.
* Inference of a schema from the records of a proposal; validation, coercion of
  records and introspection: conversions without state. Validation appears in
  `SyncPlane` as the set of records that are refused and in `IngestRequests` as
  their number.
* Inside the modelled parts: the identifier, peer and schema gates that refuse
  before any state changes; the byte format of L2 entries and ETags; tier labels
  and lag counters of the hub's status page; the text of frames; the rewriting of
  LLM request bodies and the thinking control; rate-limit headers and usage
  records; characters inside string literals and non-ASCII encodings in
  `ReadQuery`.
* Declarative reads on a shadow. `shadow_forward` answers them before `run_spec`
  does, from its cache or from the peer, for endpoints that depend on their caller
  too: its cache does not know who asked. The federated branch of `run_spec`
  (`read/exec.rs:113`, `produce_federated`), which it normally pre-empts, forwards the
  query string as it was sent, without the tenant of the caller. `QueryInv`,
  `SelfTenantScoped` and the theorems about them are about an instance that runs
  its reads itself and say nothing of either. `HEAD` is forwarded and never
  cached. In `Blobs`, prefix and delimiter of a listing are left out.
* SQL text, ClickHouse's HTTP interface, object storage: pure I/O. A Postgres
  write is one atomic commit.
* Reports, catalogue, export, landing page, OpenAPI, LLM statistics: formatting of
  read-only results. The service's own LLM client is a caller of the gateway.
* Boot, configuration and DDL: run once, before the service answers.

## 8. Running it

    tlc -workers 2 -config MCSyncPlane_faults.cfg MCSyncPlane
    tlapm SyncPlaneProofs.tla

A run's module and configuration are in `PROJECT.json` under `runs`.
