-------------------------- MODULE TableOnboarding --------------------------
(***************************************************************************)
(* How a table comes to be and who may write to it: ingress proposals from *)
(* creation to approval (ingest/proposals.rs), the record of the backend   *)
(* each table lives on and the process-wide cache of it                    *)
(* (backend/registry.rs), the ingress allowlist and its thirty-second      *)
(* snapshot (ingest/acl.rs), and the gate in front of every ingest that    *)
(* reads both.  One table; a schema is a version number.  Database         *)
(* transactions are atomic; everything else interleaves at its awaits.     *)
(***************************************************************************)
EXTENDS Integers, FiniteSets

CONSTANTS
    Callers,     \* roles, each with a client that writes to the table
    Admins,      \* handlers of approvals and allowlist changes
    Props,       \* bound: proposals
    Scopes,      \* the patterns of an allowlist row: the table, its schema, "all",
                 \*   or some "other" table
    Nobody,      \* no proposal, no proposer
    Capability,  \* is the table one that a token's capability scope names
    MaxCols,     \* bound: counter-proposals of one proposal
    MaxChanges   \* bound: grants and revocations

ASSUME OnboardingConstants ==
    /\ IsFiniteSet(Callers)
    /\ Nobody \notin Props /\ Nobody \notin Callers
    /\ "table" \in Scopes /\ Scopes \subseteq {"table", "schema", "all", "other"}
    /\ Capability \in BOOLEAN
    /\ MaxCols \in Nat
    /\ MaxChanges \in Nat

VARIABLES
    clickhouse, \* is a ClickHouse backend configured
    exists,     \* the backends that hold the table
    row,        \* its row of provenance.table_backend
    cache,      \* Registry.cache
    acl,        \* provenance.ingress_acl
    snap,       \* acl::CACHE
    prop,       \* provenance.ingress_proposals
    admin,      \* progress of each administrator's handler
    task,       \* progress of each caller's gate
    changes     \* bound

vars == <<clickhouse, exists, row, cache, acl, snap, prop, admin, task, changes>>

Backends == {"postgres", "clickhouse"}
Rows == Callers \X Scopes
Maps == [Rows -> {"none", "yes", "no"}]
NoRows == [g \in Rows |-> "none"]

(* loaded_at is None, or too long ago; nobody reads the map that is left. *)
NoSnapshot == [map |-> NoRows, fresh |-> FALSE, late |-> FALSE]

Idle == [pc |-> "idle", p |-> Nobody, chosen |-> "postgres"]

(* A gate that has come to its verdict: a new shape goes on to a proposal. *)
Answered(verdict, late) ==
    [pc |-> IF verdict = "propose" THEN "propose" ELSE "start", via |-> "postgres",
     exists |-> FALSE, scoped |-> FALSE, map |-> NoRows, late |-> late, verdict |-> verdict]

Init ==
    /\ clickhouse \in BOOLEAN
    /\ exists = {}
    /\ row = "none"
    /\ cache = "none"
    /\ acl \in {[NoRows EXCEPT ![g] = "yes"] : g \in Rows}
    /\ snap = NoSnapshot
    /\ prop = [p \in Props |-> [status |-> "none", by |-> Nobody,
                                backend |-> "postgres", cols |-> 0]]
    /\ admin = [a \in Admins |-> Idle]
    /\ task = [c \in Callers |-> Answered("none", FALSE)]
    /\ changes = 0
-----------------------------------------------------------------------------
(* The allowlist *)

(* check_can_write: the first row that says yes, from the narrowest to the   *)
(* widest, so any of them will do.                                           *)
CheckCanWrite(map, c) == \E s \in Scopes \ {"other"} : map[<<c, s>>] = "yes"

(* can_propose: any row at all that says yes. *)
CanPropose(map, c) == \E s \in Scopes : map[<<c, s>>] = "yes"

(* Mutant of Invalidate: nothing is dropped. *)
InvalidateNothing == UNCHANGED snap

Invalidate == snap' = NoSnapshot

(* A change of the table overtakes the loads that have already read it. *)
ChangeAcl(new) ==
    /\ acl' = new
    /\ task' = [c \in Callers |-> [task[c] EXCEPT !.late = @ \/ task[c].pc = "loading"]]

(* The statement has taken effect; its answer is awaited, and only then is *)
(* the snapshot invalidated.                                               *)
GrantAcl(a, g, can) ==
    /\ admin[a].pc = "idle"
    /\ changes < MaxChanges
    /\ changes' = changes + 1
    /\ ChangeAcl([acl EXCEPT ![g] = can])
    /\ admin' = [admin EXCEPT ![a].pc = "granted"]
    /\ UNCHANGED <<clickhouse, exists, row, cache, snap, prop>>

RevokeAcl(a, g) ==
    /\ admin[a].pc = "idle"
    /\ changes < MaxChanges
    /\ changes' = changes + 1
    /\ ChangeAcl([acl EXCEPT ![g] = "none"])
    /\ admin' = [admin EXCEPT ![a].pc = "granted"]
    /\ UNCHANGED <<clickhouse, exists, row, cache, snap, prop>>

(* The last step of a grant, of a revocation and of an approval. *)
InvalidateAcl(a) ==
    /\ admin[a].pc \in {"granted", "invalidate"}
    /\ Invalidate
    /\ admin' = [admin EXCEPT ![a] = Idle]
    /\ UNCHANGED <<clickhouse, exists, row, cache, acl, prop, task, changes>>

RefreshAcl ==
    /\ Invalidate
    /\ UNCHANGED <<clickhouse, exists, row, cache, acl, prop, admin, task, changes>>

(* Mutant of SnapshotExpires: the age of the snapshot is not looked at. *)
SnapshotLives == snap.fresh /\ UNCHANGED vars

(* CACHE_TTL has passed since the snapshot was stored. *)
SnapshotExpires ==
    /\ snap.fresh
    /\ snap' = NoSnapshot
    /\ UNCHANGED <<clickhouse, exists, row, cache, acl, prop, admin, task, changes>>
-----------------------------------------------------------------------------
(* Approval *)

(* An explicit choice wins over the stored suggestion. *)
Chosen(p, override) == IF override = "none" THEN prop[p].backend ELSE override

(* The pending proposal is read, with no lock; ClickHouse is refused when  *)
(* it is not configured.                                                   *)
ReadPending(a, p, override) ==
    /\ admin[a].pc = "idle"
    /\ prop[p].status = "pending"
    /\ LET chosen == Chosen(p, override)
       IN /\ chosen = "clickhouse" => clickhouse
          /\ admin' = [admin EXCEPT ![a] = [pc |-> IF chosen = "clickhouse" THEN "create" ELSE "commit",
                                            p |-> p, chosen |-> chosen]]
    /\ UNCHANGED <<clickhouse, exists, row, cache, acl, snap, prop, task, changes>>

(* Mutant of CreateClickHouse: the bookkeeping does not wait for the table. *)
CreateClickHouseLater(a) ==
    /\ admin[a].pc = "create"
    /\ admin' = [admin EXCEPT ![a].pc = "commit"]
    /\ UNCHANGED <<clickhouse, exists, row, cache, acl, snap, prop, task, changes>>

(* The ClickHouse table comes first, outside any transaction. *)
CreateClickHouse(a) ==
    /\ admin[a].pc = "create"
    /\ exists' = exists \cup {"clickhouse"}
    /\ admin' = [admin EXCEPT ![a].pc = "commit"]
    /\ UNCHANGED <<clickhouse, row, cache, acl, snap, prop, task, changes>>

(* One transaction: the table if it is Postgres's, its backend, the grant  *)
(* to the proposer's role, and the status, whatever it has become by now.  *)
RecordBackendAclStatus(a) ==
    LET p == admin[a].p
    IN /\ admin[a].pc = "commit"
       /\ exists' = IF admin[a].chosen = "postgres" THEN exists \cup {"postgres"} ELSE exists
       /\ row' = admin[a].chosen
       /\ ChangeAcl([acl EXCEPT ![<<prop[p].by, "table">>] = "yes"])
       /\ prop' = [prop EXCEPT ![p].status = "applied"]
       /\ admin' = [admin EXCEPT ![a].pc = "note"]
       /\ UNCHANGED <<clickhouse, cache, snap, changes>>

NoteBackendCached(a) ==
    /\ admin[a].pc = "note"
    /\ cache' = admin[a].chosen
    /\ admin' = [admin EXCEPT ![a].pc = "invalidate"]
    /\ UNCHANGED <<clickhouse, exists, row, acl, snap, prop, task, changes>>

(* A statement fails or its answer is lost, or the client has gone and the *)
(* handler is dropped where it waits: what is committed stays, what        *)
(* follows does not happen.  A snapshot that differs from the table then   *)
(* stands until it expires.                                                *)
AdminStops(a) ==
    /\ admin[a].pc \in {"create", "commit", "note", "granted"}
    /\ snap' = [snap EXCEPT !.late =
                 @ \/ (snap.fresh /\ admin[a].pc \in {"note", "granted"} /\ snap.map # acl)]
    /\ admin' = [admin EXCEPT ![a] = Idle]
    /\ UNCHANGED <<clickhouse, exists, row, cache, acl, prop, task, changes>>

(* Mutant of Reject: whatever the proposal's status. *)
RejectAny(p) ==
    /\ prop[p].status # "none"
    /\ prop' = [prop EXCEPT ![p].status = "rejected"]
    /\ UNCHANGED <<clickhouse, exists, row, cache, acl, snap, admin, task, changes>>

Reject(p) ==
    /\ prop[p].status = "pending"
    /\ prop' = [prop EXCEPT ![p].status = "rejected"]
    /\ UNCHANGED <<clickhouse, exists, row, cache, acl, snap, admin, task, changes>>

(* A validated counter-proposal, refined or not, replaces the schema; the  *)
(* suggested backend stays what the first records suggested.               *)
Counter(p) ==
    /\ prop[p].status = "pending"
    /\ prop[p].cols < MaxCols
    /\ prop' = [prop EXCEPT ![p].cols = @ + 1]
    /\ UNCHANGED <<clickhouse, exists, row, cache, acl, snap, admin, task, changes>>

(* refresh_schemas: both schema caches are emptied. *)
RefreshSchemas ==
    /\ cache' = "none"
    /\ UNCHANGED <<clickhouse, exists, row, acl, snap, prop, admin, task, changes>>
-----------------------------------------------------------------------------
(* The gate of one ingest *)

(* Registry::get falls back to Postgres without a ClickHouse backend. *)
Handle(kind) == IF kind = "clickhouse" /\ ~clickhouse THEN "postgres" ELSE kind

(* A request comes with a token that holds a capability scope for the      *)
(* table, or without one.  Registry::resolve: the cache, or the row, read  *)
(* now and cached later.                                                   *)
Asks(c, place, via) ==
    \E scoped \in {FALSE, Capability} :
        task' = [task EXCEPT ![c] = [Answered("none", FALSE) EXCEPT
                                        !.pc = place, !.via = via, !.scoped = scoped]]

ResolveCached(c) ==
    /\ task[c].pc = "start"
    /\ cache # "none"
    /\ Asks(c, "found", Handle(cache))
    /\ UNCHANGED <<clickhouse, exists, row, cache, acl, snap, prop, admin, changes>>

ResolveRead(c) ==
    /\ task[c].pc = "start"
    /\ cache = "none"
    /\ Asks(c, "resolving", IF row = "none" THEN "postgres" ELSE row)
    /\ UNCHANGED <<clickhouse, exists, row, cache, acl, snap, prop, admin, changes>>

ResolveInsert(c) ==
    /\ task[c].pc = "resolving"
    /\ cache' = task[c].via
    /\ task' = [task EXCEPT ![c].pc = "found", ![c].via = Handle(task[c].via)]
    /\ UNCHANGED <<clickhouse, exists, row, acl, snap, prop, admin, changes>>

(* table_meta asks that backend. *)
TableMeta(c) ==
    /\ task[c].pc = "found"
    /\ task' = [task EXCEPT ![c].pc = "gate", ![c].exists = (task[c].via \in exists)]
    /\ UNCHANGED <<clickhouse, exists, row, cache, acl, snap, prop, admin, changes>>

(* scope_grants_write: the scope opens this one table, whatever the        *)
(* allowlist says of the caller's role.                                    *)
ScopeGrants(c) == task[c].exists /\ task[c].scoped

(* gate_target: a table that exists needs a scope or a grant, one that     *)
(* does not may be proposed.                                               *)
Verdict(c, map) ==
    IF task[c].exists
    THEN IF ScopeGrants(c) \/ CheckCanWrite(map, c) THEN "write" ELSE "refused"
    ELSE IF CanPropose(map, c) THEN "propose" ELSE "refused"

Decides(c, map, late) == task' = [task EXCEPT ![c] = Answered(Verdict(c, map), late)]

(* With the scope the snapshot is not even looked at. *)
ScopeDecides(c) ==
    /\ task[c].pc = "gate"
    /\ ScopeGrants(c)
    /\ Decides(c, NoRows, FALSE)
    /\ UNCHANGED <<clickhouse, exists, row, cache, acl, snap, prop, admin, changes>>

(* cache_snapshot: a snapshot that is young and not empty is used as it    *)
(* is; otherwise the table is loaded, without the lock, and stored.        *)
Usable == snap.fresh /\ snap.map # NoRows

SnapshotCached(c) ==
    /\ task[c].pc = "gate"
    /\ ~ScopeGrants(c)
    /\ Usable
    /\ Decides(c, snap.map, snap.late)
    /\ UNCHANGED <<clickhouse, exists, row, cache, acl, snap, prop, admin, changes>>

Load(c) ==
    /\ task[c].pc = "gate"
    /\ ~ScopeGrants(c)
    /\ ~Usable
    /\ task' = [task EXCEPT ![c].pc = "loading", ![c].map = acl, ![c].late = FALSE]
    /\ UNCHANGED <<clickhouse, exists, row, cache, acl, snap, prop, admin, changes>>

StoreSnapshot(c) ==
    /\ task[c].pc = "loading"
    /\ snap' = [map |-> task[c].map, fresh |-> TRUE, late |-> task[c].late]
    /\ Decides(c, task[c].map, task[c].late)
    /\ UNCHANGED <<clickhouse, exists, row, cache, acl, prop, admin, changes>>

(* A statement of the gate fails, or the client has gone where it waits:   *)
(* nothing is cached and nothing is let through.                           *)
GateStops(c) ==
    /\ task[c].pc \in {"resolving", "found", "loading"}
    /\ task' = [task EXCEPT ![c] = Answered("none", FALSE)]
    /\ UNCHANGED <<clickhouse, exists, row, cache, acl, snap, prop, admin, changes>>

(* proposals::create: no question is asked about other proposals. *)
Create(c) ==
    /\ task[c].pc = "propose"
    /\ task' = [task EXCEPT ![c].pc = "start"]
    /\ \/ \E p \in Props, b \in Backends :
             /\ prop[p].status = "none"
             /\ prop' = [prop EXCEPT ![p] = [status |-> "pending", by |-> c, backend |-> b, cols |-> 0]]
       \/ UNCHANGED prop   \* the insert fails
    /\ UNCHANGED <<clickhouse, exists, row, cache, acl, snap, admin, changes>>
-----------------------------------------------------------------------------
Next ==
    \/ \E a \in Admins :
          \/ \E g \in Rows : RevokeAcl(a, g) \/ \E can \in {"yes", "no"} : GrantAcl(a, g, can)
          \/ \E p \in Props, override \in Backends \cup {"none"} : ReadPending(a, p, override)
          \/ CreateClickHouse(a) \/ RecordBackendAclStatus(a) \/ NoteBackendCached(a)
          \/ InvalidateAcl(a) \/ AdminStops(a)
    \/ \E p \in Props : Reject(p) \/ Counter(p)
    \/ RefreshAcl \/ RefreshSchemas \/ SnapshotExpires
    \/ \E c \in Callers :
          \/ ResolveCached(c) \/ ResolveRead(c) \/ ResolveInsert(c) \/ TableMeta(c)
          \/ ScopeDecides(c) \/ SnapshotCached(c) \/ Load(c) \/ StoreSnapshot(c)
          \/ GateStops(c) \/ Create(c)

Spec == Init /\ [][Next]_vars

(* Time passes: CACHE_TTL ends whatever the callers and the handlers do. *)
FairSpec == Spec /\ WF_vars(SnapshotExpires)
-----------------------------------------------------------------------------
Proposal == [status : {"none", "pending", "applied", "rejected"},
             by : Callers \cup {Nobody}, backend : Backends, cols : Nat]
Handler == [pc : {"idle", "create", "commit", "note", "granted", "invalidate"},
            p : Props \cup {Nobody}, chosen : Backends]
Places == {"start", "resolving", "found", "gate", "loading", "propose"}
Verdicts == {"none", "write", "propose", "refused"}
Task == [pc : Places, via : Backends, exists : BOOLEAN, scoped : BOOLEAN, map : Maps,
         late : BOOLEAN, verdict : Verdicts]

(* Every variable holds a value of its kind. *)
TypeOK ==
    /\ clickhouse \in BOOLEAN
    /\ exists \subseteq Backends
    /\ row \in Backends \cup {"none"}
    /\ cache \in Backends \cup {"none"}
    /\ acl \in Maps
    /\ snap \in [map : Maps, fresh : BOOLEAN, late : BOOLEAN]
    /\ prop \in [Props -> Proposal]
    /\ admin \in [Admins -> Handler]
    /\ task \in [Callers -> Task]
    /\ changes \in Nat

(* Whatever approvals race, stop half-way or are repeated on another       *)
(* backend: an applied proposal has its table's backend on record, the     *)
(* backend on record holds the table, and nobody is sent to ClickHouse for *)
(* a table that is not there.                                              *)
RecordedTableExists ==
    /\ \A p \in Props : prop[p].status = "applied" => row # "none"
    /\ row # "none" => row \in exists
    /\ cache = "clickhouse" => "clickhouse" \in exists

(* What is applied stays: no later verdict, counter-proposal or approval   *)
(* changes the proposal's status or the schema it was applied with.        *)
AppliedIsFinal ==
    [][\A p \in Props : prop[p].status = "applied" => prop'[p] = prop[p]]_vars

(* The gate lets a write of the caller through in this step. *)
LetsWrite(c) == task'[c].verdict = "write" /\ task[c].verdict = "none"

(* A write is let through only by the scope of its token or on a grant     *)
(* that stands, unless the change that took the grant away is still in its *)
(* handler, overtook the load that is relied on, or lost its handler       *)
(* before the invalidation while an older snapshot was cached.             *)
WritesAreGranted ==
    [][\A c \in Callers :
          LetsWrite(c) =>
             \/ task[c].scoped
             \/ CheckCanWrite(acl, c)
             \/ task'[c].late
             \/ \E a \in Admins : admin[a].pc \in {"note", "granted", "invalidate"}]_vars

(* However an invalidation was lost or overtaken: a role whose grants are  *)
(* gone for good is, in the end, let through by nothing but a scope.       *)
RevocationSettles ==
    \A c \in Callers :
        <>[]~CheckCanWrite(acl, c) => <>[][~(LetsWrite(c) /\ ~task[c].scoped)]_vars

(* Types, and record, cache, status and tables agree: the safety of        *)
(* approve and of the registry's resolve.                                  *)
OnboardingInv == TypeOK /\ RecordedTableExists
=============================================================================
