----------------------------- MODULE ReadCache -----------------------------
(***************************************************************************)
(* The response cache of the declarative read layer (read/cache.rs) as the *)
(* read path (read/exec.rs run_spec) and the ingest handlers use it.       *)
(*                                                                         *)
(* Each replica keeps a generation per endpoint, starting at 0, and an L1  *)
(* of bodies under (endpoint, generation); replicas share an L2 in Redis   *)
(* under the same keys.  A committed write bumps the generation of every   *)
(* endpoint that reads the table and publishes the table's name, which     *)
(* every subscribed replica, the writer's own included, answers with       *)
(* another bump.  The data is abstracted to a version per table: a body is *)
(* the versions its query saw.  Bodies of one endpoint differ only in      *)
(* their parameters, which never change: one set of parameters is modelled.*)
(***************************************************************************)
EXTENDS Integers, FiniteSets

CONSTANTS
    Replicas,     \* processes serving the API
    Tables,
    Endpoints,    \* declarative read specs
    Reads,        \* the tables each endpoint reads (the reverse index)
    Readers,      \* GET requests in progress
    Writers,      \* ingest requests in progress
    Redis,        \* is there a Redis (L2 and pub/sub together)
    MaxWrites,    \* bound: commits
    MaxRestarts,  \* bound: replica restarts
    MaxTimeouts,  \* bound: queries that exceed query_timeout_ms
    MaxLosses     \* bound: invalidation messages lost, requests cancelled

ASSUME CacheConstants ==
    /\ Reads \in [Endpoints -> SUBSET Tables]
    /\ Replicas # {} /\ Tables # {} /\ Endpoints # {}
    /\ Redis \in BOOLEAN
    /\ MaxWrites \in Nat
    /\ MaxRestarts \in Nat
    /\ MaxTimeouts \in Nat
    /\ MaxLosses \in Nat

VARIABLES
    db,        \* committed version of each table
    gen,       \* CacheManager.generations of each replica
    l1,        \* the in-process entries of each replica
    l2,        \* the Redis entries
    chan,      \* invalidations published and not yet delivered, per replica
    read,      \* the GET requests
    write,     \* the ingest requests
    acked,     \* the newest version a write through the replica was acknowledged for
    writes,    \* commits so far (bound)
    faults     \* restarts, timeouts and losses so far

vars == <<db, gen, l1, l2, chan, read, write, acked, writes, faults>>

Bodies == [Tables -> Nat]
Entries == [ep : Endpoints, gen : Nat, body : Bodies]
EmptyBody == [t \in Tables |-> 0]
Key(x) == [ep |-> x.ep, gen |-> x.gen]

AnyReplica == CHOOSE c \in Replicas : TRUE
IdleRead == [pc |-> "idle", at |-> AnyReplica, ep |-> CHOOSE e \in Endpoints : TRUE,
             gen |-> 0, need |-> EmptyBody, body |-> EmptyBody]
IdleWrite == [pc |-> "idle", at |-> AnyReplica, table |-> CHOOSE t \in Tables : TRUE,
              ver |-> 0]

Init ==
    /\ db = [t \in Tables |-> 1]
    /\ gen = [c \in Replicas |-> [e \in Endpoints |-> 0]]
    /\ l1 = [c \in Replicas |-> {}]
    /\ l2 = {}
    /\ chan = [c \in Replicas |-> [t \in Tables |-> 0]]
    /\ read = [r \in Readers |-> IdleRead]
    /\ write = [w \in Writers |-> IdleWrite]
    /\ acked = [c \in Replicas |-> EmptyBody]
    /\ writes = 0
    /\ faults = [restarts |-> 0, timeouts |-> 0, losses |-> 0]

cacheVars == <<gen, l1, l2, chan>>
-----------------------------------------------------------------------------
(***************************************************************************)
(* A read.  run_spec takes the generation, builds the key and enters       *)
(* get_or_compute, whose L1 lets one task per key run the L2 lookup, the   *)
(* query and the SETEX while the others wait for its outcome.  pc: l1 (at  *)
(* the L1), l2, query, setex and fill (the one task of its key), wait, and *)
(* done (the body is being sent).                                          *)
(***************************************************************************)
Becomes(r, st) == read' = [read EXCEPT ![r] = st]
SameKey(q, r) == read[q].at = read[r].at /\ Key(read[q]) = Key(read[r])
InFlight == {"l2", "query", "setex", "fill"}
Flying(r) == \E q \in Readers : SameKey(q, r) /\ read[q].pc \in InFlight
Waits(q, r) == SameKey(q, r) /\ read[q].pc = "wait"
Hits(S, r) == {x \in S : Key(x) = Key(read[r])}
(* Mutant of EntryOf: the generation is read when the body is stored. *)
EntryOfLate(r) == [ep |-> read[r].ep, gen |-> gen[read[r].at][read[r].ep],
                   body |-> read[r].body]
EntryOf(r) == [ep |-> read[r].ep, gen |-> read[r].gen, body |-> read[r].body]
Stored(S, r, x) == (S \ Hits(S, r)) \cup {x}

StartRead(r, c, e) ==
    /\ read[r].pc = "idle"
    /\ Becomes(r, [pc |-> "l1", at |-> c, ep |-> e, gen |-> gen[c][e],
                   need |-> acked[c], body |-> EmptyBody])
    /\ UNCHANGED <<db, cacheVars, write, acked, writes, faults>>

(* Mutant of HitL1: an entry of a generation left behind is neither served *)
(* nor counted as a miss.                                                  *)
HitL1Current(r) ==
    /\ read[r].pc = "l1"
    /\ read[r].gen = gen[read[r].at][read[r].ep]
    /\ \E x \in Hits(l1[read[r].at], r) :
         Becomes(r, [read[r] EXCEPT !.pc = "done", !.body = x.body])
    /\ UNCHANGED <<db, cacheVars, write, acked, writes, faults>>

HitL1(r) ==
    /\ read[r].pc = "l1"
    /\ \E x \in Hits(l1[read[r].at], r) :
         Becomes(r, [read[r] EXCEPT !.pc = "done", !.body = x.body])
    /\ UNCHANGED <<db, cacheVars, write, acked, writes, faults>>

MissL1(r) ==
    /\ read[r].pc = "l1"
    /\ Hits(l1[read[r].at], r) = {}
    /\ Becomes(r, [read[r] EXCEPT !.pc = IF Flying(r) THEN "wait" ELSE "l2"])
    /\ UNCHANGED <<db, cacheVars, write, acked, writes, faults>>

HitL2(r) ==
    /\ read[r].pc = "l2"
    /\ \E x \in Hits(l2, r) :
         Becomes(r, [read[r] EXCEPT !.pc = "fill", !.body = x.body])
    /\ UNCHANGED <<db, cacheVars, write, acked, writes, faults>>

(* No entry, no Redis, or a Redis error: all are a miss. *)
MissL2(r) ==
    /\ read[r].pc = "l2"
    /\ Becomes(r, [read[r] EXCEPT !.pc = "query"])
    /\ UNCHANGED <<db, cacheVars, write, acked, writes, faults>>

(* produce: one query sees one committed state of the tables. *)
Query(r) ==
    /\ read[r].pc = "query"
    /\ Becomes(r, [read[r] EXCEPT !.pc = "setex", !.body = db])
    /\ UNCHANGED <<db, cacheVars, write, acked, writes, faults>>

(* A query past query_timeout_ms is a body like any other: []. *)
QueryTimesOut(r) ==
    /\ read[r].pc = "query"
    /\ faults.timeouts < MaxTimeouts
    /\ faults' = [faults EXCEPT !.timeouts = @ + 1]
    /\ Becomes(r, [read[r] EXCEPT !.pc = "setex", !.body = EmptyBody])
    /\ UNCHANGED <<db, cacheVars, write, acked, writes>>

(* Best effort: the answer of the SETEX is dropped. *)
SetEx(r) ==
    /\ read[r].pc = "setex"
    /\ \/ l2' = l2
       \/ Redis /\ l2' = Stored(l2, r, EntryOf(r))
    /\ Becomes(r, [read[r] EXCEPT !.pc = "fill"])
    /\ UNCHANGED <<db, gen, l1, chan, write, acked, writes, faults>>

(* The body enters L1 and goes to this task and to everyone waiting. *)
Fill(r) ==
    /\ read[r].pc = "fill"
    /\ l1' = [l1 EXCEPT ![read[r].at] = Stored(@, r, EntryOf(r))]
    /\ read' = [q \in Readers |->
                  IF q = r \/ Waits(q, r)
                  THEN [read[q] EXCEPT !.pc = "done", !.body = read[r].body]
                  ELSE read[q]]
    /\ UNCHANGED <<db, gen, l2, chan, write, acked, writes, faults>>

(* A failed query caches nothing, and fails everyone waiting on its key. *)
QueryFails(r) ==
    /\ read[r].pc = "query"
    /\ faults.losses < MaxLosses
    /\ faults' = [faults EXCEPT !.losses = @ + 1]
    /\ read' = [q \in Readers |->
                  IF q = r \/ Waits(q, r) THEN IdleRead ELSE read[q]]
    /\ UNCHANGED <<db, cacheVars, write, acked, writes>>

(* Mutant of CancelRead: a dropped flight leaves its waiters waiting. *)
CancelReadAlone(r) ==
    /\ read[r].pc \in InFlight \cup {"l1", "wait"}
    /\ faults.losses < MaxLosses
    /\ faults' = [faults EXCEPT !.losses = @ + 1]
    /\ Becomes(r, IdleRead)
    /\ UNCHANGED <<db, cacheVars, write, acked, writes>>

(* The client goes away: the request's future is dropped where it stands, *)
(* and if it was the flight of its key the waiters start over.            *)
CancelRead(r) ==
    /\ read[r].pc \in InFlight \cup {"l1", "wait"}
    /\ faults.losses < MaxLosses
    /\ faults' = [faults EXCEPT !.losses = @ + 1]
    /\ read' = [q \in Readers |->
                  IF q = r THEN IdleRead
                  ELSE IF Waits(q, r) /\ read[r].pc \in InFlight
                       THEN [read[q] EXCEPT !.pc = "l1"]
                       ELSE read[q]]
    /\ UNCHANGED <<db, cacheVars, write, acked, writes>>

Respond(r) ==
    /\ read[r].pc = "done"
    /\ Becomes(r, IdleRead)
    /\ UNCHANGED <<db, cacheVars, write, acked, writes, faults>>
-----------------------------------------------------------------------------
(* A write: the ingest commits, then invalidate_table bumps this replica's *)
(* generations and publishes; then the caller gets its answer.             *)

Bumped(c, t) == [gen EXCEPT ![c] = [e \in Endpoints |->
                    IF t \in Reads[e] THEN gen[c][e] + 1 ELSE gen[c][e]]]
IsRead(t) == \E e \in Endpoints : t \in Reads[e]

Commit(w, c, t) ==
    /\ write[w].pc = "idle"
    /\ writes < MaxWrites
    /\ writes' = writes + 1
    /\ db' = [db EXCEPT ![t] = @ + 1]
    /\ write' = [write EXCEPT ![w] = [pc |-> "committed", at |-> c, table |-> t,
                                      ver |-> db[t] + 1]]
    /\ UNCHANGED <<cacheVars, read, acked, faults>>

InvalidateLocal(w) ==
    /\ write[w].pc = "committed"
    /\ gen' = Bumped(write[w].at, write[w].table)
    /\ write' = [write EXCEPT ![w].pc = "bumped"]
    /\ UNCHANGED <<db, l1, l2, chan, read, acked, writes, faults>>

PublishAndAck(w) ==
    LET c == write[w].at
        t == write[w].table
    IN /\ write[w].pc = "bumped"
       /\ chan' = IF Redis /\ IsRead(t)
                  THEN [d \in Replicas |-> [chan[d] EXCEPT ![t] = @ + 1]]
                  ELSE chan
       /\ acked' = [acked EXCEPT ![c] = [u \in Tables |->
                      IF u = t /\ acked[c][t] < write[w].ver
                      THEN write[w].ver ELSE acked[c][u]]]
       /\ write' = [write EXCEPT ![w] = IdleWrite]
       /\ UNCHANGED <<db, gen, l1, l2, read, writes, faults>>

(* The writer's client goes away: committed, but never acknowledged. *)
CancelWrite(w) ==
    /\ write[w].pc # "idle"
    /\ faults.losses < MaxLosses
    /\ faults' = [faults EXCEPT !.losses = @ + 1]
    /\ write' = [write EXCEPT ![w] = IdleWrite]
    /\ UNCHANGED <<db, cacheVars, read, acked, writes>>
-----------------------------------------------------------------------------
(* The invalidation listener of a replica. *)
Deliver(c, t) ==
    /\ chan[c][t] > 0
    /\ chan' = [chan EXCEPT ![c][t] = @ - 1]
    /\ gen' = Bumped(c, t)
    /\ UNCHANGED <<db, l1, l2, read, write, acked, writes, faults>>

(* A message published while the listener reconnects is gone. *)
LoseMessage(c, t) ==
    /\ chan[c][t] > 0
    /\ faults.losses < MaxLosses
    /\ faults' = [faults EXCEPT !.losses = @ + 1]
    /\ chan' = [chan EXCEPT ![c][t] = @ - 1]
    /\ UNCHANGED <<db, gen, l1, l2, read, write, acked, writes>>

(* A new process: generations at 0 and an empty L1; L2 stays. *)
Restart(c) ==
    /\ faults.restarts < MaxRestarts
    /\ faults' = [faults EXCEPT !.restarts = @ + 1]
    /\ gen' = [gen EXCEPT ![c] = [e \in Endpoints |-> 0]]
    /\ l1' = [l1 EXCEPT ![c] = {}]
    /\ chan' = [chan EXCEPT ![c] = [t \in Tables |-> 0]]
    /\ read' = [r \in Readers |-> IF read[r].at = c THEN IdleRead ELSE read[r]]
    /\ write' = [w \in Writers |-> IF write[w].at = c THEN IdleWrite ELSE write[w]]
    /\ UNCHANGED <<db, l2, acked, writes>>

(* TTL and the byte cap. *)
EvictL1(c, x) ==
    /\ l1' = [l1 EXCEPT ![c] = @ \ {x}]
    /\ UNCHANGED <<db, gen, l2, chan, read, write, acked, writes, faults>>

EvictL2(x) ==
    /\ l2' = l2 \ {x}
    /\ UNCHANGED <<db, gen, l1, chan, read, write, acked, writes, faults>>
-----------------------------------------------------------------------------
ReadStep(r) ==
    \/ HitL1(r) \/ MissL1(r) \/ HitL2(r) \/ MissL2(r)
    \/ Query(r) \/ QueryTimesOut(r) \/ SetEx(r) \/ Fill(r) \/ Respond(r)

Next ==
    \/ \E r \in Readers : \/ \E c \in Replicas, e \in Endpoints : StartRead(r, c, e)
                          \/ ReadStep(r)
                          \/ QueryFails(r)
                          \/ CancelRead(r)
    \/ \E w \in Writers : \/ \E c \in Replicas, t \in Tables : Commit(w, c, t)
                          \/ InvalidateLocal(w)
                          \/ PublishAndAck(w)
                          \/ CancelWrite(w)
    \/ \E c \in Replicas, t \in Tables : Deliver(c, t) \/ LoseMessage(c, t)
    \/ \E c \in Replicas : Restart(c) \/ \E x \in l1[c] : EvictL1(c, x)
    \/ \E x \in l2 : EvictL2(x)

Spec == Init /\ [][Next]_vars

(* The runtime polls every request's future until it completes. *)
FairSpec == Spec /\ \A r \in Readers : WF_vars(ReadStep(r))
-----------------------------------------------------------------------------
ReadStates == [pc : InFlight \cup {"idle", "l1", "wait", "done"}, at : Replicas,
               ep : Endpoints, gen : Nat, need : Bodies, body : Bodies]
WriteStates == [pc : {"idle", "committed", "bumped"}, at : Replicas, table : Tables,
                ver : Nat]

(* Every variable holds a value of its kind. *)
TypeOK ==
    /\ db \in Bodies
    /\ gen \in [Replicas -> [Endpoints -> Nat]]
    /\ \A c \in Replicas : l1[c] \subseteq Entries
    /\ DOMAIN l1 = Replicas
    /\ l2 \subseteq Entries
    /\ chan \in [Replicas -> [Tables -> Nat]]
    /\ read \in [Readers -> ReadStates]
    /\ write \in [Writers -> WriteStates]
    /\ acked \in [Replicas -> Bodies]
    /\ writes \in Nat
    /\ faults \in [restarts : Nat, timeouts : Nat, losses : Nat]

ReadsFresh ==
    \A r \in Readers : read[r].pc = "done" /\ read[r].body # EmptyBody =>
        \A t \in Reads[read[r].ep] : read[r].body[t] >= read[r].need[t]

(* Read-your-writes: a read that starts on a replica after a write through *)
(* it was answered returns the written version or a newer one, of every    *)
(* table its endpoint reads, whether from L1, L2, another task's flight or *)
(* a query of its own; or the [] of a query that timed out.  A replica     *)
(* that restarts finds the entries of its earlier life in Redis under the  *)
(* generations it counts anew, and the promise ends there.                 *)
ReadYourWrites == (Redis => faults.restarts = 0) => ReadsFresh

(* Single flight: at most one task of a replica computes a key at a time,  *)
(* and nobody waits on a key that nobody computes.                         *)
SingleFlight ==
    /\ \A q, r \in Readers :
         q # r /\ SameKey(q, r) /\ read[q].pc \in InFlight => read[r].pc \notin InFlight
    /\ \A r \in Readers : read[r].pc = "wait" => Flying(r)

(* get_or_compute keeps its flights single, and its state of its kind. *)
FlightInv == TypeOK /\ SingleFlight

(* Every read ends, also one that waits on another task's flight when that *)
(* task fails or is cancelled.                                             *)
ReadsEnd == \A r \in Readers : read[r].pc # "idle" ~> read[r].pc = "idle"
=============================================================================
