----------------------------- MODULE SyncPlane -----------------------------
(***************************************************************************)
(* The data-push plane: sync/push.rs drains one table of a producer to the *)
(* inbox of a target instance (sync/inbox.rs), which applies every batch   *)
(* through the ordinary merge (write/engine.rs) and remembers it in        *)
(* sync.inbox_ledger.                                                      *)
(*                                                                         *)
(* The source table maps each natural key to its current row: the payload, *)
(* the run that wrote it, the watermark stamped on it (ingest_ts) and its  *)
(* tuple id (ctid).  Both tables are keyed by the natural key, as the      *)
(* merge's ON CONFLICT is.  A batch is its own batch_id: the id is a       *)
(* SHA-256 over the run and every row in page order, and nothing else in   *)
(* it varies (peer and table are fixed here).                              *)
(***************************************************************************)
EXTENDS Integers, FiniteSets

CONSTANTS
    Keys,         \* natural keys of the table
    Vals,         \* payloads
    NoVal,        \* the payload of an absent row
    Runs,         \* provenance run ids; a BTreeMap orders them
    PrunedRuns,   \* runs whose provenance.runs row the producer no longer has
    Rejects,      \* <<key, payload>> pairs the target's validator refuses
    Pushers,      \* concurrent calls of POST /admin/sync/push
    Slots,        \* requests the target can be executing at once
    BatchRows,    \* LUMID_SYNC_BATCH_ROWS
    MaxAttempts,  \* LUMID_SYNC_MAX_ATTEMPTS
    MaxWrites,    \* bound: the newest stamp, and with it the number of commits
    MaxFaults,    \* bound: timeouts, failed requests and dead pushes
    Lag,          \* a commit trails the newest watermark stamped by less than this
    ReuseRuns,    \* may one run write several times (a stream does)
    Linger        \* may a request outlive the timeout of its sender

ASSUME SyncConstants ==
    /\ NoVal \notin Vals
    /\ Runs \subseteq (Nat \ {0})
    /\ IsFiniteSet(Keys)
    /\ BatchRows \in Nat \ {0}
    /\ MaxAttempts \in Nat
    /\ MaxWrites \in Nat
    /\ MaxFaults \in Nat
    /\ Lag \in Nat \ {0}
    /\ ReuseRuns \in BOOLEAN
    /\ Linger \in BOOLEAN

VARIABLES
    src,      \* the producer's table
    clock,    \* the newest watermark any writer has stamped
    log,      \* every version a row of src has had: its history
    late,     \* the stamps of commits that landed behind a position already read
    cursor,   \* sync.push_cursor: the position (watermark, ctid) delivered
    push,     \* the push calls in progress
    req,      \* the requests in progress at the target
    tgt,      \* the target's table
    tgtRuns,  \* the target's provenance.runs
    ledger,   \* the target's sync.inbox_ledger
    faults    \* failures so far (bound)

vars == <<src, clock, log, late, cursor, push, req, tgt, tgtRuns, ledger, faults>>
srcVars == <<src, clock, log, late>>
tgtVars == <<tgt, tgtRuns, ledger>>
-----------------------------------------------------------------------------
(* Positions: the keyset (watermark, ctid) in lexicographic order. *)

Positions == [wm : Nat, tid : Nat]
Start == [wm |-> 0, tid |-> 0]
(* Mutant of Before: a cursor on the watermark alone, without the ctid. *)
BeforeNoTid(a, b) == a.wm < b.wm
Before(a, b) == \/ a.wm < b.wm
                \/ a.wm = b.wm /\ a.tid < b.tid
Pos(row) == [wm |-> row.wm, tid |-> row.tid]

Rows == [val : Vals \cup {NoVal}, run : Nat, wm : Nat, tid : Nat]
NoRow == [val |-> NoVal, run |-> 0, wm |-> 0, tid |-> 0]
Present(k) == src[k].val # NoVal

(* A batch: the envelope's run, the records, and each record's place. *)
Batches == [run : Nat, rows : [Keys -> Vals \cup {NoVal}], ord : [Keys -> Nat]]

BatchKeys(b) == {k \in Keys : b.rows[k] # NoVal}
Rejected(b) == {k \in BatchKeys(b) : <<k, b.rows[k]>> \in Rejects}
Accepted(b) == BatchKeys(b) \ Rejected(b)
-----------------------------------------------------------------------------
IdlePush == [pc |-> "idle", cur |-> Start, page |-> [k \in Keys |-> NoRow],
             last |-> Start, todo |-> {}, att |-> 0, slot |-> {}]
NoBatch == [run |-> 0, rows |-> [k \in Keys |-> NoVal],
            ord |-> [k \in Keys |-> 0]]
IdleReq == [pc |-> "idle", batch |-> NoBatch]

Init ==
    /\ src = [k \in Keys |-> NoRow]
    /\ clock = 0
    /\ log = {}
    /\ late = {}
    /\ cursor = Start
    /\ push = [p \in Pushers |-> IdlePush]
    /\ req = [s \in Slots |-> IdleReq]
    /\ tgt = [k \in Keys |-> [val |-> NoVal, run |-> 0]]
    /\ tgtRuns = {}
    /\ ledger = {}
    /\ faults = 0
-----------------------------------------------------------------------------
(***************************************************************************)
(* The producer's own ingest (write/engine.rs copy_and_merge): one commit  *)
(* stamps one watermark and one run on every row whose payload changed; an *)
(* equal payload leaves the row, its run and its watermark alone.  The     *)
(* watermark is read from the wall clock before the COPY, so a commit can  *)
(* land after one that was stamped later, by less than Lag stamps          *)
(* (never, with Lag = 1); a stamp may leave room for such commits.         *)
(* Stamps number the commits in the order they were stamped: they are      *)
(* compared only for that order and for how many lie between two. No two   *)
(* commits read the same microsecond, so the tuple id only has to order    *)
(* the rows of one commit. The history late keeps the stamps that were     *)
(* not past every position a push had saved, held or read up to.           *)
(***************************************************************************)
Changed(new) == {k \in DOMAIN new : src[k].val # new[k]}
Stamps == {w.wm : w \in log}
UsedRuns == {w.run : w \in log}
Version(k, row) == [key |-> k, val |-> row.val, run |-> row.run, wm |-> row.wm]
Versions == [key : Keys, val : Vals, run : Nat, wm : Nat]
Placements(C) == {at \in [C -> 1 .. Cardinality(C)] :
                    \A j, k \in C : at[j] = at[k] => j = k}

Merged(new, r, stamp, at) ==
    [k \in Keys |-> IF k \in Changed(new)
                    THEN [val |-> new[k], run |-> r, wm |-> stamp, tid |-> at[k]]
                    ELSE src[k]]

(* The positions pushes have saved, hold or have read up to. *)
Reached == {cursor} \cup UNION {{push[p].cur, push[p].last} : p \in Pushers}
LandsBehind(stamp) == \E q \in Reached : stamp <= q.wm

SourceWrite(new, r, stamp) ==
    /\ stamp <= MaxWrites
    /\ stamp + Lag > clock
    /\ stamp \notin Stamps
    /\ ReuseRuns \/ r \notin UsedRuns
    /\ Changed(new) # {}
    /\ \E at \in Placements(Changed(new)) : src' = Merged(new, r, stamp, at)
    /\ clock' = IF stamp > clock THEN stamp ELSE clock
    /\ log' = log \cup {Version(k, src'[k]) : k \in Changed(new)}
    /\ late' = IF LandsBehind(stamp) THEN late \cup {stamp} ELSE late
    /\ UNCHANGED <<cursor, push, req, tgtVars, faults>>
-----------------------------------------------------------------------------
(* The push helper, run_push.  pc: idle, read (the top of its loop), post  *)
(* (a group is to be sent), wait (a request is out).                       *)

After(cur) == {k \in Keys : Present(k) /\ Before(cur, Pos(src[k]))}

(* ORDER BY wm, ctid LIMIT batch_rows: the first rows past the cursor. *)
IsPage(K, cur) ==
    /\ K \subseteq After(cur)
    /\ \A k \in K : \A j \in After(cur) :
         Before(Pos(src[j]), Pos(src[k])) => j \in K
    /\ Cardinality(K) = BatchRows \/ (K = After(cur) /\ Cardinality(K) < BatchRows)

Snapshot(K) == [k \in Keys |-> IF k \in K THEN src[k] ELSE NoRow]
PageKeys(page) == {k \in Keys : page[k].val # NoVal}

(* Mutant of Group: the page is sent as one batch. *)
GroupWholePage(page, r) == PageKeys(page)

(* The group of the page that run r wrote, and its batch. *)
Group(page, r) == {k \in PageKeys(page) : page[k].run = r}

BatchOf(page, r) ==
    [run |-> r,
     rows |-> [k \in Keys |-> IF k \in Group(page, r) THEN page[k].val ELSE NoVal],
     ord |-> [k \in Keys |->
                IF k \in Group(page, r)
                THEN Cardinality({j \in Group(page, r) :
                                    Before(Pos(page[j]), Pos(page[k]))})
                ELSE 0]]

Becomes(p, state) == push' = [push EXCEPT ![p] = state]

StartPush(p) ==
    /\ push[p].pc = "idle"
    /\ Becomes(p, [push[p] EXCEPT !.pc = "read", !.cur = cursor])
    /\ UNCHANGED <<srcVars, cursor, req, tgtVars, faults>>

ReadPage(p) ==
    /\ push[p].pc = "read"
    /\ After(push[p].cur) # {}
    /\ \E K \in SUBSET Keys : \E m \in K :
         /\ IsPage(K, push[p].cur)
         /\ \A k \in K : ~Before(Pos(src[m]), Pos(src[k]))
         /\ Becomes(p, [push[p] EXCEPT !.pc = "post", !.page = Snapshot(K),
                                       !.last = Pos(src[m]),
                                       !.todo = {src[k].run : k \in K},
                                       !.att = 0])
    /\ UNCHANGED <<srcVars, cursor, req, tgtVars, faults>>

Drained(p) ==
    /\ push[p].pc = "read"
    /\ After(push[p].cur) = {}
    /\ Becomes(p, IdlePush)
    /\ UNCHANGED <<srcVars, cursor, req, tgtVars, faults>>

(* One attempt of post_with_retry. *)
Send(p, s) ==
    /\ push[p].pc = "post"
    /\ req[s].pc = "idle"
    /\ \E r \in push[p].todo :
         /\ \A q \in push[p].todo : r <= q
         /\ req' = [req EXCEPT ![s] = [pc |-> "lookup",
                                       batch |-> BatchOf(push[p].page, r)]]
    /\ Becomes(p, [push[p] EXCEPT !.pc = "wait", !.att = @ + 1, !.slot = {s}])
    /\ UNCHANGED <<srcVars, cursor, tgtVars, faults>>

(* resp.status().is_success() *)
IsAck(s) == req[s].pc = "ack"

(* A 2xx: the group is done, whatever the ACK counts as failed; after the  *)
(* last group of the page the cursor moves to the page's end and is saved. *)
ReceiveAck(p, s) ==
    /\ push[p].pc = "wait"
    /\ s \in push[p].slot
    /\ IsAck(s)
    /\ req' = [req EXCEPT ![s] = IdleReq]
    /\ LET left == push[p].todo \ {req[s].batch.run}
       IN IF left # {}
          THEN /\ Becomes(p, [push[p] EXCEPT !.pc = "post", !.todo = left,
                                           !.att = 0, !.slot = {}])
               /\ UNCHANGED cursor
          ELSE /\ Becomes(p, [IdlePush EXCEPT !.pc = "read", !.cur = push[p].last])
               /\ cursor' = push[p].last
    /\ UNCHANGED <<srcVars, tgtVars, faults>>

(* Mutant of AttemptFailed: a push that gives up saves the end of its page *)
AttemptFailedSkips(p) ==
    IF push[p].att < MaxAttempts
    THEN /\ Becomes(p, [push[p] EXCEPT !.pc = "post", !.slot = {}])
         /\ UNCHANGED cursor
    ELSE /\ Becomes(p, IdlePush)
         /\ cursor' = push[p].last

(* A failed attempt: retried until the attempts are used up, then the push *)
(* saves the cursor it holds and returns "failed".                         *)
AttemptFailed(p) ==
    IF push[p].att < MaxAttempts
    THEN /\ Becomes(p, [push[p] EXCEPT !.pc = "post", !.slot = {}])
         /\ UNCHANGED cursor
    ELSE /\ Becomes(p, IdlePush)
         /\ cursor' = push[p].cur

ReceiveError(p, s) ==
    /\ push[p].pc = "wait"
    /\ s \in push[p].slot
    /\ req[s].pc = "nack"
    /\ req' = [req EXCEPT ![s] = IdleReq]
    /\ AttemptFailed(p)
    /\ UNCHANGED <<srcVars, tgtVars, faults>>

(* Mutant of Timeout: the request is left running. *)
TimeoutNoCancel(p, s) ==
    /\ push[p].pc = "wait"
    /\ s \in push[p].slot
    /\ faults < MaxFaults
    /\ faults' = faults + 1
    /\ AttemptFailed(p)
    /\ UNCHANGED <<srcVars, req, tgtVars>>

(* The 300 s timeout of the HTTP client, or a broken connection.  The      *)
(* target drops a handler whose peer is gone, unless it lingers.           *)
Timeout(p, s) ==
    /\ push[p].pc = "wait"
    /\ s \in push[p].slot
    /\ faults < MaxFaults
    /\ faults' = faults + 1
    /\ req' = IF Linger THEN req ELSE [req EXCEPT ![s] = IdleReq]
    /\ AttemptFailed(p)
    /\ UNCHANGED <<srcVars, tgtVars>>

(* The push ends without saving: its own caller went away, the process     *)
(* died, or a query on the producer's database failed.                     *)
PushDies(p) ==
    /\ push[p].pc # "idle"
    /\ faults < MaxFaults
    /\ faults' = faults + 1
    /\ Becomes(p, IdlePush)
    /\ req' = IF Linger THEN req
              ELSE [s \in Slots |-> IF s \in push[p].slot THEN IdleReq ELSE req[s]]
    /\ UNCHANGED <<srcVars, cursor, tgtVars>>
-----------------------------------------------------------------------------
(* The inbox, post_sync_apply: one action per statement it awaits. *)

Lookup(s) ==
    /\ req[s].pc = "lookup"
    /\ req' = [req EXCEPT ![s].pc =
                 IF req[s].batch \in ledger THEN "ack" ELSE "prov"]
    /\ UNCHANGED <<srcVars, cursor, push, tgtVars, faults>>

(* Mutant of Preamble: the ledger row is written before the apply. *)
PreambleLedgersFirst(s) ==
    /\ req[s].pc = "prov"
    /\ tgtRuns' = tgtRuns \cup ({req[s].batch.run} \ PrunedRuns)
    /\ ledger' = ledger \cup {req[s].batch}
    /\ req' = [req EXCEPT ![s].pc =
                 IF req[s].batch.run \in tgtRuns' THEN "apply" ELSE "nack"]
    /\ UNCHANGED <<srcVars, cursor, push, tgt, faults>>

(* Mutant of Preamble: a run that is already there is an INSERT that fails. *)
PreambleInsertOnly(s) ==
    /\ req[s].pc = "prov"
    /\ tgtRuns' = tgtRuns \cup ({req[s].batch.run} \ PrunedRuns)
    /\ req' = [req EXCEPT ![s].pc =
                 IF req[s].batch.run \in tgtRuns' \ tgtRuns THEN "apply" ELSE "nack"]
    /\ UNCHANGED <<srcVars, cursor, push, tgt, ledger, faults>>

(* The preamble upserts, then the 400 for an adopted run nobody shipped. *)
Preamble(s) ==
    /\ req[s].pc = "prov"
    /\ tgtRuns' = tgtRuns \cup ({req[s].batch.run} \ PrunedRuns)
    /\ req' = [req EXCEPT ![s].pc =
                 IF req[s].batch.run \in tgtRuns' THEN "apply" ELSE "nack"]
    /\ UNCHANGED <<srcVars, cursor, push, tgt, ledger, faults>>

(* ingest_records: validation, then one transaction of COPY and merge.  A  *)
(* row whose payload is already there keeps its run (WHERE ... IS DISTINCT *)
(* FROM).  A batch rejected as a whole is a 422 and changes nothing.       *)
Apply(s) ==
    LET b == req[s].batch IN
    /\ req[s].pc = "apply"
    /\ tgt' = [k \in Keys |->
                 IF k \in Accepted(b) /\ tgt[k].val # b.rows[k]
                 THEN [val |-> b.rows[k], run |-> b.run]
                 ELSE tgt[k]]
    /\ req' = [req EXCEPT ![s].pc = IF Accepted(b) = {} THEN "nack" ELSE "ledger"]
    /\ UNCHANGED <<srcVars, cursor, push, tgtRuns, ledger, faults>>

WriteLedger(s) ==
    /\ req[s].pc = "ledger"
    /\ ledger' = ledger \cup {req[s].batch}
    /\ req' = [req EXCEPT ![s].pc = "ack"]
    /\ UNCHANGED <<srcVars, cursor, push, tgt, tgtRuns, faults>>

(* A statement fails, or the target dies in the middle of the request. *)
RequestFails(s) ==
    /\ req[s].pc \in {"lookup", "prov", "apply", "ledger"}
    /\ faults < MaxFaults
    /\ faults' = faults + 1
    /\ req' = [req EXCEPT ![s].pc = "nack"]
    /\ UNCHANGED <<srcVars, cursor, push, tgtVars>>

(* The answer to a request whose sender has given up goes nowhere. *)
ReplyDropped(s) ==
    /\ req[s].pc \in {"ack", "nack"}
    /\ \A p \in Pushers : s \notin push[p].slot
    /\ req' = [req EXCEPT ![s] = IdleReq]
    /\ UNCHANGED <<srcVars, cursor, push, tgtVars, faults>>
-----------------------------------------------------------------------------
Writes == \E K \in SUBSET Keys : \E new \in [K -> Vals] : \E r \in Runs :
            \E stamp \in 1 .. (clock + Lag) : SourceWrite(new, r, stamp)

PushStep(p) ==
    \/ StartPush(p)
    \/ ReadPage(p)
    \/ Drained(p)
    \/ \E s \in Slots : Send(p, s) \/ ReceiveAck(p, s) \/ ReceiveError(p, s)

InboxStep(s) ==
    Lookup(s) \/ Preamble(s) \/ Apply(s) \/ WriteLedger(s) \/ ReplyDropped(s)

Fault ==
    \/ \E p \in Pushers : PushDies(p) \/ \E s \in Slots : Timeout(p, s)
    \/ \E s \in Slots : RequestFails(s)

Next ==
    \/ Writes
    \/ \E p \in Pushers : PushStep(p)
    \/ \E s \in Slots : InboxStep(s)
    \/ Fault

Spec == Init /\ [][Next]_vars

(* Somebody keeps calling POST /admin/sync/push, a push in progress keeps  *)
(* running, and the target keeps executing the requests it has.            *)
FairSpec == /\ Spec
            /\ \A p \in Pushers : WF_vars(PushStep(p))
            /\ \A s \in Slots : WF_vars(InboxStep(s))
-----------------------------------------------------------------------------
PushStates == [pc : {"idle", "read", "post", "wait"},
               cur : Positions,
               page : [Keys -> Rows],
               last : Positions,
               todo : SUBSET Nat,
               att : Nat,
               slot : SUBSET Slots]
ReqStates == [pc : {"idle", "lookup", "prov", "apply", "ledger", "ack", "nack"},
              batch : Batches]

(* Every variable holds a value of its kind. *)
TypeOK ==
    /\ src \in [Keys -> Rows]
    /\ clock \in Nat
    /\ log \subseteq Versions
    /\ late \subseteq Nat
    /\ cursor \in Positions
    /\ push \in [Pushers -> PushStates]
    /\ req \in [Slots -> ReqStates]
    /\ tgt \in [Keys -> [val : Vals \cup {NoVal}, run : Nat]]
    /\ tgtRuns \subseteq Nat
    /\ ledger \subseteq Batches
    /\ faults \in Nat

AtOrBefore(k, q) == Present(k) /\ ~Before(q, Pos(src[k]))
Ships(b, k) == /\ k \in BatchKeys(b)
               /\ b.run = src[k].run
               /\ b.rows[k] = src[k].val

(* The row's commit landed behind a position a push had read up to, after  *)
(* a commit that was stamped later, by less than Lag.                      *)
Overtaken(k) == /\ src[k].wm \in late
                /\ \E w \in log : src[k].wm < w.wm /\ w.wm < src[k].wm + Lag

(* "The push cursor advances only on a durable ACK": every source row at   *)
(* or before the saved cursor, in its present version, is in a batch the   *)
(* target's ledger has, whatever pushes ran, failed, died or overlapped.   *)
(* The one exception is an overtaken commit: it was stamped before its     *)
(* transaction ended, and a page had been read past it by then.            *)
PastCursorIsLedgered ==
    \A k \in Keys : AtOrBefore(k, cursor) =>
        (\E b \in ledger : Ships(b, k)) \/ Overtaken(k)

(* inbox.rs: never "ledger says applied but data missing".  A batch in the *)
(* ledger has its run on the target, applied at least one record, and left *)
(* a row for every record that passes validation.                          *)
LedgerIsBacked ==
    \A b \in ledger : /\ b.run \in tgtRuns
                      /\ Accepted(b) # {}
                      /\ \A k \in Accepted(b) : tgt[k].val # NoVal

(* Lineage-homogeneous batches: a target row is always one version that    *)
(* the source row really had, payload and run together, and its run is in  *)
(* the target's provenance.runs.                                           *)
TargetRowIsAVersion ==
    \A k \in Keys : tgt[k].val # NoVal =>
        /\ tgt[k].run \in tgtRuns
        /\ \E w \in log : w.key = k /\ w.val = tgt[k].val /\ w.run = tgt[k].run

(* Every variable has its type, and the target's rows their lineage, under *)
(* any overlap of pushes, retries and requests that outlive their senders. *)
LineageInv == TypeOK /\ TargetRowIsAVersion

(* Exactly-once-effective: a row the cursor has passed, and the target     *)
(* accepts, has its present payload on the target.                         *)
TargetCaughtUp ==
    \A k \in Keys :
        AtOrBefore(k, cursor) /\ <<k, src[k].val>> \notin Rejects
            => tgt[k].val = src[k].val

StampsOf(k, r) == {w.wm : w \in {v \in log : v.key = k /\ v.run = r}}
(* A target row is never replaced by an older version of the source row,   *)
(* however late a retried or redelivered batch arrives.                    *)
TargetNeverRegresses ==
    [][\A k \in Keys :
          tgt[k].val # NoVal /\ tgt'[k] # tgt[k] =>
             \A old \in StampsOf(k, tgt[k].run), new \in StampsOf(k, tgt'[k].run) :
                old < new]_tgt

(* The ledger contract of tests/sync_inbox_ledger_tests.rs: a batch with a *)
(* rejected record leaves no ledger row, so that a re-push applies it.     *)
LedgerOnlyComplete == \A b \in ledger : Rejected(b) = {}

(* Once writers and failures stop, the target holds every payload of the   *)
(* source that it accepts, for good.                                       *)
Converges ==
    <>[](\A k \in Keys : Present(k) /\ <<k, src[k].val>> \notin Rejects
                            => tgt[k].val = src[k].val)

(* The rows the saved cursor has passed. *)
Passed == {k \in Keys : AtOrBefore(k, cursor)}

(* The whole of what one push at a time amounts to (see ReplicatedTable):  *)
(* versions arrive in the order of the source, and the rows behind the     *)
(* cursor have arrived in their newest version and are left alone.         *)
Table == INSTANCE ReplicatedTable
           WITH Refused <- Rejects, history <- log, replica <- tgt, delivered <- Passed
Replicates == Table!Spec
=============================================================================
