--------------------------- MODULE IngestRequests ---------------------------
(***************************************************************************)
(* The requests that write rows: POST /ingest/{schema}/{table} as typed    *)
(* records, a file, a stream or a webhook, from the gate to the answer,    *)
(* with the provenance run each of them keeps and the connections of the   *)
(* one shared Postgres pool it checks out, one inside another.  All write  *)
(* to one table; what the rows hold is abstracted to how many of a batch   *)
(* pass validation and how many of those the merge changes.                *)
(***************************************************************************)
EXTENDS Integers, FiniteSets

CONSTANTS
    Reqs,        \* concurrent requests
    PoolSize,    \* pg_pool_max
    Backends,    \* the backends the table may live on
    MaxChunks,   \* bound: chunks of STREAM_FLUSH records in a stream
    MaxBatch     \* bound: records of a chunk that pass, or fail, validation

ASSUME IngestConstants ==
    /\ IsFiniteSet(Reqs)
    /\ PoolSize \in Nat \ {0}
    /\ Backends \subseteq {"postgres", "clickhouse"}
    /\ MaxChunks \in Nat
    /\ MaxBatch \in Nat

VARIABLES
    backend,  \* the table's backend
    req,      \* each request's progress and local variables
    out,      \* connections checked out: pairs of a request and a purpose
    run,      \* status of the request's row of provenance.runs
    rows,     \* rows committed under that run
    counted,  \* rows_inserted + rows_updated of that row
    stale     \* commits of the request not followed by an invalidation

vars == <<backend, req, out, run, rows, counted, stale>>
ledgerVars == <<run, rows, counted>>

Kinds == {"typed", "file", "stream", "webhook"}
Purposes == {"client", "inner"}
Slots(r) == {r} \X Purposes
Stream(r) == req[r].kind = "stream"

Init ==
    /\ backend \in Backends
    /\ req \in [Reqs -> [kind : Kinds, pc : {"gate"}, left : {0}, good : {0}, bad : {0},
                         ok : {TRUE}, tally : {0}, lake : {0}, answer : {"none"}]]
    /\ out = {}
    /\ run = [r \in Reqs |-> "none"]
    /\ rows = [r \in Reqs |-> 0]
    /\ counted = [r \in Reqs |-> 0]
    /\ stale = [r \in Reqs |-> FALSE]
-----------------------------------------------------------------------------
(* Pool::get answers when a connection is free; dropping one returns it.   *)
Get(r, purpose) ==
    /\ Cardinality(out) < PoolSize
    /\ out' = out \cup {<<r, purpose>>}

Put(r, purpose) == out' = out \ {<<r, purpose>>}

At(r, pc) == req[r].pc = pc
Goto(r, pc) == req' = [req EXCEPT ![r].pc = pc]

(* The request answers; whatever it still holds is dropped with it. *)
Answer(r, a) ==
    /\ req' = [req EXCEPT ![r].pc = "done", ![r].answer = a]
    /\ out' = out \ Slots(r)

(* ingest_records returns an error: to the client, or to the stream's loop,  *)
(* which leaves it and goes on to close the run.                             *)
Fails(r) ==
    IF Stream(r)
    THEN /\ req' = [req EXCEPT ![r].pc = "closeGet", ![r].ok = FALSE]
         /\ out' = out \ Slots(r)
    ELSE Answer(r, "error")
-----------------------------------------------------------------------------
(* A body that is missing is refused first. *)
EmptyBody(r) ==
    /\ At(r, "gate") /\ req[r].kind \in {"typed", "webhook"} /\ req[r].left = 0
    /\ Answer(r, "error")
    /\ UNCHANGED <<backend, ledgerVars, stale>>

(* The gate: backend, existence and allowlist.  Each lookup takes a          *)
(* connection and returns it, unless a cache answers; Postgres introspection *)
(* takes one even then.                                                      *)
GateCached(r) ==
    /\ At(r, "gate")
    /\ backend = "clickhouse" /\ req[r].kind # "webhook"
    /\ \/ Goto(r, "gated") /\ UNCHANGED out
       \/ Answer(r, "error")
    /\ UNCHANGED <<backend, ledgerVars, stale>>

GateGet(r) ==
    /\ At(r, "gate")
    /\ Get(r, "inner")
    /\ Goto(r, "gateDb")
    /\ UNCHANGED <<backend, ledgerVars, stale>>

(* gate_target: an unknown table turns typed records into a proposal and   *)
(* the others away; a known one needs a grant.                             *)
GateTarget(r) ==
    /\ At(r, "gateDb") /\ req[r].kind # "webhook"
    /\ \/ Goto(r, "gated") /\ Put(r, "inner")
       \/ Answer(r, "error")
       \/ req[r].kind = "typed" /\ Answer(r, "proposed")
    /\ UNCHANGED <<backend, ledgerVars, stale>>

(* A webhook is known by its row and its signature instead; once its body    *)
(* is parsed it passes the allowlist as "local", which a cache may answer.   *)
AuthenticateWebhook(r) ==
    /\ At(r, "gateDb") /\ req[r].kind = "webhook" /\ req[r].left = 0
    /\ \/ Goto(r, "gated") /\ Put(r, "inner")
       \/ Answer(r, "error")
    /\ UNCHANGED <<backend, ledgerVars, stale>>

CheckCanWrite(r) ==
    /\ req[r].pc \in {"gate", "gateDb"} /\ req[r].kind = "webhook" /\ req[r].left = 1
    /\ \/ Goto(r, "enter") /\ Put(r, "inner")
       \/ Answer(r, "error")
    /\ UNCHANGED <<backend, ledgerVars, stale>>

(* The body.  Typed records and a webhook's must be there; a file may parse  *)
(* to none and is then answered at once; a stream is cut into chunks, none   *)
(* if it is empty.                                                           *)
ParseTyped(r) ==
    /\ At(r, "gated") /\ req[r].kind = "typed"
    /\ req' = [req EXCEPT ![r].pc = "enter", ![r].left = 1]
    /\ UNCHANGED <<backend, out, ledgerVars, stale>>

ParseFile(r) ==
    /\ At(r, "gated") /\ req[r].kind = "file"
    /\ \/ Answer(r, "error")
       \/ Answer(r, "ok")
       \/ req' = [req EXCEPT ![r].pc = "enter", ![r].left = 1] /\ UNCHANGED out
    /\ UNCHANGED <<backend, ledgerVars, stale>>

ParseWebhook(r) ==
    /\ At(r, "gated") /\ req[r].kind = "webhook"
    /\ \/ Answer(r, "error")
       \/ req' = [req EXCEPT ![r].pc = "gate", ![r].left = 1] /\ UNCHANGED out
    /\ UNCHANGED <<backend, ledgerVars, stale>>

ParseStream(r) ==
    /\ At(r, "gated") /\ Stream(r)
    /\ \/ Answer(r, "error")
       \/ /\ \E n \in 0 .. MaxChunks : req' = [req EXCEPT ![r].pc = "openGet", ![r].left = n]
          /\ UNCHANGED out
    /\ UNCHANGED <<backend, ledgerVars, stale>>
-----------------------------------------------------------------------------
(* ingest_records *)
Enter(r) ==
    /\ At(r, "enter")
    /\ \/ Get(r, "client") /\ Goto(r, "lookup")
       \/ Fails(r)   \* the declared source_endpoint is not well-formed
    /\ UNCHANGED <<backend, ledgerVars, stale>>

(* Registry::get and table_meta, the client of Enter still in hand. *)
LookupCached(r) ==
    /\ At(r, "lookup")
    /\ backend = "clickhouse"
    /\ \/ Goto(r, "known") /\ UNCHANGED out
       \/ Fails(r)
    /\ UNCHANGED <<backend, ledgerVars, stale>>

LookupGet(r) ==
    /\ At(r, "lookup")
    /\ Get(r, "inner")
    /\ Goto(r, "lookupDb")
    /\ UNCHANGED <<backend, ledgerVars, stale>>

Looked(r) ==
    /\ At(r, "lookupDb")
    /\ \/ Goto(r, "known") /\ Put(r, "inner")
       \/ Fails(r)   \* a failed query, or no such table
    /\ UNCHANGED <<backend, ledgerVars, stale>>

(* The end of one ingest_records call that succeeded. *)
ChunkDone(r, bad, changed) ==
    LET left == req[r].left - 1
        pc == IF ~Stream(r) THEN "tail" ELSE IF left = 0 THEN "closeGet" ELSE "enter"
    IN /\ req' = [req EXCEPT ![r].pc = pc, ![r].left = left, ![r].good = 0,
                             ![r].bad = bad, ![r].tally = @ + changed]
       /\ out' = out \ Slots(r)

(* validate_batch: a batch rejected as a whole ends here, before any run. *)
Validate(r) ==
    /\ At(r, "known")
    /\ \E good, bad \in 0 .. MaxBatch :
          /\ good + bad > 0
          /\ IF good = 0
             THEN ChunkDone(r, req[r].bad + bad, 0)
             ELSE /\ req' = [req EXCEPT ![r].pc = IF Stream(r) THEN "write" ELSE "open",
                                        ![r].good = good, ![r].bad = @ + bad]
                  /\ UNCHANGED out
    /\ UNCHANGED <<backend, ledgerVars, stale>>

(* The stream opens its run with a client of its own, before its chunks. *)
StreamGet(r) ==
    /\ At(r, "openGet")
    /\ Get(r, "client")
    /\ Goto(r, "open")
    /\ UNCHANGED <<backend, ledgerVars, stale>>

OpenRun(r) ==
    /\ At(r, "open")
    /\ \/ /\ run' = [run EXCEPT ![r] = "running"]
          /\ Goto(r, "stamp")
          /\ UNCHANGED out
       \/ Answer(r, "error") /\ UNCHANGED run
    /\ UNCHANGED <<backend, rows, counted, stale>>

SetSubmittedBy(r) ==
    /\ At(r, "stamp")
    /\ \/ /\ Stream(r)
          /\ Goto(r, IF req[r].left = 0 THEN "closeGet" ELSE "enter")
          /\ Put(r, "client")
       \/ /\ ~Stream(r)
          /\ Goto(r, "write")
          /\ UNCHANGED out
       \/ Answer(r, "error")
    /\ UNCHANGED <<backend, ledgerVars, stale>>
-----------------------------------------------------------------------------
(* Mutant of WriteFailed: the transaction's connection is not returned. *)
WriteFailedKeepsInner(r) ==
    IF Stream(r)
    THEN Fails(r)
    ELSE /\ req' = [req EXCEPT ![r].pc = "close", ![r].ok = FALSE]
         /\ UNCHANGED out

(* A failed write closes the run it owns; a stream leaves that to its end. *)
WriteFailed(r) ==
    IF Stream(r)
    THEN Fails(r)
    ELSE /\ req' = [req EXCEPT ![r].pc = "close", ![r].ok = FALSE]
         /\ Put(r, "inner")

Commits(r, n) ==
    /\ rows' = [rows EXCEPT ![r] = @ + n]
    /\ stale' = [stale EXCEPT ![r] = @ \/ n > 0]

(* The write is known to have changed n rows. *)
Wrote(r, n) ==
    IF Stream(r)
    THEN ChunkDone(r, req[r].bad, n)
    ELSE /\ req' = [req EXCEPT ![r].pc = "close", ![r].tally = n]
         /\ Put(r, "inner")

(* Postgres refuses a batch without usable columns and a table without a   *)
(* key, then takes a connection for its transaction.                       *)
BeginPostgres(r) ==
    /\ At(r, "write") /\ backend = "postgres"
    /\ \/ Get(r, "inner") /\ Goto(r, "writing")
       \/ WriteFailed(r)
    /\ UNCHANGED <<backend, ledgerVars, stale>>

(* The merge skips the rows that are as they were.  The transaction commits  *)
(* and says so, commits and the answer is lost, or is rolled back.           *)
WritePostgres(r) ==
    /\ At(r, "writing")
    /\ \/ \E n \in 0 .. req[r].good : Commits(r, n) /\ (Wrote(r, n) \/ WriteFailed(r))
       \/ WriteFailed(r) /\ UNCHANGED <<rows, stale>>
    /\ UNCHANGED <<backend, run, counted>>

(* ClickHouse is spoken to over HTTP and counts every row it was given. *)
WriteClickHouse(r) ==
    /\ At(r, "write") /\ backend = "clickhouse"
    /\ \/ Commits(r, req[r].good) /\ (Wrote(r, req[r].good) \/ WriteFailed(r))
       \/ WriteFailed(r) /\ UNCHANGED <<rows, stale>>
    /\ UNCHANGED <<backend, run, counted>>

(* Mutant of FinalStatus: rejected records hide the failure of a chunk. *)
FinalStatusPartialFirst(r) ==
    IF req[r].bad > 0 THEN "partial" ELSE IF ~req[r].ok THEN "failed" ELSE "ok"

(* The status a run is closed with. *)
FinalStatus(r) ==
    IF ~req[r].ok THEN "failed" ELSE IF req[r].bad > 0 THEN "partial" ELSE "ok"

(* all_failed: every record of a typed or file ingest was rejected, which  *)
(* leaves no run behind.                                                   *)
AllFailed(r) == run[r] = "none" /\ req[r].kind \in {"typed", "file"}

(* submit_after_ingest: the detached handoff, fired when something was     *)
(* written.                                                                *)
SubmitAfterIngest(r) == IF req[r].tally > 0 THEN 1 ELSE 0

CloseRun(r) ==
    /\ run' = [run EXCEPT ![r] = FinalStatus(r)]
    /\ counted' = [counted EXCEPT ![r] = req[r].tally]

(* An ingest that owns its run closes it and then fires the lumilake         *)
(* handoff.  A close that fails is logged and the answer is the same; an     *)
(* error text cut at byte 4000 inside a character panics instead.            *)
Close(r) ==
    /\ At(r, "close")
    /\ \/ CloseRun(r)
       \/ UNCHANGED <<run, counted>>
    /\ IF req[r].ok
       THEN LET fires == IF req[r].kind = "webhook" THEN 0 ELSE SubmitAfterIngest(r)
            IN /\ req' = [req EXCEPT ![r].pc = "tail", ![r].lake = @ + fires]
               /\ Put(r, "client")
       ELSE Answer(r, "error")
    /\ UNCHANGED <<backend, rows, stale>>

(* The stream checks a client out to close its run. *)
StreamCloseGet(r) ==
    /\ At(r, "closeGet")
    /\ Get(r, "client")
    /\ Goto(r, "closing")
    /\ UNCHANGED <<backend, ledgerVars, stale>>

StreamClose(r) ==
    /\ At(r, "closing")
    /\ \/ CloseRun(r)
       \/ UNCHANGED <<run, counted>>
    /\ Goto(r, "tail")
    /\ Put(r, "client")
    /\ UNCHANGED <<backend, rows, stale>>

(* Mutant of Finish: a partial ingest drops no cached read. *)
FinishInvalidatesOk(r) ==
    /\ At(r, "tail")
    /\ stale' = [stale EXCEPT ![r] = @ /\ FinalStatus(r) # "ok"]
    /\ req' = [req EXCEPT ![r].pc = "done", ![r].answer = IF req[r].ok THEN "ok" ELSE "error"]
    /\ UNCHANGED <<backend, out, ledgerVars>>

(* Mutant of Finish: every handler fires the handoff that follows a stream. *)
FinishAlwaysFires(r) ==
    /\ At(r, "tail")
    /\ stale' = [stale EXCEPT ![r] = @ /\ req[r].tally = 0]
    /\ req' = [req EXCEPT ![r].pc = "done", ![r].answer = IF req[r].ok THEN "ok" ELSE "error",
                          ![r].lake = @ + SubmitAfterIngest(r)]
    /\ UNCHANGED <<backend, out, ledgerVars>>

(* The cached reads of the table are dropped when anything was written,    *)
(* then the answer; the stream's handoff comes last, and not after a       *)
(* failure.                                                                *)
Finish(r) ==
    /\ At(r, "tail")
    /\ stale' = [stale EXCEPT ![r] = @ /\ req[r].tally = 0]
    /\ LET fires == IF Stream(r) /\ req[r].ok THEN SubmitAfterIngest(r) ELSE 0
       IN req' = [req EXCEPT ![r].pc = "done",
                             ![r].answer = IF req[r].ok /\ ~AllFailed(r) THEN "ok" ELSE "error",
                             ![r].lake = @ + fires]
    /\ UNCHANGED <<backend, out, ledgerVars>>
-----------------------------------------------------------------------------
(* Mutant of PoolTimeout: a checkout waits for as long as it takes. *)
PoolNeverTimesOut(r) == FALSE /\ Answer(r, "error") /\ UNCHANGED <<backend, ledgerVars, stale>>

(* Pool::get gives up after the pool's wait timeout: outside ingest_records  *)
(* the request is refused, inside it the call fails.                         *)
PoolTimeout(r) ==
    /\ Cardinality(out) >= PoolSize
    /\ \/ req[r].pc \in {"gate", "openGet", "closeGet"} /\ Answer(r, "error")
       \/ req[r].pc \in {"enter", "lookup"} /\ Fails(r)
       \/ At(r, "write") /\ backend = "postgres" /\ WriteFailed(r)
    /\ UNCHANGED <<backend, ledgerVars, stale>>

(* The client goes away and the handler is dropped where it waits; the     *)
(* statement it waits for may still take effect.                           *)
Cancel(r) ==
    /\ ~At(r, "done")
    /\ Answer(r, "gone")
    /\ \/ UNCHANGED <<ledgerVars, stale>>
       \/ /\ At(r, "open")
          /\ run' = [run EXCEPT ![r] = "running"]
          /\ UNCHANGED <<rows, counted, stale>>
       \/ /\ At(r, "writing") \/ (At(r, "write") /\ backend = "clickhouse")
          /\ \E n \in 0 .. req[r].good : Commits(r, n)
          /\ UNCHANGED <<run, counted>>
       \/ /\ req[r].pc \in {"close", "closing"}
          /\ CloseRun(r)
          /\ UNCHANGED <<rows, stale>>
    /\ UNCHANGED backend

Step(r) ==
    \/ EmptyBody(r) \/ GateCached(r) \/ GateGet(r) \/ GateTarget(r)
    \/ AuthenticateWebhook(r) \/ CheckCanWrite(r)
    \/ ParseTyped(r) \/ ParseFile(r) \/ ParseWebhook(r) \/ ParseStream(r)
    \/ Enter(r) \/ LookupCached(r) \/ LookupGet(r) \/ Looked(r) \/ Validate(r)
    \/ StreamGet(r) \/ OpenRun(r) \/ SetSubmittedBy(r)
    \/ BeginPostgres(r) \/ WritePostgres(r) \/ WriteClickHouse(r) \/ Close(r)
    \/ StreamCloseGet(r) \/ StreamClose(r) \/ Finish(r)
    \/ PoolTimeout(r)

Done == (\A r \in Reqs : At(r, "done")) /\ UNCHANGED vars

Next == (\E r \in Reqs : Step(r) \/ Cancel(r)) \/ Done

Spec == Init /\ [][Next]_vars

(* The runtime polls every handler whose await is ready; the pool's wait   *)
(* timeout makes a checkout ready in the end.                              *)
FairSpec == Spec /\ \A r \in Reqs : WF_vars(Step(r))
-----------------------------------------------------------------------------
Places == {"gate", "gateDb", "gated", "openGet", "open", "stamp", "enter", "lookup", "lookupDb",
           "known", "write", "writing", "close", "closeGet", "closing", "tail", "done"}
Answers == {"none", "ok", "error", "proposed", "gone"}
Locals == [kind : Kinds, pc : Places, left : Nat, good : Nat, bad : Nat, ok : BOOLEAN,
           tally : Nat, lake : Nat, answer : Answers]

(* Every variable holds a value of its kind, and no more connections are   *)
(* checked out than the pool has.                                          *)
TypeOK ==
    /\ backend \in Backends
    /\ req \in [Reqs -> Locals]
    /\ out \in SUBSET (Reqs \X Purposes) /\ Cardinality(out) <= PoolSize
    /\ run \in [Reqs -> {"none", "running", "ok", "partial", "failed"}]
    /\ rows \in [Reqs -> Nat]
    /\ counted \in [Reqs -> Nat]
    /\ stale \in [Reqs -> BOOLEAN]

(* A request holds a connection exactly where its code has one in scope:   *)
(* none while it waits for its first, at most two at once, and none after  *)
(* its answer, however it ended.                                           *)
ConnectionsAccounted ==
    \A r \in Reqs :
        /\ <<r, "inner">> \in out <=> req[r].pc \in {"gateDb", "lookupDb", "writing"}
        /\ <<r, "client">> \in out <=>
               req[r].pc \in {"lookup", "lookupDb", "known", "open", "stamp", "write", "writing",
                              "close", "closing"}

(* "the just-ingressed rows are immediately queryable": a request that is  *)
(* answered with success has dropped the cached reads its commits made     *)
(* stale, all of them, whatever its chunks and its rejects were.           *)
ReadYourWrites == \A r \in Reqs : req[r].answer = "ok" => ~stale[r]

(* The rows of one request are handed to lumilake at most once, and never  *)
(* when nothing was written.                                               *)
HandoffOnce ==
    \A r \in Reqs : req[r].lake <= 1 /\ (req[r].lake = 1 => rows[r] > 0)

(* What the runs table promises (see RunLedger), kept by every way through *)
(* the handlers, whatever fails, is lost or is cancelled.                  *)
Ledger == INSTANCE RunLedger WITH Runs <- Reqs
RunsAreTruthful == Ledger!Spec

(* Requests that check out one connection while holding another cannot     *)
(* wait on each other for ever: each of them ends.                         *)
EveryRequestEnds == \A r \in Reqs : <>(req[r].pc = "done")

(* The pool's books: never more connections out than there are, and each   *)
(* held by a request that has it in scope.                                 *)
ConnectionInv == TypeOK /\ ConnectionsAccounted
=============================================================================
