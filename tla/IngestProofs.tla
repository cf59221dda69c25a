---------------------------- MODULE IngestProofs ----------------------------
(***************************************************************************)
(* Safety of the ingest requests, for any number of them, any pool, any    *)
(* stream and any batch: the pool's books, what a run says of its rows,    *)
(* what an answer promises and how often rows are handed off.  Every       *)
(* request keeps its own books; nothing couples two requests but the pool. *)
(***************************************************************************)
EXTENDS IngestRequests, FiniteSetTheorems, TLAPS

Flags == BOOLEAN
Marked == [kind : Kinds, pc : Places, left : Nat, good : Nat, bad : Nat, ok : Flags,
           tally : Nat, lake : Nat, answer : Answers]
LEMMA MarkedIsLocals == Marked = Locals
  BY DEF Marked, Locals, Flags

(* Where a request stands tells what its run is: a stream opens it before  *)
(* its chunks, everybody else after validation.                            *)
Before(q) == IF q.kind = "stream"
             THEN {"gate", "gateDb", "gated", "openGet", "open"}
             ELSE {"gate", "gateDb", "gated", "enter", "lookup", "lookupDb", "known", "open"}
During(q) == IF q.kind = "stream"
             THEN {"stamp", "enter", "lookup", "lookupDb", "known", "write", "writing",
                   "closeGet", "closing"}
             ELSE {"stamp", "write", "writing", "close"}

(* The steps of one ingest_records call, which uses up a chunk. *)
InChunk(q) == IF q.kind = "stream"
              THEN {"enter", "lookup", "lookupDb", "known", "write", "writing"}
              ELSE {"enter", "lookup", "lookupDb", "known", "open", "stamp", "write", "writing"}

(* The books of one request: its record q, the status st of its run, the n *)
(* rows committed under it, and whether cached reads are stale.            *)
Books(q, st, n, s) ==
    /\ q.pc \in Before(q) => st = "none" /\ n = 0
    /\ q.pc \in During(q) => st = "running"
    /\ q.pc \in Before(q) \cup During(q) \cup {"tail", "done"}
    /\ q.pc \in InChunk(q) => q.left > 0
    /\ q.kind # "stream" /\ q.pc \in {"stamp", "write", "writing"} => n = 0 /\ q.tally = 0
    /\ q.pc # "done" => /\ q.tally <= n
                        /\ q.ok => q.tally = n
                        /\ q.answer # "ok"
    /\ q.pc \notin {"tail", "done"} \/ (q.kind = "stream" /\ q.pc = "tail") => q.lake = 0
    /\ q.lake <= 1 /\ (q.lake = 1 => n > 0)
    /\ s => n > 0
    /\ q.answer = "ok" => ~s

(* The connections of one request. *)
Holds(q, inner, client) ==
    /\ inner <=> q.pc \in {"gateDb", "lookupDb", "writing"}
    /\ client <=> q.pc \in {"lookup", "lookupDb", "known", "open", "stamp", "write", "writing",
                            "close", "closing"}

BooksOf(r) == Books(req[r], run[r], rows[r], stale[r])
HoldsOf(r) == Holds(req[r], <<r, "inner">> \in out, <<r, "client">> \in out)

IInv == TypeOK /\ \A r \in Reqs : BooksOf(r) /\ HoldsOf(r)
-----------------------------------------------------------------------------
(* The pool *)

(* What is checked out is a finite set, and no set of fewer connections     *)
(* exceeds the pool.                                                       *)
LEMMA OutFinite ==
    ASSUME TypeOK
    PROVE  /\ IsFiniteSet(out)
           /\ \A S \in SUBSET out : S \in SUBSET (Reqs \X Purposes) /\ Cardinality(S) <= PoolSize
  <1>1. IsFiniteSet(Purposes)
    <2>1. IsFiniteSet({"client"}) /\ Purposes = {"client"} \cup {"inner"}
      BY FS_Singleton DEF Purposes
    <2>. QED BY <2>1, FS_AddElement
  <1>2. IsFiniteSet(Reqs \X Purposes)
    BY <1>1, FS_Product, IngestConstants
  <1>3. IsFiniteSet(out) /\ out \in SUBSET (Reqs \X Purposes)
    BY <1>2, FS_Subset DEF TypeOK
  <1>4. ASSUME NEW S \in SUBSET out PROVE Cardinality(S) <= PoolSize
    <2>1. Cardinality(S) <= Cardinality(out) /\ Cardinality(S) \in Nat /\ Cardinality(out) \in Nat
      BY <1>3, FS_Subset, FS_CardinalityType
    <2>. QED BY <2>1, IngestConstants DEF TypeOK
  <1>. QED BY <1>3, <1>4

OutType == out \in SUBSET (Reqs \X Purposes) /\ Cardinality(out) <= PoolSize

(* The other requests hold what they held. *)
OutFrame(r) == \A x \in Reqs \ {r}, p \in Purposes : <<x, p>> \in out' <=> <<x, p>> \in out

(* A checkout fits into the pool. *)
LEMMA GetSays ==
    ASSUME TypeOK, NEW r \in Reqs, NEW p \in Purposes, Get(r, p)
    PROVE  /\ OutType' /\ OutFrame(r)
           /\ <<r, p>> \in out'
           /\ \A w \in Purposes \ {p} : <<r, w>> \in out' <=> <<r, w>> \in out
  <1>1. IsFiniteSet(out) /\ Cardinality(out) \in Nat
    BY OutFinite, FS_CardinalityType
  <1>2. Cardinality(out \cup {<<r, p>>}) <= Cardinality(out) + 1
    <2>1. Cardinality(out \cup {<<r, p>>}) =
             IF <<r, p>> \in out THEN Cardinality(out) ELSE Cardinality(out) + 1
      BY <1>1, FS_AddElement
    <2>. QED BY <1>1, <2>1
  <1>3. IsFiniteSet(out \cup {<<r, p>>}) /\ Cardinality(out \cup {<<r, p>>}) \in Nat
    BY <1>1, FS_AddElement, FS_CardinalityType
  <1>4. out \cup {<<r, p>>} \in SUBSET (Reqs \X Purposes)
    BY DEF TypeOK
  <1>5. Cardinality(out \cup {<<r, p>>}) <= PoolSize
    BY <1>1, <1>2, <1>3, IngestConstants DEF Get
  <1>6. out' = out \cup {<<r, p>>}
    BY DEF Get
  <1>. QED BY <1>4, <1>5, <1>6 DEF OutType, OutFrame

(* A return. *)
LEMMA PutSays ==
    ASSUME TypeOK, NEW r \in Reqs, NEW p \in Purposes, Put(r, p)
    PROVE  /\ OutType' /\ OutFrame(r)
           /\ <<r, p>> \notin out'
           /\ \A w \in Purposes \ {p} : <<r, w>> \in out' <=> <<r, w>> \in out
  <1>1. out' = out \ {<<r, p>>}
    BY DEF Put
  <1>2. out' \in SUBSET out
    BY <1>1
  <1>3. OutType'
    BY <1>2, OutFinite DEF OutType
  <1>. QED BY <1>1, <1>3 DEF OutFrame

(* The end of a scope that holds both. *)
LEMMA PutAllSays ==
    ASSUME TypeOK, NEW r \in Reqs, out' = out \ Slots(r)
    PROVE  OutType' /\ OutFrame(r) /\ \A p \in Purposes : <<r, p>> \notin out'
  <1>1. out' \in SUBSET out
    OBVIOUS
  <1>2. OutType'
    BY <1>1, OutFinite DEF OutType
  <1>. QED BY <1>2 DEF OutFrame, Slots
-----------------------------------------------------------------------------
(* One request's record *)

(* The other requests stand where they stood. *)
ReqFrame(r) == req' \in [Reqs -> Marked] /\ \A x \in Reqs \ {r} : req'[x] = req[x]

(* Nothing but its place. *)
LEMMA GotoSays ==
    ASSUME TypeOK, NEW r \in Reqs, NEW pc \in Places, Goto(r, pc)
    PROVE  /\ ReqFrame(r)
           /\ req'[r].pc = pc /\ req'[r].kind = req[r].kind /\ req'[r].left = req[r].left
           /\ req'[r].good = req[r].good /\ req'[r].bad = req[r].bad /\ req'[r].ok = req[r].ok
           /\ req'[r].tally = req[r].tally /\ req'[r].lake = req[r].lake
           /\ req'[r].answer = req[r].answer
  <1>1. req \in [Reqs -> Marked]
    BY MarkedIsLocals DEF TypeOK
  <1>2. req' = [req EXCEPT ![r].pc = pc]
    BY DEF Goto
  <1>. QED BY <1>1, <1>2 DEF ReqFrame, Marked

(* Its place and its answer, and it holds nothing any more. *)
LEMMA AnswerSays ==
    ASSUME TypeOK, NEW r \in Reqs, NEW a \in Answers, Answer(r, a)
    PROVE  /\ ReqFrame(r)
           /\ req'[r].pc = "done" /\ req'[r].answer = a /\ req'[r].kind = req[r].kind
           /\ req'[r].left = req[r].left /\ req'[r].ok = req[r].ok
           /\ req'[r].tally = req[r].tally /\ req'[r].lake = req[r].lake
           /\ OutType' /\ OutFrame(r) /\ \A p \in Purposes : <<r, p>> \notin out'
  <1>1. req \in [Reqs -> Marked] /\ "done" \in Places
    BY MarkedIsLocals DEF TypeOK, Places
  <1>2. req' = [req EXCEPT ![r].pc = "done", ![r].answer = a] /\ out' = out \ Slots(r)
    BY DEF Answer
  <1>. QED BY <1>1, <1>2, PutAllSays DEF ReqFrame, Marked

(* A failed ingest_records: an answer, or the end of the stream's loop. *)
LEMMA FailsSays ==
    ASSUME TypeOK, NEW r \in Reqs, Fails(r)
    PROVE  /\ ReqFrame(r)
           /\ IF req[r].kind = "stream"
              THEN req'[r].pc = "closeGet" /\ ~req'[r].ok /\ req'[r].answer = req[r].answer
              ELSE req'[r].pc = "done" /\ req'[r].answer = "error"
           /\ req'[r].kind = req[r].kind /\ req'[r].tally = req[r].tally
           /\ req'[r].lake = req[r].lake
           /\ OutType' /\ OutFrame(r) /\ \A p \in Purposes : <<r, p>> \notin out'
  <1>1. req \in [Reqs -> Marked] /\ "closeGet" \in Places /\ FALSE \in Flags
        /\ "error" \in Answers
    BY MarkedIsLocals DEF TypeOK, Places, Flags, Answers
  <1>2. CASE req[r].kind = "stream"
    <2>1. /\ req' = [req EXCEPT ![r].pc = "closeGet", ![r].ok = FALSE]
          /\ out' = out \ Slots(r)
      BY <1>2 DEF Fails, Stream
    <2>. QED BY <1>1, <1>2, <2>1, PutAllSays DEF ReqFrame, Marked
  <1>3. CASE req[r].kind # "stream"
    BY <1>1, <1>3, AnswerSays DEF Fails, Stream
  <1>. QED BY <1>2, <1>3
-----------------------------------------------------------------------------
(* One request's books *)

Statuses == {"none", "running", "ok", "partial", "failed"}

(* The ledgers of the other requests stay as they are. *)
LedgerFrame(r) ==
    /\ backend' = backend
    /\ run' \in [Reqs -> Statuses] /\ rows' \in [Reqs -> Nat]
    /\ counted' \in [Reqs -> Nat] /\ stale' \in [Reqs -> Flags]
    /\ \A x \in Reqs \ {r} : run'[x] = run[x] /\ rows'[x] = rows[x] /\ stale'[x] = stale[x]

(* Nothing was written. *)
LEMMA NothingWritten ==
    ASSUME TypeOK, NEW r \in Reqs, UNCHANGED <<backend, ledgerVars, stale>>
    PROVE  LedgerFrame(r) /\ run' = run /\ rows' = rows /\ stale' = stale
  BY DEF TypeOK, LedgerFrame, ledgerVars, Statuses, Flags

(* A step of one request that keeps its own books and holds keeps them all. *)
LEMMA Alone ==
    ASSUME IInv, NEW r \in Reqs, ReqFrame(r), OutType', OutFrame(r), LedgerFrame(r),
           Books(req'[r], run'[r], rows'[r], stale'[r]),
           Holds(req'[r], <<r, "inner">> \in out', <<r, "client">> \in out')
    PROVE  IInv'
  <1>1. TypeOK'
    BY MarkedIsLocals DEF IInv, TypeOK, ReqFrame, LedgerFrame, OutType, Statuses, Flags
  <1>2. ASSUME NEW x \in Reqs PROVE BooksOf(x)' /\ HoldsOf(x)'
    <2>1. CASE x = r
      BY <2>1 DEF BooksOf, HoldsOf
    <2>2. CASE x # r
      <3>1. BooksOf(x) /\ HoldsOf(x)
        BY DEF IInv
      <3>2. req'[x] = req[x] /\ run'[x] = run[x] /\ rows'[x] = rows[x] /\ stale'[x] = stale[x]
        BY <2>2 DEF ReqFrame, LedgerFrame
      <3>3. (<<x, "inner">> \in out' <=> <<x, "inner">> \in out)
            /\ (<<x, "client">> \in out' <=> <<x, "client">> \in out)
        BY <2>2 DEF OutFrame, Purposes
      <3>4. BooksOf(x)'
        BY <3>1, <3>2 DEF BooksOf
      <3>5. HoldsOf(x)'
        BY <3>1, <3>2, <3>3 DEF HoldsOf, Holds
      <3>. QED BY <3>4, <3>5
    <2>. QED BY <2>1, <2>2
  <1>. QED BY <1>1, <1>2 DEF IInv

(* A request that moves on inside the same phase of its run, nothing        *)
(* written, keeps its books.                                               *)
LEMMA MoveKeeps ==
    ASSUME IInv, NEW r \in Reqs, NEW pc, ReqFrame(r), req'[r].pc = pc,
           req'[r].kind = req[r].kind, req'[r].ok = req[r].ok, req'[r].tally = req[r].tally,
           req'[r].lake = req[r].lake, req'[r].answer = req[r].answer,
           UNCHANGED <<backend, ledgerVars, stale>>, OutType', OutFrame(r),
           \/ req[r].pc \in Before(req[r]) /\ pc \in Before(req[r])
           \/ req[r].pc \in During(req[r]) /\ pc \in During(req[r]),
           pc \in InChunk(req[r]) => req'[r].left > 0,
           <<r, "inner">> \in out' <=> pc \in {"gateDb", "lookupDb", "writing"},
           <<r, "client">> \in out' <=>
               pc \in {"lookup", "lookupDb", "known", "open", "stamp", "write", "writing",
                      "close", "closing"},
           req[r].kind # "stream" /\ pc \in {"stamp", "write", "writing"}
               => req[r].pc \in {"stamp", "write", "writing"}
    PROVE  IInv'
  <1>2. LedgerFrame(r) /\ run' = run /\ rows' = rows /\ stale' = stale
    BY NothingWritten DEF IInv
  <1>3. Before(req'[r]) = Before(req[r]) /\ During(req'[r]) = During(req[r])
        /\ InChunk(req'[r]) = InChunk(req[r])
    BY DEF Before, During, InChunk
  <1>4. pc \notin {"tail", "done"} /\ req[r].pc \notin {"tail", "done"}
        /\ Before(req[r]) \cap During(req[r]) = {}
    BY DEF Before, During
  <1>5. Books(req[r], run[r], rows[r], stale[r])
    BY DEF IInv, BooksOf
  <1>6. Books(req'[r], run'[r], rows'[r], stale'[r])
    BY <1>2, <1>3, <1>4, <1>5 DEF Books
  <1>7. Holds(req'[r], <<r, "inner">> \in out', <<r, "client">> \in out')
    BY DEF Holds
  <1>. QED BY <1>2, <1>6, <1>7, Alone

(* The same when nothing of its record changes but its place. *)
LEMMA GotoKeeps ==
    ASSUME IInv, NEW r \in Reqs, NEW pc \in Places, Goto(r, pc),
           UNCHANGED <<backend, ledgerVars, stale>>, OutType', OutFrame(r),
           \/ req[r].pc \in Before(req[r]) /\ pc \in Before(req[r])
           \/ req[r].pc \in During(req[r]) /\ pc \in During(req[r]),
           pc \in InChunk(req[r]) => req[r].left > 0,
           <<r, "inner">> \in out' <=> pc \in {"gateDb", "lookupDb", "writing"},
           <<r, "client">> \in out' <=>
               pc \in {"lookup", "lookupDb", "known", "open", "stamp", "write", "writing",
                      "close", "closing"},
           req[r].kind # "stream" /\ pc \in {"stamp", "write", "writing"}
               => req[r].pc \in {"stamp", "write", "writing"}
    PROVE  IInv'
  <1>1. /\ ReqFrame(r)
        /\ req'[r].pc = pc /\ req'[r].kind = req[r].kind /\ req'[r].left = req[r].left
        /\ req'[r].ok = req[r].ok /\ req'[r].tally = req[r].tally
        /\ req'[r].lake = req[r].lake /\ req'[r].answer = req[r].answer
    BY GotoSays DEF IInv
  <1>. QED BY <1>1, MoveKeeps

(* A request that answers keeps its books, whatever the statement it was   *)
(* waiting for has done.                                                   *)
LEMMA AnswerKeeps ==
    ASSUME IInv, NEW r \in Reqs, NEW a \in Answers, Answer(r, a), LedgerFrame(r),
           rows'[r] >= rows[r], stale'[r] => rows'[r] > 0, a = "ok" => ~stale'[r]
    PROVE  IInv'
  <1>1. /\ ReqFrame(r)
        /\ req'[r].pc = "done" /\ req'[r].answer = a /\ req'[r].kind = req[r].kind
        /\ req'[r].lake = req[r].lake
        /\ OutType' /\ OutFrame(r) /\ \A p \in Purposes : <<r, p>> \notin out'
    BY AnswerSays DEF IInv
  <1>2. Books(req[r], run[r], rows[r], stale[r])
    BY DEF IInv, BooksOf
  <1>3. "done" \notin Before(req'[r]) \cup During(req'[r]) \cup InChunk(req'[r])
    BY DEF Before, During, InChunk
  <1>4. rows[r] \in Nat /\ rows'[r] \in Nat
    BY DEF IInv, TypeOK, LedgerFrame
  <1>5. Books(req'[r], run'[r], rows'[r], stale'[r])
    BY <1>1, <1>2, <1>3, <1>4 DEF Books
  <1>6. Holds(req'[r], <<r, "inner">> \in out', <<r, "client">> \in out')
    BY <1>1 DEF Holds, Purposes
  <1>. QED BY <1>1, <1>5, <1>6, Alone

(* So does one whose ingest_records fails. *)
LEMMA FailsKeeps ==
    ASSUME IInv, NEW r \in Reqs, Fails(r), LedgerFrame(r), run'[r] = run[r],
           rows'[r] >= rows[r], stale'[r] => rows'[r] > 0,
           req[r].kind = "stream" => req[r].pc \in During(req[r])
    PROVE  IInv'
  <1>1. /\ ReqFrame(r)
        /\ IF req[r].kind = "stream"
           THEN req'[r].pc = "closeGet" /\ ~req'[r].ok /\ req'[r].answer = req[r].answer
           ELSE req'[r].pc = "done" /\ req'[r].answer = "error"
        /\ req'[r].kind = req[r].kind /\ req'[r].tally = req[r].tally
        /\ req'[r].lake = req[r].lake
        /\ OutType' /\ OutFrame(r) /\ \A p \in Purposes : <<r, p>> \notin out'
    BY FailsSays DEF IInv
  <1>2. Books(req[r], run[r], rows[r], stale[r])
    BY DEF IInv, BooksOf
  <1>4. rows[r] \in Nat /\ rows'[r] \in Nat /\ req[r].tally \in Nat
    BY MarkedIsLocals DEF IInv, TypeOK, LedgerFrame, Marked
  <1>5. Books(req'[r], run'[r], rows'[r], stale'[r])
    <2>1. CASE req[r].kind = "stream"
      <3>1. /\ "closeGet" \in During(req'[r]) /\ "closeGet" \notin Before(req'[r])
            /\ "closeGet" \notin InChunk(req'[r])
        BY <1>1, <2>1 DEF Before, During, InChunk
      <3>2. req[r].pc \notin {"tail", "done"}
        BY <2>1 DEF During
      <3>. QED BY <1>1, <1>2, <1>4, <2>1, <3>1, <3>2 DEF Books
    <2>2. CASE req[r].kind # "stream"
      <3>1. "done" \notin Before(req'[r]) \cup During(req'[r]) \cup InChunk(req'[r])
        BY DEF Before, During, InChunk
      <3>. QED BY <1>1, <1>2, <1>4, <2>2, <3>1 DEF Books
    <2>. QED BY <2>1, <2>2
  <1>6. Holds(req'[r], <<r, "inner">> \in out', <<r, "client">> \in out')
    BY <1>1 DEF Holds, Purposes
  <1>. QED BY <1>1, <1>5, <1>6, Alone
-----------------------------------------------------------------------------
(* The steps *)

(* A step that neither takes nor returns a connection. *)
LEMMA OutStays == ASSUME TypeOK, NEW r \in Reqs, out' = out PROVE OutType' /\ OutFrame(r)
  BY DEF TypeOK, OutType, OutFrame

(* Rows committed under the run. *)
LEMMA CommitsSay ==
    ASSUME TypeOK, NEW r \in Reqs, NEW n \in Nat, Commits(r, n), UNCHANGED <<backend, run, counted>>,
           stale[r] => rows[r] > 0
    PROVE  /\ LedgerFrame(r) /\ run' = run
           /\ rows'[r] = rows[r] + n /\ rows'[r] >= rows[r]
           /\ stale'[r] => rows'[r] > 0
  <1>1. rows \in [Reqs -> Nat] /\ stale \in [Reqs -> Flags]
    BY DEF TypeOK, Flags
  <1>2. rows' = [rows EXCEPT ![r] = @ + n]
    BY DEF Commits
  <1>3. /\ rows' \in [Reqs -> Nat] /\ rows'[r] = rows[r] + n
        /\ \A x \in Reqs \ {r} : rows'[x] = rows[x]
    BY <1>1, <1>2
  <1>. DEFINE s == stale[r] \/ n > 0
  <1>4. stale' = [stale EXCEPT ![r] = s]
    BY DEF Commits
  <1>5. s \in Flags
    BY DEF Flags
  <1>6. s => rows[r] + n > 0
    BY <1>1
  <1>. HIDE DEF s
  <1>7. /\ stale' \in [Reqs -> Flags] /\ stale'[r] = s
        /\ \A x \in Reqs \ {r} : stale'[x] = stale[x]
    BY <1>1, <1>4, <1>5
  <1>8. LedgerFrame(r) /\ run' = run
    BY <1>3, <1>7 DEF TypeOK, LedgerFrame, Statuses
  <1>. QED BY <1>1, <1>3, <1>6, <1>7, <1>8

(* The end of an ingest_records call that wrote n rows, or was rejected     *)
(* whole with none.                                                        *)
LEMMA ChunkDoneKeeps ==
    ASSUME IInv, NEW r \in Reqs, NEW bad \in Nat, NEW n \in Nat, ChunkDone(r, bad, n),
           LedgerFrame(r), run'[r] = run[r], rows'[r] = rows[r] + n, stale'[r] => rows'[r] > 0,
           req[r].kind = "stream" => req[r].pc \in {"known", "write", "writing"},
           req[r].kind # "stream" => req[r].pc = "known" /\ n = 0
    PROVE  IInv'
  <1>. DEFINE left == req[r].left - 1
              pc == IF ~Stream(r) THEN "tail" ELSE IF left = 0 THEN "closeGet" ELSE "enter"
  <1>a. req \in [Reqs -> Marked] /\ TypeOK
    BY MarkedIsLocals DEF IInv, TypeOK
  <1>b. Books(req[r], run[r], rows[r], stale[r])
    BY DEF IInv, BooksOf
  <1>c. req[r].pc \in InChunk(req[r]) /\ req[r].pc \notin {"tail", "done"}
    BY DEF InChunk
  <1>1. left \in Nat /\ req[r].left > 0
    BY <1>a, <1>b, <1>c DEF Books, Marked
  <1>2. pc \in Places
    BY DEF Places
  <1>3. /\ req' = [req EXCEPT ![r].pc = pc, ![r].left = left, ![r].good = 0,
                              ![r].bad = bad, ![r].tally = @ + n]
        /\ out' = out \ Slots(r)
    BY DEF ChunkDone
  <1>. HIDE DEF left
  <1>p. /\ req[r].kind # "stream" => pc = "tail"
        /\ req[r].kind = "stream" => pc = "closeGet" \/ (pc = "enter" /\ left > 0)
    <2>1. CASE req[r].kind # "stream"
      BY <2>1 DEF Stream
    <2>2. CASE req[r].kind = "stream" /\ left = 0
      BY <2>2 DEF Stream
    <2>3. CASE req[r].kind = "stream" /\ left # 0
      BY <1>1, <2>3 DEF Stream
    <2>. QED BY <2>1, <2>2, <2>3
  <1>. HIDE DEF pc
  <1>. DEFINE one == [req EXCEPT ![r].pc = pc, ![r].left = left]
              two == [one EXCEPT ![r].good = 0, ![r].bad = bad]
  <1>o. /\ one \in [Reqs -> Marked] /\ \A x \in Reqs \ {r} : one[x] = req[x]
        /\ one[r].pc = pc /\ one[r].left = left /\ one[r].kind = req[r].kind
        /\ one[r].ok = req[r].ok /\ one[r].tally = req[r].tally
        /\ one[r].lake = req[r].lake /\ one[r].answer = req[r].answer
    BY <1>a, <1>1, <1>2 DEF Marked
  <1>t. req' = [two EXCEPT ![r].tally = @ + n]
    BY <1>3
  <1>. HIDE DEF one
  <1>w. /\ two \in [Reqs -> Marked] /\ \A x \in Reqs \ {r} : two[x] = one[x]
        /\ two[r].pc = one[r].pc /\ two[r].left = one[r].left /\ two[r].kind = one[r].kind
        /\ two[r].ok = one[r].ok /\ two[r].tally = one[r].tally
        /\ two[r].lake = one[r].lake /\ two[r].answer = one[r].answer
    BY <1>o DEF Marked
  <1>. HIDE DEF two
  <1>4. /\ ReqFrame(r)
        /\ req'[r].pc = pc /\ req'[r].left = left /\ req'[r].kind = req[r].kind
        /\ req'[r].ok = req[r].ok /\ req'[r].tally = req[r].tally + n
        /\ req'[r].lake = req[r].lake /\ req'[r].answer = req[r].answer
    BY <1>o, <1>w, <1>t DEF ReqFrame, Marked
  <1>5. OutType' /\ OutFrame(r) /\ \A p \in Purposes : <<r, p>> \notin out'
    BY <1>a, <1>3, PutAllSays
  <1>6. Holds(req'[r], <<r, "inner">> \in out', <<r, "client">> \in out')
    BY <1>p, <1>4, <1>5 DEF Holds, Purposes
  <1>7. rows[r] \in Nat /\ req[r].tally \in Nat
    BY <1>a DEF TypeOK, Marked
  <1>8. Books(req'[r], run'[r], rows'[r], stale'[r])
    <2>1. CASE req[r].kind = "stream"
      <3>1. /\ pc \in During(req'[r]) /\ pc \notin Before(req'[r])
            /\ pc \in InChunk(req'[r]) => left > 0
            /\ req[r].pc \in During(req[r]) /\ pc \notin {"tail", "done"}
        BY <1>p, <1>4, <2>1 DEF Before, During, InChunk
      <3>. QED BY <1>b, <1>c, <1>4, <1>7, <2>1, <3>1 DEF Books
    <2>2. CASE req[r].kind # "stream"
      <3>1. /\ "tail" \notin Before(req'[r]) \cup During(req'[r]) \cup InChunk(req'[r])
            /\ pc = "tail"
        BY <1>p, <2>2 DEF Before, During, InChunk
      <3>. QED BY <1>b, <1>c, <1>4, <1>7, <2>2, <3>1 DEF Books
    <2>. QED BY <2>1, <2>2
  <1>. QED BY <1>4, <1>5, <1>6, <1>8, Alone

(* A write that ends an ingest with its own run: the tally is what the      *)
(* answer said, or nothing and the ingest has failed.                      *)
LEMMA ToCloseKeeps ==
    ASSUME IInv, NEW r \in Reqs, req[r].kind # "stream", req[r].pc \in {"write", "writing"},
           ReqFrame(r), req'[r].pc = "close", req'[r].kind = req[r].kind,
           req'[r].lake = req[r].lake, req'[r].answer = req[r].answer,
           LedgerFrame(r), run'[r] = run[r], stale'[r] => rows'[r] > 0,
           req'[r].tally <= rows'[r], req'[r].ok => req'[r].tally = rows'[r], Put(r, "inner")
    PROVE  IInv'
  <1>1. Books(req[r], run[r], rows[r], stale[r]) /\ HoldsOf(r)
    BY DEF IInv, BooksOf
  <1>2. /\ "close" \in During(req'[r]) /\ "close" \notin Before(req'[r]) \cup InChunk(req'[r])
        /\ req[r].pc \in During(req[r])
    BY DEF Before, During, InChunk
  <1>3. rows'[r] \in Nat /\ req'[r].tally \in Nat /\ req[r].pc \notin {"tail", "done"}
    BY DEF LedgerFrame, ReqFrame, Marked
  <1>4. Books(req'[r], run'[r], rows'[r], stale'[r])
    BY <1>1, <1>2, <1>3 DEF Books
  <1>5. /\ OutType' /\ OutFrame(r) /\ <<r, "inner">> \notin out'
        /\ <<r, "client">> \in out' <=> <<r, "client">> \in out
    BY PutSays DEF IInv, Purposes
  <1>6. Holds(req'[r], <<r, "inner">> \in out', <<r, "client">> \in out')
    BY <1>1, <1>5 DEF HoldsOf, Holds
  <1>. QED BY <1>4, <1>5, <1>6, Alone

(* A failed write, the commit known to be rolled back or not known at all. *)
LEMMA WriteFailedKeeps ==
    ASSUME IInv, NEW r \in Reqs, WriteFailed(r), req[r].pc \in {"write", "writing"},
           LedgerFrame(r), run'[r] = run[r], rows'[r] >= rows[r], stale'[r] => rows'[r] > 0
    PROVE  IInv'
  <1>a. req \in [Reqs -> Marked] /\ TypeOK
    BY MarkedIsLocals DEF IInv, TypeOK
  <1>1. CASE req[r].kind = "stream"
    <2>1. Fails(r)
      BY <1>1 DEF WriteFailed, Stream
    <2>2. req[r].pc \in During(req[r])
      BY <1>1 DEF During
    <2>. QED BY <2>1, <2>2, FailsKeeps
  <1>2. CASE req[r].kind # "stream"
    <2>1. req' = [req EXCEPT ![r].pc = "close", ![r].ok = FALSE] /\ Put(r, "inner")
      BY <1>2 DEF WriteFailed, Stream
    <2>2. "close" \in Places /\ FALSE \in Flags
      BY DEF Places, Flags
    <2>3. /\ ReqFrame(r) /\ req'[r].pc = "close" /\ req'[r].kind = req[r].kind
          /\ req'[r].ok = FALSE /\ req'[r].tally = req[r].tally
          /\ req'[r].lake = req[r].lake /\ req'[r].answer = req[r].answer
      BY <1>a, <2>1, <2>2 DEF ReqFrame, Marked
    <2>4. /\ Books(req[r], run[r], rows[r], stale[r])
          /\ req[r].tally \in Nat /\ rows[r] \in Nat /\ rows'[r] \in Nat
      BY <1>a DEF IInv, BooksOf, TypeOK, Marked, LedgerFrame
    <2>5. req[r].tally <= rows'[r]
      BY <2>4 DEF Books
    <2>. QED BY <1>2, <2>1, <2>2, <2>3, <2>4, <2>5, ToCloseKeeps
  <1>. QED BY <1>1, <1>2

(* A write known to have changed n rows. *)
LEMMA WroteKeeps ==
    ASSUME IInv, NEW r \in Reqs, NEW n \in Nat, Wrote(r, n), req[r].pc \in {"write", "writing"},
           LedgerFrame(r), run'[r] = run[r], rows'[r] = rows[r] + n, stale'[r] => rows'[r] > 0
    PROVE  IInv'
  <1>a. req \in [Reqs -> Marked] /\ TypeOK
    BY MarkedIsLocals DEF IInv, TypeOK
  <1>1. CASE req[r].kind = "stream"
    <2>1. ChunkDone(r, req[r].bad, n) /\ req[r].bad \in Nat
      BY <1>a, <1>1 DEF Wrote, Stream, Marked
    <2>. QED BY <1>1, <2>1, ChunkDoneKeeps
  <1>2. CASE req[r].kind # "stream"
    <2>1. req' = [req EXCEPT ![r].pc = "close", ![r].tally = n] /\ Put(r, "inner")
      BY <1>2 DEF Wrote, Stream
    <2>2. "close" \in Places
      BY DEF Places
    <2>3. /\ ReqFrame(r) /\ req'[r].pc = "close" /\ req'[r].kind = req[r].kind
          /\ req'[r].ok = req[r].ok /\ req'[r].tally = n /\ req[r].ok \in Flags
          /\ req'[r].lake = req[r].lake /\ req'[r].answer = req[r].answer
      BY <1>a, <2>1, <2>2 DEF ReqFrame, Marked
    <2>4. Books(req[r], run[r], rows[r], stale[r]) /\ rows[r] \in Nat
      BY <1>a DEF IInv, BooksOf, TypeOK
    <2>5. rows[r] = 0
      BY <1>2, <2>4 DEF Books
    <2>6. req'[r].tally = rows'[r] /\ req'[r].tally <= rows'[r]
      BY <2>3, <2>5
    <2>. QED BY <1>2, <2>1, <2>3, <2>6, ToCloseKeeps
  <1>. QED BY <1>1, <1>2

(* An answer, or a failure, with nothing written. *)
LEMMA QuietAnswer ==
    ASSUME IInv, NEW r \in Reqs, NEW a \in {"ok", "error", "proposed", "gone"}, Answer(r, a),
           UNCHANGED <<backend, ledgerVars, stale>>, a = "ok" => ~stale[r]
    PROVE  IInv'
  <1>1. LedgerFrame(r) /\ run' = run /\ rows' = rows /\ stale' = stale /\ a \in Answers
    BY NothingWritten DEF IInv, Answers
  <1>2. rows'[r] >= rows[r] /\ (stale'[r] => rows'[r] > 0)
    BY <1>1 DEF IInv, TypeOK, BooksOf, Books
  <1>. QED BY <1>1, <1>2, AnswerKeeps

LEMMA QuietFails ==
    ASSUME IInv, NEW r \in Reqs, Fails(r), UNCHANGED <<backend, ledgerVars, stale>>,
           req[r].kind = "stream" => req[r].pc \in During(req[r])
    PROVE  IInv'
  <1>1. LedgerFrame(r) /\ run' = run /\ rows' = rows /\ stale' = stale
    BY NothingWritten DEF IInv
  <1>2. rows'[r] >= rows[r] /\ (stale'[r] => rows'[r] > 0)
    BY <1>1 DEF IInv, TypeOK, BooksOf, Books
  <1>. QED BY <1>1, <1>2, FailsKeeps

LEMMA QuietWriteFailed ==
    ASSUME IInv, NEW r \in Reqs, WriteFailed(r), UNCHANGED <<backend, ledgerVars, stale>>,
           req[r].pc \in {"write", "writing"}
    PROVE  IInv'
  <1>1. LedgerFrame(r) /\ run' = run /\ rows' = rows /\ stale' = stale
    BY NothingWritten DEF IInv
  <1>2. rows'[r] >= rows[r] /\ (stale'[r] => rows'[r] > 0)
    BY <1>1 DEF IInv, TypeOK, BooksOf, Books
  <1>. QED BY <1>1, <1>2, WriteFailedKeeps

(* From the gate to the body: no run yet, at most one connection. *)
LEMMA GateSteps ==
    ASSUME IInv, NEW r \in Reqs,
           \/ EmptyBody(r) \/ GateCached(r) \/ GateGet(r) \/ GateTarget(r)
           \/ AuthenticateWebhook(r) \/ CheckCanWrite(r)
           \/ ParseTyped(r) \/ ParseFile(r) \/ ParseWebhook(r) \/ ParseStream(r)
    PROVE  IInv'
  <1>a. TypeOK /\ req \in [Reqs -> Marked] /\ HoldsOf(r)
        /\ Books(req[r], run[r], rows[r], stale[r])
    BY MarkedIsLocals DEF IInv, TypeOK, BooksOf
  <1>p. /\ "gate" \in Places /\ "gateDb" \in Places /\ "gated" \in Places
        /\ "enter" \in Places /\ "openGet" \in Places
    BY DEF Places
  <1>1. CASE EmptyBody(r)
    BY <1>1, QuietAnswer DEF EmptyBody
  <1>2. CASE GateCached(r)
    <2>1. CASE Goto(r, "gated") /\ out' = out
      <3>1. OutType' /\ OutFrame(r)
        BY <1>a, <2>1, OutStays
      <3>2. <<r, "inner">> \notin out' /\ <<r, "client">> \notin out'
        BY <1>2, <1>a, <2>1 DEF GateCached, At, HoldsOf, Holds
      <3>. QED BY <1>2, <1>p, <2>1, <3>1, <3>2, GotoKeeps DEF GateCached, At, Before, InChunk
    <2>. QED BY <1>2, <2>1, QuietAnswer DEF GateCached
  <1>3. CASE GateGet(r)
    <2>1. Get(r, "inner") /\ Goto(r, "gateDb") /\ req[r].pc = "gate"
      BY <1>3 DEF GateGet, At
    <2>2. OutType' /\ OutFrame(r) /\ <<r, "inner">> \in out' /\ <<r, "client">> \notin out'
      BY <1>a, <2>1, GetSays DEF Purposes, HoldsOf, Holds
    <2>. QED BY <1>3, <1>p, <2>1, <2>2, GotoKeeps DEF GateGet, Before, InChunk
  <1>4. ASSUME NEW pc \in {"gated", "enter"}, req[r].pc \in {"gate", "gateDb"},
               Goto(r, pc), Put(r, "inner"), UNCHANGED <<backend, ledgerVars, stale>>,
               pc = "enter" => req[r].left > 0 /\ req[r].kind # "stream"
        PROVE  IInv'
    <2>1. OutType' /\ OutFrame(r) /\ <<r, "inner">> \notin out' /\ <<r, "client">> \notin out'
      BY <1>a, <1>4, PutSays DEF Purposes, HoldsOf, Holds
    <2>. QED BY <1>4, <1>p, <2>1, GotoKeeps DEF Before, InChunk
  <1>5. CASE GateTarget(r)
    <2>1. CASE Goto(r, "gated") /\ Put(r, "inner")
      BY <1>4, <1>5, <2>1 DEF GateTarget, At
    <2>. QED BY <1>5, <2>1, QuietAnswer DEF GateTarget
  <1>6. CASE AuthenticateWebhook(r)
    <2>1. CASE Goto(r, "gated") /\ Put(r, "inner")
      BY <1>4, <1>6, <2>1 DEF AuthenticateWebhook, At
    <2>. QED BY <1>6, <2>1, QuietAnswer DEF AuthenticateWebhook
  <1>7. CASE CheckCanWrite(r)
    <2>1. CASE Goto(r, "enter") /\ Put(r, "inner")
      BY <1>4, <1>7, <2>1 DEF CheckCanWrite
    <2>. QED BY <1>7, <2>1, QuietAnswer DEF CheckCanWrite
  <1>8. ASSUME NEW pc \in {"enter", "gate", "openGet"}, NEW left \in Nat, req[r].pc = "gated",
               req' = [req EXCEPT ![r].pc = pc, ![r].left = left], out' = out,
               UNCHANGED <<backend, ledgerVars, stale>>,
               pc = "enter" => left > 0 /\ req[r].kind # "stream",
               pc = "openGet" => req[r].kind = "stream"
        PROVE  IInv'
    <2>1. /\ ReqFrame(r) /\ req'[r].pc = pc /\ req'[r].left = left
          /\ req'[r].kind = req[r].kind /\ req'[r].ok = req[r].ok
          /\ req'[r].tally = req[r].tally /\ req'[r].lake = req[r].lake
          /\ req'[r].answer = req[r].answer
      BY <1>8, <1>a, <1>p DEF ReqFrame, Marked
    <2>2. OutType' /\ OutFrame(r)
      BY <1>8, <1>a, OutStays
    <2>3. <<r, "inner">> \notin out' /\ <<r, "client">> \notin out'
      BY <1>8, <1>a DEF HoldsOf, Holds
    <2>4. req[r].pc \in Before(req[r]) /\ pc \in Before(req[r])
          /\ (pc \in InChunk(req[r]) => pc = "enter")
      BY <1>8 DEF Before, InChunk
    <2>. QED BY <1>8, <2>1, <2>2, <2>3, <2>4, MoveKeeps
  <1>b. ASSUME req[r].pc = "gated", req[r].kind # "stream", out' = out,
               req' = [req EXCEPT ![r].pc = "enter", ![r].left = 1],
               UNCHANGED <<backend, ledgerVars, stale>>
        PROVE  IInv'
    <2>. DEFINE left == 1
    <2>1. left \in Nat /\ left > 0 /\ req' = [req EXCEPT ![r].pc = "enter", ![r].left = left]
      BY <1>b
    <2>. HIDE DEF left
    <2>. QED BY <1>b, <2>1, <1>8
  <1>9. CASE ParseTyped(r)
    BY <1>b, <1>9 DEF ParseTyped, At
  <1>10. CASE ParseFile(r)
    <2>1. ~stale[r]
      BY <1>10, <1>a DEF ParseFile, At, Books, Before
    <2>2. CASE req' = [req EXCEPT ![r].pc = "enter", ![r].left = 1] /\ out' = out
      BY <1>b, <1>10, <2>2 DEF ParseFile, At
    <2>. QED BY <1>10, <2>1, <2>2, QuietAnswer DEF ParseFile
  <1>11. CASE ParseWebhook(r)
    <2>1. CASE req' = [req EXCEPT ![r].pc = "gate", ![r].left = 1] /\ out' = out
      BY <1>8, <1>11, <2>1 DEF ParseWebhook, At
    <2>. QED BY <1>11, <2>1, QuietAnswer DEF ParseWebhook
  <1>12. CASE ParseStream(r)
    <2>1. ASSUME NEW n \in 0 .. MaxChunks, out' = out,
                 req' = [req EXCEPT ![r].pc = "openGet", ![r].left = n]
          PROVE  IInv'
      <3>1. n \in Nat
        BY IngestConstants
      <3>. QED BY <1>8, <1>12, <2>1, <3>1 DEF ParseStream, At, Stream
    <2>. QED BY <1>12, <2>1, QuietAnswer DEF ParseStream
  <1>. QED BY <1>1, <1>2, <1>3, <1>5, <1>6, <1>7, <1>9, <1>10, <1>11, <1>12

(* From the first checkout of ingest_records to the open run. *)
LEMMA RecordSteps ==
    ASSUME IInv, NEW r \in Reqs,
           \/ Enter(r) \/ LookupCached(r) \/ LookupGet(r) \/ Looked(r) \/ Validate(r)
           \/ StreamGet(r) \/ OpenRun(r) \/ SetSubmittedBy(r)
    PROVE  IInv'
  <1>a. TypeOK /\ req \in [Reqs -> Marked] /\ HoldsOf(r)
        /\ Books(req[r], run[r], rows[r], stale[r])
    BY MarkedIsLocals DEF IInv, TypeOK, BooksOf
  <1>p. /\ "lookup" \in Places /\ "lookupDb" \in Places /\ "known" \in Places
        /\ "write" \in Places /\ "open" \in Places /\ "stamp" \in Places
        /\ "enter" \in Places /\ "closeGet" \in Places
    BY DEF Places
  <1>q. "client" \in Purposes /\ "inner" \in Purposes
    BY DEF Purposes
  <1>c. /\ req[r].pc \in {"enter", "lookup", "lookupDb", "known"} =>
              \/ req[r].kind = "stream" /\ req[r].pc \in During(req[r])
              \/ req[r].kind # "stream" /\ req[r].pc \in Before(req[r])
        /\ req[r].pc \in {"enter", "lookup", "lookupDb", "known"} => req[r].left > 0
    BY <1>a DEF Books, Before, During, InChunk
  <1>d. ASSUME NEW pc \in {"lookup", "lookupDb", "known"}, Goto(r, pc),
               req[r].pc \in {"enter", "lookup", "lookupDb", "known"},
               UNCHANGED <<backend, ledgerVars, stale>>, OutType', OutFrame(r),
               <<r, "inner">> \in out' <=> pc = "lookupDb", <<r, "client">> \in out'
        PROVE  IInv'
    <2>1. /\ pc \in Places
          /\ \/ req[r].pc \in Before(req[r]) /\ pc \in Before(req[r])
             \/ req[r].pc \in During(req[r]) /\ pc \in During(req[r])
      BY <1>c, <1>d, <1>p DEF Before, During
    <2>. QED BY <1>c, <1>d, <2>1, GotoKeeps
  <1>1. CASE Enter(r)
    <2>1. CASE Get(r, "client") /\ Goto(r, "lookup")
      <3>1. OutType' /\ OutFrame(r) /\ <<r, "client">> \in out' /\ <<r, "inner">> \notin out'
        BY <1>1, <1>a, <1>q, <2>1, GetSays DEF Enter, At, HoldsOf, Holds
      <3>. QED BY <1>1, <1>d, <2>1, <3>1 DEF Enter, At
    <2>2. CASE Fails(r)
      BY <1>1, <1>c, <2>2, QuietFails DEF Enter, At
    <2>. QED BY <1>1, <2>1, <2>2 DEF Enter
  <1>2. CASE LookupCached(r)
    <2>1. CASE Goto(r, "known") /\ out' = out
      <3>1. OutType' /\ OutFrame(r) /\ <<r, "client">> \in out' /\ <<r, "inner">> \notin out'
        BY <1>2, <1>a, <2>1, OutStays DEF LookupCached, At, HoldsOf, Holds
      <3>. QED BY <1>2, <1>d, <2>1, <3>1 DEF LookupCached, At
    <2>2. CASE Fails(r)
      BY <1>2, <1>c, <2>2, QuietFails DEF LookupCached, At
    <2>. QED BY <1>2, <2>1, <2>2 DEF LookupCached
  <1>3. CASE LookupGet(r)
    <2>1. OutType' /\ OutFrame(r) /\ <<r, "client">> \in out' /\ <<r, "inner">> \in out'
      BY <1>3, <1>a, <1>q, GetSays DEF LookupGet, At, HoldsOf, Holds
    <2>. QED BY <1>3, <1>d, <2>1 DEF LookupGet, At
  <1>4. CASE Looked(r)
    <2>1. CASE Goto(r, "known") /\ Put(r, "inner")
      <3>1. OutType' /\ OutFrame(r) /\ <<r, "client">> \in out' /\ <<r, "inner">> \notin out'
        BY <1>4, <1>a, <1>q, <2>1, PutSays DEF Looked, At, HoldsOf, Holds
      <3>. QED BY <1>4, <1>d, <2>1, <3>1 DEF Looked, At
    <2>2. CASE Fails(r)
      BY <1>4, <1>c, <2>2, QuietFails DEF Looked, At
    <2>. QED BY <1>4, <2>1, <2>2 DEF Looked
  <1>5. CASE Validate(r)
    <2>0. PICK good \in 0 .. MaxBatch, bad \in 0 .. MaxBatch :
             IF good = 0
             THEN ChunkDone(r, req[r].bad + bad, 0)
             ELSE /\ req' = [req EXCEPT ![r].pc = IF Stream(r) THEN "write" ELSE "open",
                                        ![r].good = good, ![r].bad = @ + bad]
                  /\ UNCHANGED out
      BY <1>5 DEF Validate
    <2>1. /\ good \in Nat /\ bad \in Nat /\ req[r].bad + bad \in Nat /\ req[r].pc = "known"
          /\ UNCHANGED <<backend, ledgerVars, stale>>
      <3>1. good \in Nat /\ bad \in Nat
        BY IngestConstants
      <3>2. req[r].bad \in Nat
        BY <1>a DEF Marked
      <3>3. req[r].pc = "known" /\ UNCHANGED <<backend, ledgerVars, stale>>
        BY <1>5 DEF Validate, At
      <3>. QED BY <3>1, <3>2, <3>3
    <2>2. CASE good = 0
      <3>. DEFINE worse == req[r].bad + bad
      <3>1. ChunkDone(r, worse, 0) /\ worse \in Nat
        BY <2>0, <2>1, <2>2
      <3>. HIDE DEF worse
      <3>2. LedgerFrame(r) /\ run' = run /\ rows' = rows /\ stale' = stale
        BY <1>a, <2>1, NothingWritten
      <3>3. rows'[r] = rows[r] + 0 /\ (stale'[r] => rows'[r] > 0)
        BY <1>a, <3>2 DEF TypeOK, Books
      <3>. QED BY <2>1, <3>1, <3>2, <3>3, ChunkDoneKeeps
    <2>3. CASE good # 0
      <3>. DEFINE pc == IF Stream(r) THEN "write" ELSE "open"
      <3>1. req' = [req EXCEPT ![r].pc = pc, ![r].good = good, ![r].bad = @ + bad] /\ out' = out
        BY <2>0, <2>3
      <3>2. /\ pc \in Places /\ pc \in {"write", "open"}
            /\ \/ req[r].pc \in Before(req[r]) /\ pc \in Before(req[r])
               \/ req[r].pc \in During(req[r]) /\ pc \in During(req[r])
            /\ req[r].kind # "stream" => pc = "open"
        BY <1>c, <1>p, <2>1 DEF Stream, Before, During
      <3>. HIDE DEF pc
      <3>3. /\ ReqFrame(r) /\ req'[r].pc = pc /\ req'[r].left = req[r].left
            /\ req'[r].kind = req[r].kind /\ req'[r].ok = req[r].ok
            /\ req'[r].tally = req[r].tally /\ req'[r].lake = req[r].lake
            /\ req'[r].answer = req[r].answer
        BY <1>a, <2>1, <3>1, <3>2 DEF ReqFrame, Marked
      <3>4. OutType' /\ OutFrame(r) /\ <<r, "client">> \in out' /\ <<r, "inner">> \notin out'
        BY <1>a, <2>1, <3>1, OutStays DEF HoldsOf, Holds
      <3>. QED BY <1>c, <2>1, <3>2, <3>3, <3>4, MoveKeeps
    <2>. QED BY <2>2, <2>3
  <1>6. CASE StreamGet(r)
    <2>1. /\ Get(r, "client") /\ Goto(r, "open") /\ req[r].pc = "openGet"
          /\ UNCHANGED <<backend, ledgerVars, stale>>
      BY <1>6 DEF StreamGet, At
    <2>2. OutType' /\ OutFrame(r) /\ <<r, "client">> \in out' /\ <<r, "inner">> \notin out'
      BY <1>a, <1>q, <2>1, GetSays DEF HoldsOf, Holds
    <2>3. req[r].kind = "stream" /\ req[r].pc \in Before(req[r]) /\ "open" \in Before(req[r])
          /\ "open" \notin InChunk(req[r])
      BY <1>a, <2>1 DEF Books, Before, During, InChunk
    <2>. QED BY <1>p, <2>1, <2>2, <2>3, GotoKeeps
  <1>7. CASE OpenRun(r)
    <2>1. CASE run' = [run EXCEPT ![r] = "running"] /\ Goto(r, "stamp") /\ out' = out
      <3>1. /\ ReqFrame(r)
            /\ req'[r].pc = "stamp" /\ req'[r].kind = req[r].kind /\ req'[r].left = req[r].left
            /\ req'[r].ok = req[r].ok /\ req'[r].tally = req[r].tally
            /\ req'[r].lake = req[r].lake /\ req'[r].answer = req[r].answer
        BY <1>a, <1>p, <2>1, GotoSays
      <3>2. OutType' /\ OutFrame(r) /\ <<r, "client">> \in out' /\ <<r, "inner">> \notin out'
        BY <1>7, <1>a, <2>1, OutStays DEF OpenRun, At, HoldsOf, Holds
      <3>3. LedgerFrame(r) /\ run'[r] = "running" /\ rows' = rows /\ stale' = stale
        BY <1>7, <1>a, <2>1 DEF OpenRun, TypeOK, LedgerFrame, Statuses, Flags
      <3>4. /\ "stamp" \in During(req'[r]) /\ "stamp" \notin Before(req'[r])
            /\ req[r].pc = "open" /\ req[r].pc \in Before(req[r])
            /\ "stamp" \in InChunk(req'[r]) => req[r].pc \in InChunk(req[r])
        BY <1>7, <3>1 DEF OpenRun, At, Before, During, InChunk
      <3>5. req[r].tally \in Nat /\ rows[r] = 0 /\ req[r].tally = 0
        BY <1>a, <3>4 DEF Books, Marked
      <3>6. Books(req'[r], run'[r], rows'[r], stale'[r])
        BY <1>a, <3>1, <3>3, <3>4, <3>5 DEF Books
      <3>7. Holds(req'[r], <<r, "inner">> \in out', <<r, "client">> \in out')
        BY <3>1, <3>2 DEF Holds
      <3>. QED BY <3>1, <3>2, <3>3, <3>6, <3>7, Alone
    <2>2. CASE Answer(r, "error") /\ run' = run
      BY <1>7, <2>2, QuietAnswer DEF OpenRun, ledgerVars
    <2>. QED BY <1>7, <2>1, <2>2 DEF OpenRun
  <1>8. CASE SetSubmittedBy(r)
    <2>0. req[r].pc = "stamp" /\ UNCHANGED <<backend, ledgerVars, stale>>
      BY <1>8 DEF SetSubmittedBy, At
    <2>1. ASSUME NEW pc \in {"closeGet", "enter"}, req[r].kind = "stream", Goto(r, pc),
                 Put(r, "client"), pc = "enter" => req[r].left > 0
          PROVE  IInv'
      <3>1. OutType' /\ OutFrame(r) /\ <<r, "client">> \notin out' /\ <<r, "inner">> \notin out'
        BY <1>a, <1>q, <2>0, <2>1, PutSays DEF HoldsOf, Holds
      <3>2. /\ req[r].pc \in During(req[r]) /\ pc \in During(req[r]) /\ pc \in Places
            /\ pc \in InChunk(req[r]) => pc = "enter"
        BY <1>p, <2>0, <2>1 DEF During, InChunk
      <3>. QED BY <2>0, <2>1, <3>1, <3>2, GotoKeeps
    <2>2. CASE Stream(r) /\ Goto(r, IF req[r].left = 0 THEN "closeGet" ELSE "enter")
               /\ Put(r, "client")
      <3>1. req[r].left \in Nat
        BY <1>a DEF Marked
      <3>2. CASE req[r].left = 0
        BY <2>1, <2>2, <3>2 DEF Stream
      <3>3. CASE req[r].left # 0
        BY <2>1, <2>2, <3>1, <3>3 DEF Stream
      <3>. QED BY <3>2, <3>3
    <2>3. CASE ~Stream(r) /\ Goto(r, "write") /\ out' = out
      <3>1. OutType' /\ OutFrame(r) /\ <<r, "client">> \in out' /\ <<r, "inner">> \notin out'
        BY <1>a, <2>0, <2>3, OutStays DEF HoldsOf, Holds
      <3>2. /\ req[r].pc \in During(req[r]) /\ "write" \in During(req[r])
            /\ req[r].pc \in InChunk(req[r])
        BY <2>0, <2>3 DEF During, InChunk, Stream
      <3>3. req[r].left > 0
        BY <1>a, <3>2 DEF Books
      <3>. QED BY <1>p, <2>0, <2>3, <3>1, <3>2, <3>3, GotoKeeps
    <2>. QED BY <1>8, <2>0, <2>2, <2>3, QuietAnswer DEF SetSubmittedBy
  <1>. QED BY <1>1, <1>2, <1>3, <1>4, <1>5, <1>6, <1>7, <1>8

(* The write, on either backend. *)
LEMMA WriteSteps ==
    ASSUME IInv, NEW r \in Reqs, BeginPostgres(r) \/ WritePostgres(r) \/ WriteClickHouse(r)
    PROVE  IInv'
  <1>a. TypeOK /\ req \in [Reqs -> Marked] /\ HoldsOf(r)
        /\ Books(req[r], run[r], rows[r], stale[r])
    BY MarkedIsLocals DEF IInv, TypeOK, BooksOf
  <1>s. stale[r] => rows[r] > 0
    BY <1>a DEF Books
  <1>g. req[r].good \in Nat
    BY <1>a DEF Marked
  <1>1. CASE BeginPostgres(r)
    <2>0. req[r].pc = "write" /\ UNCHANGED <<backend, ledgerVars, stale>>
      BY <1>1 DEF BeginPostgres, At
    <2>1. CASE Get(r, "inner") /\ Goto(r, "writing")
      <3>1. OutType' /\ OutFrame(r) /\ <<r, "client">> \in out' /\ <<r, "inner">> \in out'
        BY <1>a, <2>0, <2>1, GetSays DEF HoldsOf, Holds, Purposes
      <3>2. /\ req[r].pc \in During(req[r]) /\ "writing" \in During(req[r])
            /\ req[r].pc \in InChunk(req[r]) /\ "writing" \in Places
        BY <2>0 DEF During, InChunk, Places
      <3>3. req[r].left > 0
        BY <1>a, <3>2 DEF Books
      <3>. QED BY <2>0, <2>1, <3>1, <3>2, <3>3, GotoKeeps
    <2>. QED BY <1>1, <2>0, <2>1, QuietWriteFailed DEF BeginPostgres
  <1>2. ASSUME NEW n \in Nat, Commits(r, n), UNCHANGED <<backend, run, counted>>,
               req[r].pc \in {"write", "writing"}, Wrote(r, n) \/ WriteFailed(r)
        PROVE  IInv'
    <2>1. /\ LedgerFrame(r) /\ run' = run
          /\ rows'[r] = rows[r] + n /\ rows'[r] >= rows[r]
          /\ stale'[r] => rows'[r] > 0
      BY <1>2, <1>a, <1>s, CommitsSay
    <2>. QED BY <1>2, <2>1, WroteKeeps, WriteFailedKeeps
  <1>3. CASE WritePostgres(r)
    <2>0. req[r].pc = "writing" /\ UNCHANGED <<backend, run, counted>>
      BY <1>3 DEF WritePostgres, At
    <2>1. ASSUME NEW n \in 0 .. req[r].good, Commits(r, n), Wrote(r, n) \/ WriteFailed(r)
          PROVE  IInv'
      <3>1. n \in Nat
        BY <1>g
      <3>. QED BY <1>2, <2>0, <2>1, <3>1
    <2>2. CASE WriteFailed(r) /\ UNCHANGED <<rows, stale>>
      BY <2>0, <2>2, QuietWriteFailed DEF ledgerVars
    <2>. QED BY <1>3, <2>1, <2>2 DEF WritePostgres
  <1>4. CASE WriteClickHouse(r)
    <2>0. req[r].pc = "write" /\ UNCHANGED <<backend, run, counted>>
      BY <1>4 DEF WriteClickHouse, At
    <2>1. CASE Commits(r, req[r].good) /\ (Wrote(r, req[r].good) \/ WriteFailed(r))
      BY <1>2, <1>g, <2>0, <2>1
    <2>2. CASE WriteFailed(r) /\ UNCHANGED <<rows, stale>>
      BY <2>0, <2>2, QuietWriteFailed DEF ledgerVars
    <2>. QED BY <1>4, <2>1, <2>2 DEF WriteClickHouse
  <1>. QED BY <1>1, <1>3, <1>4

(* A closed run: its status and its count are of their types. *)
LEMMA CloseSays ==
    ASSUME TypeOK, NEW r \in Reqs, CloseRun(r) \/ UNCHANGED <<run, counted>>,
           UNCHANGED <<backend, rows, stale>>
    PROVE  LedgerFrame(r)
  <1>1. FinalStatus(r) \in Statuses
    BY DEF FinalStatus, Statuses
  <1>2. req[r].tally \in Nat
    BY DEF TypeOK, Locals
  <1>3. CASE CloseRun(r)
    BY <1>1, <1>2, <1>3 DEF CloseRun, LedgerFrame, TypeOK, Statuses, Flags
  <1>4. CASE UNCHANGED <<run, counted>>
    BY <1>4 DEF LedgerFrame, TypeOK, Statuses, Flags
  <1>. QED BY <1>3, <1>4

(* From the closing of the run to the answer. *)
LEMMA EndSteps ==
    ASSUME IInv, NEW r \in Reqs,
           Close(r) \/ StreamCloseGet(r) \/ StreamClose(r) \/ Finish(r)
    PROVE  IInv'
  <1>a. TypeOK /\ req \in [Reqs -> Marked] /\ HoldsOf(r)
        /\ Books(req[r], run[r], rows[r], stale[r])
    BY MarkedIsLocals DEF IInv, TypeOK, BooksOf
  <1>p. "tail" \in Places /\ "done" \in Places /\ "closing" \in Places
    BY DEF Places
  <1>n. rows[r] \in Nat /\ req[r].tally \in Nat /\ req[r].lake \in Nat
    BY <1>a DEF TypeOK, Marked
  <1>t. /\ "tail" \notin Before(req'[r]) \cup During(req'[r]) \cup InChunk(req'[r])
        /\ "done" \notin Before(req'[r]) \cup During(req'[r]) \cup InChunk(req'[r])
    BY DEF Before, During, InChunk
  <1>1. CASE Close(r)
    <2>0. req[r].pc = "close" /\ UNCHANGED <<backend, rows, stale>> /\ LedgerFrame(r)
      BY <1>1, <1>a, CloseSays DEF Close, At
    <2>k. req[r].kind # "stream"
      BY <1>a, <2>0 DEF Books, Before, During
    <2>s. rows' = rows /\ stale' = stale /\ (stale'[r] => rows'[r] > 0) /\ rows'[r] >= rows[r]
      BY <1>a, <1>n, <2>0 DEF Books
    <2>1. CASE req[r].ok
      <3>. DEFINE fires == IF req[r].kind = "webhook" THEN 0 ELSE SubmitAfterIngest(r)
      <3>1. req' = [req EXCEPT ![r].pc = "tail", ![r].lake = @ + fires] /\ Put(r, "client")
        BY <1>1, <2>1 DEF Close
      <3>2. fires \in {0, 1} /\ (fires = 1 => req[r].tally > 0)
        BY DEF SubmitAfterIngest
      <3>. HIDE DEF fires
      <3>. DEFINE lake == req[r].lake + fires
      <3>l. /\ lake \in Nat
            /\ req' = [req EXCEPT ![r].pc = "tail", ![r].lake = lake]
        BY <1>n, <3>1, <3>2
      <3>. HIDE DEF lake
      <3>m. /\ ReqFrame(r) /\ req'[r].pc = "tail" /\ req'[r].lake = lake
            /\ req'[r].kind = req[r].kind /\ req'[r].ok = req[r].ok
            /\ req'[r].tally = req[r].tally /\ req'[r].answer = req[r].answer
        BY <1>a, <1>p, <3>l DEF ReqFrame, Marked
      <3>3. /\ ReqFrame(r) /\ req'[r].pc = "tail" /\ req'[r].lake = req[r].lake + fires
            /\ req'[r].kind = req[r].kind /\ req'[r].ok = req[r].ok
            /\ req'[r].tally = req[r].tally /\ req'[r].answer = req[r].answer
        BY <3>m DEF lake
      <3>4. OutType' /\ OutFrame(r) /\ <<r, "client">> \notin out' /\ <<r, "inner">> \notin out'
        BY <1>a, <2>0, <3>1, PutSays DEF HoldsOf, Holds, Purposes
      <3>5. req[r].lake = 0 /\ req[r].tally = rows[r]
        BY <1>a, <2>0, <2>1 DEF Books
      <3>6. Books(req'[r], run'[r], rows'[r], stale'[r])
        BY <1>a, <1>n, <1>t, <2>0, <2>k, <2>s, <3>2, <3>3, <3>5 DEF Books
      <3>7. Holds(req'[r], <<r, "inner">> \in out', <<r, "client">> \in out')
        BY <3>3, <3>4 DEF Holds
      <3>. QED BY <2>0, <3>3, <3>4, <3>6, <3>7, Alone
    <2>2. CASE ~req[r].ok
      <3>1. Answer(r, "error") /\ "error" \in Answers
        BY <1>1, <2>2 DEF Close, Answers
      <3>. QED BY <2>0, <2>s, <3>1, AnswerKeeps
    <2>. QED BY <2>1, <2>2
  <1>2. CASE StreamCloseGet(r)
    <2>1. /\ Get(r, "client") /\ Goto(r, "closing") /\ req[r].pc = "closeGet"
          /\ UNCHANGED <<backend, ledgerVars, stale>>
      BY <1>2 DEF StreamCloseGet, At
    <2>2. OutType' /\ OutFrame(r) /\ <<r, "client">> \in out' /\ <<r, "inner">> \notin out'
      BY <1>a, <2>1, GetSays DEF HoldsOf, Holds, Purposes
    <2>3. /\ req[r].pc \in During(req[r]) /\ "closing" \in During(req[r])
          /\ "closing" \notin InChunk(req[r])
      BY <1>a, <2>1 DEF Books, Before, During, InChunk
    <2>. QED BY <1>p, <2>1, <2>2, <2>3, GotoKeeps
  <1>3. CASE StreamClose(r)
    <2>0. /\ req[r].pc = "closing" /\ UNCHANGED <<backend, rows, stale>> /\ LedgerFrame(r)
          /\ Goto(r, "tail") /\ Put(r, "client")
      BY <1>3, <1>a, CloseSays DEF StreamClose, At
    <2>1. /\ ReqFrame(r)
          /\ req'[r].pc = "tail" /\ req'[r].kind = req[r].kind /\ req'[r].left = req[r].left
          /\ req'[r].ok = req[r].ok /\ req'[r].tally = req[r].tally
          /\ req'[r].lake = req[r].lake /\ req'[r].answer = req[r].answer
      BY <1>a, <1>p, <2>0, GotoSays
    <2>2. OutType' /\ OutFrame(r) /\ <<r, "client">> \notin out' /\ <<r, "inner">> \notin out'
      BY <1>a, <2>0, PutSays DEF HoldsOf, Holds, Purposes
    <2>3. Books(req'[r], run'[r], rows'[r], stale'[r])
      BY <1>a, <1>t, <2>0, <2>1 DEF Books
    <2>4. Holds(req'[r], <<r, "inner">> \in out', <<r, "client">> \in out')
      BY <2>1, <2>2 DEF Holds
    <2>. QED BY <2>0, <2>1, <2>2, <2>3, <2>4, Alone
  <1>4. CASE Finish(r)
    <2>. DEFINE fires == IF Stream(r) /\ req[r].ok THEN SubmitAfterIngest(r) ELSE 0
                a == IF req[r].ok /\ ~AllFailed(r) THEN "ok" ELSE "error"
                s == stale[r] /\ req[r].tally = 0
    <2>1. /\ req[r].pc = "tail" /\ UNCHANGED <<backend, out, ledgerVars>>
          /\ stale' = [stale EXCEPT ![r] = s]
          /\ req' = [req EXCEPT ![r].pc = "done", ![r].answer = a, ![r].lake = @ + fires]
      BY <1>4 DEF Finish, At
    <2>2. /\ fires \in {0, 1} /\ (fires = 1 => req[r].tally > 0 /\ req[r].kind = "stream")
          /\ a \in Answers /\ (a = "ok" => req[r].ok)
      BY DEF SubmitAfterIngest, Answers, Stream
    <2>3. s \in Flags /\ (s => stale[r] /\ req[r].tally = 0)
      BY DEF Flags
    <2>. HIDE DEF fires, a, s
    <2>4. /\ ReqFrame(r) /\ req'[r].pc = "done" /\ req'[r].answer = a
          /\ req'[r].lake = req[r].lake + fires /\ req'[r].kind = req[r].kind
      <3>. DEFINE lake == req[r].lake + fires
      <3>1. /\ lake \in Nat
            /\ req' = [req EXCEPT ![r].pc = "done", ![r].answer = a, ![r].lake = lake]
        BY <1>n, <2>1, <2>2
      <3>. HIDE DEF lake
      <3>2. /\ ReqFrame(r) /\ req'[r].pc = "done" /\ req'[r].answer = a
            /\ req'[r].lake = lake /\ req'[r].kind = req[r].kind
        BY <1>a, <1>p, <2>2, <3>1 DEF ReqFrame, Marked
      <3>. QED BY <3>2 DEF lake
    <2>5. /\ LedgerFrame(r) /\ run'[r] = run[r] /\ rows'[r] = rows[r] /\ stale'[r] = s
      <3>1. stale \in [Reqs -> Flags]
        BY <1>a DEF TypeOK, Flags
      <3>2. /\ stale' \in [Reqs -> Flags] /\ stale'[r] = s
            /\ \A x \in Reqs \ {r} : stale'[x] = stale[x]
        BY <2>1, <2>3, <3>1
      <3>. QED BY <1>a, <2>1, <3>2 DEF LedgerFrame, TypeOK, ledgerVars, Statuses
    <2>6. OutType' /\ OutFrame(r) /\ <<r, "client">> \notin out' /\ <<r, "inner">> \notin out'
      BY <1>a, <2>1, OutStays DEF HoldsOf, Holds
    <2>7. Books(req'[r], run'[r], rows'[r], stale'[r])
      <3>1. req[r].tally <= rows[r] /\ (req[r].ok => req[r].tally = rows[r])
            /\ (stale[r] => rows[r] > 0)
        BY <1>a, <2>1 DEF Books
      <3>2. /\ req[r].kind = "stream" => req[r].lake = 0
            /\ req[r].lake <= 1 /\ (req[r].lake = 1 => rows[r] > 0)
        BY <1>a, <2>1 DEF Books
      <3>3. req'[r].lake <= 1 /\ (req'[r].lake = 1 => rows'[r] > 0)
        BY <1>n, <2>2, <2>4, <2>5, <3>1, <3>2
      <3>4. (stale'[r] => rows'[r] > 0) /\ (req'[r].answer = "ok" => ~stale'[r])
        BY <1>n, <2>2, <2>3, <2>4, <2>5, <3>1
      <3>. QED BY <1>t, <2>4, <3>3, <3>4 DEF Books
    <2>8. Holds(req'[r], <<r, "inner">> \in out', <<r, "client">> \in out')
      BY <2>4, <2>6 DEF Holds
    <2>. QED BY <2>4, <2>5, <2>6, <2>7, <2>8, Alone
  <1>. QED BY <1>1, <1>2, <1>3, <1>4

(* The pool's timeout is a refusal or a failure like any other. *)
LEMMA TimeoutKeeps ==
    ASSUME IInv, NEW r \in Reqs, PoolTimeout(r)
    PROVE  IInv'
  <1>0. UNCHANGED <<backend, ledgerVars, stale>> /\ Books(req[r], run[r], rows[r], stale[r])
    BY DEF PoolTimeout, IInv, BooksOf
  <1>1. CASE Answer(r, "error")
    BY <1>0, <1>1, QuietAnswer
  <1>2. CASE req[r].pc \in {"enter", "lookup"} /\ Fails(r)
    <2>1. req[r].kind = "stream" => req[r].pc \in During(req[r])
      BY <1>2 DEF During
    <2>. QED BY <1>0, <1>2, <2>1, QuietFails
  <1>3. CASE req[r].pc = "write" /\ WriteFailed(r)
    BY <1>0, <1>3, QuietWriteFailed
  <1>. QED BY <1>1, <1>2, <1>3 DEF PoolTimeout, At

(* A request dropped where it waits leaves what its statement did. *)
LEMMA CancelKeeps ==
    ASSUME IInv, NEW r \in Reqs, Cancel(r)
    PROVE  IInv'
  <1>a. TypeOK /\ Books(req[r], run[r], rows[r], stale[r]) /\ Answer(r, "gone")
        /\ backend' = backend /\ rows[r] \in Nat
    BY DEF Cancel, IInv, TypeOK, BooksOf
  <1>s. stale[r] => rows[r] > 0
    BY <1>a DEF Books
  <1>1. CASE UNCHANGED <<ledgerVars, stale>>
    BY <1>a, <1>1, QuietAnswer
  <1>2. ASSUME LedgerFrame(r), rows'[r] >= rows[r], stale'[r] => rows'[r] > 0 PROVE IInv'
    <2>1. "gone" \in Answers
      BY DEF Answers
    <2>. QED BY <1>2, <1>a, <2>1, AnswerKeeps
  <1>3. CASE run' = [run EXCEPT ![r] = "running"] /\ UNCHANGED <<rows, counted, stale>>
    <2>1. LedgerFrame(r)
      BY <1>3, <1>a DEF LedgerFrame, TypeOK, Statuses, Flags
    <2>. QED BY <1>2, <1>3, <1>a, <1>s, <2>1
  <1>4. ASSUME NEW n \in 0 .. req[r].good, Commits(r, n), UNCHANGED <<run, counted>> PROVE IInv'
    <2>1. n \in Nat
      BY <1>a DEF TypeOK, Locals
    <2>. QED BY <1>2, <1>4, <1>a, <1>s, <2>1, CommitsSay
  <1>5. CASE CloseRun(r) /\ UNCHANGED <<rows, stale>>
    BY <1>2, <1>5, <1>a, <1>s, CloseSays
  <1>. QED BY <1>1, <1>3, <1>4, <1>5 DEF Cancel

(* Every request starts at the gate with nothing. *)
LEMMA IngestInit == Init => IInv
  <1>. SUFFICES ASSUME Init PROVE IInv
    OBVIOUS
  <1>1. req \in [Reqs -> Locals] /\ \A r \in Reqs : /\ req[r].pc = "gate" /\ req[r].tally = 0
                                                  /\ req[r].lake = 0 /\ req[r].answer = "none"
    <2>. DEFINE Start == [kind : Kinds, pc : {"gate"}, left : {0}, good : {0}, bad : {0},
                          ok : {TRUE}, tally : {0}, lake : {0}, answer : {"none"}]
    <2>1. req \in [Reqs -> Start]
      BY DEF Init
    <2>2. "gate" \in Places /\ "none" \in Answers /\ TRUE \in Flags
      BY DEF Places, Answers, Flags
    <2>3. \A q \in Start : /\ q \in Marked /\ q.pc = "gate" /\ q.tally = 0
                           /\ q.lake = 0 /\ q.answer = "none"
      <3>. SUFFICES ASSUME NEW q \in Start
                    PROVE  /\ q \in Marked /\ q.pc = "gate" /\ q.tally = 0
                           /\ q.lake = 0 /\ q.answer = "none"
        OBVIOUS
      <3>1. q = [kind |-> q.kind, pc |-> "gate", left |-> 0, good |-> 0, bad |-> 0, ok |-> TRUE,
                 tally |-> 0, lake |-> 0, answer |-> "none"] /\ q.kind \in Kinds
        OBVIOUS
      <3>. DEFINE t == TRUE
      <3>2. t \in Flags /\ q = [kind |-> q.kind, pc |-> "gate", left |-> 0, good |-> 0, bad |-> 0,
                               ok |-> t, tally |-> 0, lake |-> 0, answer |-> "none"]
        BY <2>2, <3>1
      <3>. HIDE DEF t
      <3>3. q \in Marked
        BY <2>2, <3>1, <3>2 DEF Marked
      <3>. QED BY <3>1, <3>3
    <2>. HIDE DEF Start
    <2>4. req \in [Reqs -> Marked]
      BY <2>1, <2>3
    <2>. QED BY <2>1, <2>3, <2>4, MarkedIsLocals
  <1>2. TypeOK
    <2>1. Cardinality(out) = 0
      BY FS_EmptySet DEF Init
    <2>. QED BY <1>1, <2>1, IngestConstants DEF Init, TypeOK
  <1>3. ASSUME NEW r \in Reqs PROVE BooksOf(r) /\ HoldsOf(r)
    <2>1. /\ "gate" \in Before(req[r]) /\ "gate" \notin During(req[r])
          /\ "gate" \notin InChunk(req[r])
      BY DEF Before, During, InChunk
    <2>2. BooksOf(r)
      BY <1>1, <2>1 DEF Init, BooksOf, Books
    <2>3. HoldsOf(r)
      BY <1>1 DEF Init, HoldsOf, Holds
    <2>. QED BY <2>2, <2>3
  <1>. QED BY <1>2, <1>3 DEF IInv

(* No step leaves the invariant. *)
LEMMA IngestStep == IInv /\ [Next]_vars => IInv'
  <1>. SUFFICES ASSUME IInv, [Next]_vars PROVE IInv'
    OBVIOUS
  <1>1. CASE UNCHANGED vars
    <2>1. TypeOK'
      BY <1>1 DEF IInv, TypeOK, vars
    <2>. QED BY <1>1, <2>1 DEF IInv, BooksOf, HoldsOf, vars
  <1>2. ASSUME NEW r \in Reqs, Step(r) PROVE IInv'
    BY <1>2, GateSteps, RecordSteps, WriteSteps, EndSteps, TimeoutKeeps DEF Step
  <1>. QED BY <1>1, <1>2, CancelKeeps DEF Next, Done

(* The invariant holds throughout. *)
LEMMA IngestInvariant == Spec => []IInv
  BY IngestInit, IngestStep, PTL DEF Spec
-----------------------------------------------------------------------------
(* The one pool under the handlers, get by get: no more connections are    *)
(* out than there are, and a request holds one exactly where its code has  *)
(* one in scope, so none is leaked by any failure or cancellation.         *)
THEOREM ConnectionsSafe == Spec => []ConnectionInv
  <1>1. IInv => ConnectionInv
    BY DEF IInv, HoldsOf, Holds, ConnectionInv, ConnectionsAccounted
  <1>. QED BY <1>1, IngestInvariant, PTL

(* The invalidation that ends the four handlers: whoever is told of        *)
(* success finds no cached read older than what was committed.             *)
THEOREM AnswersAreFresh == Spec => []ReadYourWrites
  <1>1. IInv => ReadYourWrites
    BY DEF IInv, BooksOf, Books, ReadYourWrites
  <1>. QED BY <1>1, IngestInvariant, PTL

(* submit_after_ingest, called by each handler and by ingest_records: the  *)
(* rows of a request are handed off once at most, and never without rows.  *)
THEOREM HandedOffOnce == Spec => []HandoffOnce
  <1>1. IInv => HandoffOnce
    BY DEF IInv, BooksOf, Books, HandoffOnce
  <1>. QED BY <1>1, IngestInvariant, PTL
-----------------------------------------------------------------------------
(* The refinement *)

(* A commit is a commit of the ledger. *)
LEMMA CommitMaps ==
    ASSUME IInv, NEW r \in Reqs, req[r].pc \in {"write", "writing"}, NEW n \in Nat, Commits(r, n),
           UNCHANGED <<run, counted>>
    PROVE  Ledger!Commit(r)
  <1>1. rows \in [Reqs -> Nat] /\ rows' = [rows EXCEPT ![r] = @ + n]
    BY DEF IInv, TypeOK, Commits
  <1>2. run[r] = "running"
    <2>1. Books(req[r], run[r], rows[r], stale[r])
      BY DEF IInv, BooksOf
    <2>2. req[r].pc \in During(req[r])
      BY DEF During
    <2>. QED BY <2>1, <2>2 DEF Books
  <1>3. rows'[r] = rows[r] + n /\ rows[r] \in Nat
    BY <1>1
  <1>4. rows'[r] \in Nat /\ rows'[r] >= rows[r]
    BY <1>3
  <1>5. rows' = [rows EXCEPT ![r] = rows'[r]]
    BY <1>1, <1>3
  <1>. QED BY <1>2, <1>4, <1>5 DEF Ledger!Commit

(* The closing of a run is a closing in the ledger: its count is exact      *)
(* unless the run has failed.                                              *)
LEMMA CloseMaps ==
    ASSUME IInv, NEW r \in Reqs, req[r].pc \in {"close", "closing"}, CloseRun(r), rows' = rows
    PROVE  Ledger!Close(r)
  <1>1. Books(req[r], run[r], rows[r], stale[r]) /\ rows[r] \in Nat /\ req[r].tally \in Nat
    BY DEF IInv, BooksOf, TypeOK, Locals
  <1>2. run[r] = "running"
    <2>1. req[r].pc \notin Before(req[r])
      BY DEF Before
    <2>. QED BY <1>1, <2>1 DEF Books
  <1>3. req[r].tally \in 0 .. rows[r] /\ (req[r].ok => req[r].tally = rows[r])
    BY <1>1 DEF Books
  <1>4. FinalStatus(r) \in {"ok", "partial", "failed"} /\ (FinalStatus(r) # "failed" => req[r].ok)
    BY DEF FinalStatus
  <1>5. /\ run' = [run EXCEPT ![r] = FinalStatus(r)]
        /\ counted' = [counted EXCEPT ![r] = req[r].tally]
    BY DEF CloseRun
  <1>. QED BY <1>2, <1>3, <1>4, <1>5 DEF Ledger!Close

(* Opening likewise: a request at "open" has no run yet. *)
LEMMA OpenMaps ==
    ASSUME IInv, NEW r \in Reqs, req[r].pc = "open", run' = [run EXCEPT ![r] = "running"],
           UNCHANGED <<rows, counted>>
    PROVE  Ledger!Open(r)
  <1>1. Books(req[r], run[r], rows[r], stale[r])
    BY DEF IInv, BooksOf
  <1>2. req[r].pc \in Before(req[r])
    BY DEF Before
  <1>. QED BY <1>1, <1>2 DEF Books, Ledger!Open

(* Each step opens, commits to or closes one run, or none. *)
LEMMA StepMaps == IInv /\ [Next]_vars => [Ledger!Next]_(Ledger!ledger)
  <1>. SUFFICES ASSUME IInv, [Next]_vars PROVE Ledger!Next \/ UNCHANGED <<run, rows, counted>>
    BY DEF Ledger!ledger
  <1>g. \A r \in Reqs : req[r].good \in Nat
    BY DEF IInv, TypeOK, Locals
  <1>1. ASSUME NEW r \in Reqs, OpenRun(r)
        PROVE  Ledger!Next \/ UNCHANGED <<run, rows, counted>>
    BY <1>1, OpenMaps DEF OpenRun, At, Ledger!Next
  <1>2. ASSUME NEW r \in Reqs, WritePostgres(r)
        PROVE  Ledger!Next \/ UNCHANGED <<run, rows, counted>>
    <2>1. ASSUME NEW n \in 0 .. req[r].good, Commits(r, n) PROVE Ledger!Next
      <3>1. n \in Nat
        BY <1>g
      <3>. QED BY <1>2, <2>1, <3>1, CommitMaps DEF WritePostgres, At, Ledger!Next
    <2>. QED BY <1>2, <2>1 DEF WritePostgres
  <1>3. ASSUME NEW r \in Reqs, WriteClickHouse(r)
        PROVE  Ledger!Next \/ UNCHANGED <<run, rows, counted>>
    BY <1>3, <1>g, CommitMaps DEF WriteClickHouse, At, Ledger!Next
  <1>4. ASSUME NEW r \in Reqs, Close(r) \/ StreamClose(r)
        PROVE  Ledger!Next \/ UNCHANGED <<run, rows, counted>>
    BY <1>4, CloseMaps DEF Close, StreamClose, At, Ledger!Next
  <1>5. ASSUME NEW r \in Reqs, Cancel(r)
        PROVE  Ledger!Next \/ UNCHANGED <<run, rows, counted>>
    <2>1. CASE UNCHANGED <<ledgerVars, stale>>
      BY <2>1 DEF ledgerVars
    <2>2. CASE req[r].pc = "open" /\ run' = [run EXCEPT ![r] = "running"]
               /\ UNCHANGED <<rows, counted, stale>>
      BY <2>2, OpenMaps DEF Ledger!Next
    <2>3. ASSUME req[r].pc \in {"write", "writing"}, NEW n \in 0 .. req[r].good, Commits(r, n),
                 UNCHANGED <<run, counted>>
          PROVE  Ledger!Next
      <3>1. n \in Nat
        BY <1>g
      <3>. QED BY <2>3, <3>1, CommitMaps DEF Ledger!Next
    <2>4. CASE req[r].pc \in {"close", "closing"} /\ CloseRun(r) /\ UNCHANGED <<rows, stale>>
      BY <2>4, CloseMaps DEF Ledger!Next
    <2>. QED BY <1>5, <2>1, <2>2, <2>3, <2>4 DEF Cancel, At
  <1>6. CASE UNCHANGED vars
    BY <1>6 DEF vars
  <1>7. ASSUME NEW r \in Reqs,
               \/ EmptyBody(r) \/ GateCached(r) \/ GateGet(r) \/ GateTarget(r)
               \/ AuthenticateWebhook(r) \/ CheckCanWrite(r)
               \/ ParseTyped(r) \/ ParseFile(r) \/ ParseWebhook(r) \/ ParseStream(r)
               \/ Enter(r) \/ LookupCached(r) \/ LookupGet(r) \/ Looked(r) \/ Validate(r)
               \/ StreamGet(r) \/ SetSubmittedBy(r) \/ BeginPostgres(r)
               \/ StreamCloseGet(r) \/ Finish(r) \/ PoolTimeout(r)
        PROVE  UNCHANGED <<run, rows, counted>>
    BY <1>7 DEF ledgerVars, EmptyBody, GateCached, GateGet, GateTarget, AuthenticateWebhook,
       CheckCanWrite, ParseTyped, ParseFile, ParseWebhook, ParseStream, Enter, LookupCached,
       LookupGet, Looked, Validate, StreamGet, SetSubmittedBy, BeginPostgres, StreamCloseGet,
       Finish, PoolTimeout
  <1>8. ASSUME NEW r \in Reqs, Step(r)
        PROVE  Ledger!Next \/ UNCHANGED <<run, rows, counted>>
    BY <1>8, <1>1, <1>2, <1>3, <1>4, <1>7 DEF Step
  <1>. QED BY <1>5, <1>6, <1>8 DEF Next, Done

(* What provenance.runs promises is kept by every way through the four      *)
(* handlers: whatever fails, is lost or is cancelled, the handlers          *)
(* implement the abstract ledger of runs.                                  *)
THEOREM LedgerImplemented == Spec => RunsAreTruthful
  <1>1. Init => Ledger!Init
    BY DEF Init, Ledger!Init
  <1>. QED BY <1>1, StepMaps, IngestInvariant, PTL DEF Spec, RunsAreTruthful, Ledger!Spec
=============================================================================
