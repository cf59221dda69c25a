-------------------------- MODULE ReadCacheProofs --------------------------
(***************************************************************************)
(* Read-your-writes of the response cache for every number of readers,     *)
(* writers, tables, endpoints, writes, evictions and cancelled requests:   *)
(* on any number of replicas that restart at will when there is no Redis,  *)
(* and on one replica that does not restart when there is one.             *)
(*                                                                         *)
(* ReadYourWrites alone is not inductive.  The invariant says what every   *)
(* body, wherever it is kept, owes to the requests that may still meet it  *)
(* under its key: it is never ahead of the endpoint's generation; at the   *)
(* present generation it has every write acknowledged or about to be; and  *)
(* it has what every read in progress under the same key needs.            *)
(*                                                                         *)
(* A further part proves that flights are single, without that premise.    *)
(*                                                                         *)
(* The last part is about ReadQuery, which says what a key of this cache   *)
(* names: every caller ends up with the answer to its own request.  A key  *)
(* is taken apart from its end, one parameter's addition after the other,  *)
(* so that one key means one set of texts; equal texts bind to equal       *)
(* values and choose equal fragments, so that one set of texts means one   *)
(* statement.  The invariant keeps with every body a request it was run    *)
(* for and whose key it is kept under; that the tenant of a self-tenant    *)
(* endpoint is the caller's subject follows from the same invariant.       *)
(***************************************************************************)
EXTENDS ReadCache, ReadQuery, FiniteSetTheorems, SequenceTheorems, WellFoundedInduction, TLAPS

(* One replica for as long as Redis keeps its bodies. *)
Alone == Redis => MaxRestarts = 0 /\ \A c, d \in Replicas : c = d

Bumps(w, c, t) == write[w].pc = "bumped" /\ write[w].at = c /\ write[w].table = t
Asks(q, c, x) == /\ read[q].pc # "idle"
                 /\ read[q].at = c
                 /\ read[q].ep = x.ep
                 /\ read[q].gen = x.gen

(* The body x is safe to meet on replica c. *)
HasWrites(c, x) ==
    \A t \in Reads[x.ep] :
        /\ acked[c][t] <= x.body[t]
        /\ \A w \in Writers : Bumps(w, c, t) => write[w].ver <= x.body[t]
Good(c, x) ==
    /\ x.gen <= gen[c][x.ep]
    /\ x.body # EmptyBody =>
         /\ x.gen = gen[c][x.ep] => HasWrites(c, x)
         /\ \A q \in Readers : Asks(q, c, x) =>
              \A t \in Reads[x.ep] : read[q].need[t] <= x.body[t]

L1Good == \A c \in Replicas : \A x \in l1[c] : Good(c, x)
L2Good == /\ ~Redis => l2 = {}
          /\ \A c \in Replicas : \A x \in l2 : Good(c, x)
FlightGood == \A r \in Readers :
    read[r].pc \in {"setex", "fill"} => Good(read[r].at, EntryOf(r))
ReadersBehind == \A r \in Readers :
    read[r].pc # "idle" => read[r].gen <= gen[read[r].at][read[r].ep]
(* The database has what was acknowledged, promised or asked for. *)
DbAhead ==
    /\ \A c \in Replicas : \A t \in Tables : acked[c][t] <= db[t]
    /\ \A w \in Writers : write[w].pc # "idle" => write[w].ver <= db[write[w].table]
    /\ \A r \in Readers : read[r].pc # "idle" => \A t \in Tables : read[r].need[t] <= db[t]

CacheInv ==
    /\ TypeOK
    /\ L1Good
    /\ L2Good
    /\ FlightGood
    /\ ReadersBehind
    /\ DbAhead
    /\ ReadsFresh
-----------------------------------------------------------------------------
(* The resting states of a read and of a write are well typed. *)
LEMMA IdleType == IdleRead \in ReadStates /\ IdleWrite \in WriteStates
  <1>1. AnyReplica \in Replicas
    BY CacheConstants DEF AnyReplica
  <1>2. (CHOOSE e \in Endpoints : TRUE) \in Endpoints
    BY CacheConstants
  <1>3. (CHOOSE t \in Tables : TRUE) \in Tables
    BY CacheConstants
  <1>4. EmptyBody \in Bodies
    BY DEF EmptyBody, Bodies
  <1>. QED BY <1>1, <1>2, <1>3, <1>4 DEF IdleRead, IdleWrite, ReadStates, WriteStates

(* The initial state is well typed. *)
LEMMA TypeInit == Init => TypeOK
  BY IdleType DEF Init, TypeOK, Bodies, EmptyBody

(* A reader that takes a well-typed state leaves the readers well typed. *)
LEMMA BecomesType ==
    ASSUME TypeOK, NEW r \in Readers, NEW st \in ReadStates, Becomes(r, st)
    PROVE  read' \in [Readers -> ReadStates]
  BY DEF Becomes, TypeOK

(* The fields of a well-typed read and the entry made of it. *)
LEMMA ReadFields ==
    ASSUME TypeOK, NEW r \in Readers
    PROVE  /\ read[r].at \in Replicas
           /\ read[r].ep \in Endpoints
           /\ read[r].gen \in Nat
           /\ read[r].need \in Bodies
           /\ read[r].body \in Bodies
           /\ EntryOf(r) \in Entries
  BY DEF TypeOK, ReadStates, EntryOf, Entries

(* Bumping generations keeps them natural numbers, and never lowers one;   *)
(* it raises the one of every endpoint that reads the table.               *)
LEMMA BumpedType ==
    ASSUME TypeOK, NEW c \in Replicas, NEW t \in Tables
    PROVE  /\ Bumped(c, t) \in [Replicas -> [Endpoints -> Nat]]
           /\ \A d \in Replicas, e \in Endpoints : gen[d][e] <= Bumped(c, t)[d][e]
           /\ \A e \in Endpoints : t \in Reads[e] => gen[c][e] < Bumped(c, t)[c][e]
  BY DEF Bumped, TypeOK

(* Storing an entry keeps a set of entries. *)
LEMMA StoredType ==
    ASSUME NEW S \in SUBSET Entries, NEW x \in Entries, NEW r
    PROVE  Stored(S, r, x) \in SUBSET Entries
  BY DEF Stored

(* A read that moves on, with or without a new body, is well typed. *)
LEMMA ReadTurns ==
    ASSUME NEW st \in ReadStates, NEW pc \in InFlight \cup {"idle", "l1", "wait", "done"},
           NEW b \in Bodies
    PROVE  /\ [st EXCEPT !.pc = pc] \in ReadStates
           /\ [st EXCEPT !.pc = pc, !.body = b] \in ReadStates
  BY Zenon DEF ReadStates

(* Every step keeps every variable well typed. *)
LEMMA TypeStep == TypeOK /\ [Next]_vars => TypeOK'
  <1>. SUFFICES ASSUME TypeOK, [Next]_vars PROVE TypeOK'
    OBVIOUS
  <1>e. EmptyBody \in Bodies
    BY DEF EmptyBody, Bodies
  <1>f. \A r \in Readers : \A pc \in InFlight \cup {"idle", "l1", "wait", "done"} :
          \A b \in Bodies : /\ [read[r] EXCEPT !.pc = pc] \in ReadStates
                            /\ [read[r] EXCEPT !.pc = pc, !.body = b] \in ReadStates
    <2>1. \A r \in Readers : read[r] \in ReadStates
      BY DEF TypeOK
    <2>. QED BY <2>1, ReadTurns
  <1>1. ASSUME NEW r \in Readers, NEW c \in Replicas, NEW e \in Endpoints, StartRead(r, c, e)
        PROVE TypeOK'
    <2>. PICK st : st = [pc |-> "l1", at |-> c, ep |-> e, gen |-> gen[c][e],
                         need |-> acked[c], body |-> EmptyBody]
      OBVIOUS
    <2>1. st \in ReadStates
      BY <1>e DEF TypeOK, ReadStates
    <2>2. Becomes(r, st)
      BY <1>1 DEF StartRead
    <2>. QED BY <2>1, <2>2, BecomesType, <1>1 DEF StartRead, TypeOK, cacheVars
  <1>2. ASSUME NEW r \in Readers, HitL1(r) PROVE TypeOK'
    <2>0. read[r].at \in Replicas
      BY ReadFields
    <2>1. PICK x \in l1[read[r].at] : Becomes(r, [read[r] EXCEPT !.pc = "done", !.body = x.body])
      BY <1>2 DEF HitL1, Hits
    <2>2. x \in Entries
      BY <2>0 DEF TypeOK
    <2>3. x.body \in Bodies
      BY <2>2 DEF Entries
    <2>4. [read[r] EXCEPT !.pc = "done", !.body = x.body] \in ReadStates
      BY <1>f, <2>3
    <2>5. read' \in [Readers -> ReadStates]
      BY <2>1, <2>4, BecomesType
    <2>. QED BY <2>5, <1>2 DEF HitL1, TypeOK, cacheVars
  <1>3. ASSUME NEW r \in Readers, MissL1(r) PROVE TypeOK'
    <2>1. PICK pc \in {"wait", "l2", "query"} : Becomes(r, [read[r] EXCEPT !.pc = pc])
      BY <1>3 DEF MissL1
    <2>2. [read[r] EXCEPT !.pc = pc] \in ReadStates
      BY <1>f, <1>e DEF InFlight
    <2>5. read' \in [Readers -> ReadStates]
      BY <2>1, <2>2, BecomesType
    <2>. QED BY <2>5, <1>3 DEF MissL1, TypeOK, cacheVars
  <1>4. ASSUME NEW r \in Readers, HitL2(r) PROVE TypeOK'
    <2>1. PICK x \in l2 : Becomes(r, [read[r] EXCEPT !.pc = "fill", !.body = x.body])
      BY <1>4 DEF HitL2, Hits
    <2>3. x.body \in Bodies
      BY DEF TypeOK, Entries
    <2>4. [read[r] EXCEPT !.pc = "fill", !.body = x.body] \in ReadStates
      BY <1>f, <2>3 DEF InFlight
    <2>5. read' \in [Readers -> ReadStates]
      BY <2>1, <2>4, BecomesType
    <2>. QED BY <2>5, <1>4 DEF HitL2, TypeOK, cacheVars
  <1>5. ASSUME NEW r \in Readers, MissL2(r) PROVE TypeOK'
    <2>4. [read[r] EXCEPT !.pc = "query"] \in ReadStates
      BY <1>f, <1>e DEF InFlight
    <2>5. read' \in [Readers -> ReadStates]
      BY <1>5, <2>4, BecomesType DEF MissL2
    <2>. QED BY <2>5, <1>5 DEF MissL2, TypeOK, cacheVars
  <1>6. ASSUME NEW r \in Readers, Query(r) PROVE TypeOK'
    <2>1. PICK pc \in {"setex"} : Becomes(r, [read[r] EXCEPT !.pc = pc, !.body = db])
      BY <1>6 DEF Query
    <2>2. db \in Bodies
      BY DEF TypeOK
    <2>4. [read[r] EXCEPT !.pc = pc, !.body = db] \in ReadStates
      BY <1>f, <2>2 DEF InFlight
    <2>5. read' \in [Readers -> ReadStates]
      BY <2>1, <2>4, BecomesType
    <2>. QED BY <2>5, <1>6 DEF Query, TypeOK, cacheVars
  <1>7. ASSUME NEW r \in Readers, QueryTimesOut(r) PROVE TypeOK'
    <2>1. PICK pc \in {"setex"} :
            Becomes(r, [read[r] EXCEPT !.pc = pc, !.body = EmptyBody])
      BY <1>7 DEF QueryTimesOut
    <2>4. [read[r] EXCEPT !.pc = pc, !.body = EmptyBody] \in ReadStates
      BY <1>f, <1>e DEF InFlight
    <2>5. read' \in [Readers -> ReadStates]
      BY <2>1, <2>4, BecomesType
    <2>6. faults' \in [restarts : Nat, timeouts : Nat, losses : Nat]
      BY <1>7 DEF QueryTimesOut, TypeOK
    <2>. QED BY <2>5, <2>6, <1>7 DEF QueryTimesOut, TypeOK, cacheVars
  <1>8. ASSUME NEW r \in Readers, SetEx(r) PROVE TypeOK'
    <2>1. l2' \subseteq Entries
      <3>1. Stored(l2, r, EntryOf(r)) \in SUBSET Entries
        BY ReadFields, StoredType DEF TypeOK
      <3>. QED BY <3>1, <1>8 DEF SetEx, TypeOK
    <2>4. [read[r] EXCEPT !.pc = "fill"] \in ReadStates
      BY <1>f, <1>e DEF InFlight
    <2>5. read' \in [Readers -> ReadStates]
      BY <1>8, <2>4, BecomesType DEF SetEx
    <2>. QED BY <2>1, <2>5, <1>8 DEF SetEx, TypeOK
  <1>9. ASSUME NEW r \in Readers, Fill(r) PROVE TypeOK'
    <2>1. /\ read[r].at \in Replicas
          /\ EntryOf(r) \in Entries
          /\ read[r].body \in Bodies
      BY ReadFields
    <2>2. Stored(l1[read[r].at], r, EntryOf(r)) \in SUBSET Entries
      BY <2>1, StoredType DEF TypeOK
    <2>3. /\ DOMAIN l1' = Replicas
          /\ \A c \in Replicas : l1'[c] \subseteq Entries
      BY <2>1, <2>2, <1>9 DEF Fill, TypeOK
    <2>4. \A q \in Readers : [read[q] EXCEPT !.pc = "done", !.body = read[r].body] \in ReadStates
      BY <1>f, <2>1
    <2>5. read' \in [Readers -> ReadStates]
      BY <2>4, <1>9 DEF Fill, TypeOK
    <2>. QED BY <2>3, <2>5, <1>9 DEF Fill, TypeOK
  <1>10. ASSUME NEW r \in Readers, QueryFails(r) \/ CancelRead(r) PROVE TypeOK'
    <2>1. \A q \in Readers : [read[q] EXCEPT !.pc = "l1"] \in ReadStates
      BY <1>f, <1>e
    <2>2. read' \in [Readers -> ReadStates]
      BY <2>1, <1>10, IdleType DEF QueryFails, CancelRead, TypeOK
    <2>3. faults' \in [restarts : Nat, timeouts : Nat, losses : Nat]
      <3>1. faults' = [faults EXCEPT !.losses = @ + 1]
        BY <1>10 DEF QueryFails, CancelRead
      <3>. QED BY <3>1 DEF TypeOK
    <2>. QED BY <2>2, <2>3, <1>10 DEF QueryFails, CancelRead, TypeOK, cacheVars
  <1>11. ASSUME NEW r \in Readers, Respond(r) PROVE TypeOK'
    <2>5. read' \in [Readers -> ReadStates]
      BY <1>11, IdleType, BecomesType DEF Respond
    <2>. QED BY <2>5, <1>11 DEF Respond, TypeOK, cacheVars
  <1>12. ASSUME NEW w \in Writers, NEW c \in Replicas, NEW t \in Tables, Commit(w, c, t)
         PROVE TypeOK'
    <2>1. db[t] \in Nat
      BY DEF TypeOK, Bodies
    <2>2. db' \in Bodies
      BY <2>1, <1>12 DEF Commit, TypeOK, Bodies
    <2>3. [pc |-> "committed", at |-> c, table |-> t, ver |-> db[t] + 1] \in WriteStates
      BY <2>1 DEF WriteStates
    <2>4. write' \in [Writers -> WriteStates]
      BY <2>3, <1>12 DEF Commit, TypeOK
    <2>. QED BY <2>2, <2>4, <1>12 DEF Commit, TypeOK, cacheVars
  <1>13. ASSUME NEW w \in Writers, InvalidateLocal(w) PROVE TypeOK'
    <2>1. write[w].at \in Replicas /\ write[w].table \in Tables
      BY DEF TypeOK, WriteStates
    <2>2. gen' \in [Replicas -> [Endpoints -> Nat]]
      BY <2>1, <1>13, BumpedType DEF InvalidateLocal
    <2>3. write' \in [Writers -> WriteStates]
      <3>1. write \in [Writers -> WriteStates]
        BY DEF TypeOK
      <3>2. [write[w] EXCEPT !.pc = "bumped"] \in WriteStates
        BY <3>1, Zenon DEF WriteStates
      <3>3. write' = [write EXCEPT ![w] = [write[w] EXCEPT !.pc = "bumped"]]
        BY <1>13 DEF InvalidateLocal
      <3>. QED BY <3>1, <3>2, <3>3
    <2>. QED BY <2>2, <2>3, <1>13 DEF InvalidateLocal, TypeOK
  <1>14. ASSUME NEW w \in Writers, PublishAndAck(w) PROVE TypeOK'
    <2>. PICK c, t, v : c = write[w].at /\ t = write[w].table /\ v = write[w].ver
      OBVIOUS
    <2>1. c \in Replicas /\ t \in Tables /\ v \in Nat
      BY DEF TypeOK, WriteStates
    <2>2. chan' \in [Replicas -> [Tables -> Nat]]
      <3>1. \A d \in Replicas : [chan[d] EXCEPT ![t] = @ + 1] \in [Tables -> Nat]
        BY <2>1 DEF TypeOK
      <3>. QED BY <3>1, <1>14 DEF PublishAndAck, TypeOK
    <2>3. acked' \in [Replicas -> Bodies]
      <3>1. [u \in Tables |-> IF u = t /\ acked[c][t] < v THEN v ELSE acked[c][u]] \in Bodies
        BY <2>1 DEF TypeOK, Bodies
      <3>. QED BY <3>1, <1>14 DEF PublishAndAck, TypeOK
    <2>4. write' \in [Writers -> WriteStates]
      BY <1>14, IdleType DEF PublishAndAck, TypeOK
    <2>. QED BY <2>2, <2>3, <2>4, <1>14 DEF PublishAndAck, TypeOK
  <1>15. ASSUME NEW w \in Writers, CancelWrite(w) PROVE TypeOK'
    BY <1>15, IdleType DEF CancelWrite, TypeOK, cacheVars
  <1>16. ASSUME NEW c \in Replicas, NEW t \in Tables, Deliver(c, t) PROVE TypeOK'
    <2>1. gen' \in [Replicas -> [Endpoints -> Nat]]
      BY <1>16, BumpedType DEF Deliver
    <2>2. chan' \in [Replicas -> [Tables -> Nat]]
      BY <1>16 DEF Deliver, TypeOK
    <2>. QED BY <2>1, <2>2, <1>16 DEF Deliver, TypeOK
  <1>17. ASSUME NEW c \in Replicas, NEW t \in Tables, LoseMessage(c, t) PROVE TypeOK'
    <2>1. chan' \in [Replicas -> [Tables -> Nat]]
      BY <1>17 DEF LoseMessage, TypeOK
    <2>2. faults' \in [restarts : Nat, timeouts : Nat, losses : Nat]
      <3>1. faults \in [restarts : Nat, timeouts : Nat, losses : Nat]
        BY DEF TypeOK
      <3>2. faults' = [faults EXCEPT !.losses = @ + 1]
        BY <1>17 DEF LoseMessage
      <3>. QED BY <3>1, <3>2
    <2>. QED BY <2>1, <2>2, <1>17 DEF LoseMessage, TypeOK
  <1>18. ASSUME NEW c \in Replicas, Restart(c) PROVE TypeOK'
    <2>1. read' \in [Readers -> ReadStates] /\ write' \in [Writers -> WriteStates]
      BY <1>18, IdleType DEF Restart, TypeOK
    <2>2. gen' \in [Replicas -> [Endpoints -> Nat]] /\ chan' \in [Replicas -> [Tables -> Nat]]
      BY <1>18 DEF Restart, TypeOK
    <2>3. /\ DOMAIN l1' = Replicas
          /\ \A d \in Replicas : l1'[d] \subseteq Entries
      BY <1>18 DEF Restart, TypeOK
    <2>4. faults' \in [restarts : Nat, timeouts : Nat, losses : Nat]
      BY <1>18 DEF Restart, TypeOK
    <2>. QED BY <2>1, <2>2, <2>3, <2>4, <1>18 DEF Restart, TypeOK
  <1>19. ASSUME NEW c \in Replicas, NEW x \in l1[c], EvictL1(c, x) PROVE TypeOK'
    BY <1>19 DEF EvictL1, TypeOK
  <1>20. ASSUME NEW x \in l2, EvictL2(x) PROVE TypeOK'
    BY <1>20 DEF EvictL2, TypeOK
  <1>21. CASE UNCHANGED vars
    BY <1>21 DEF vars, TypeOK
  <1>. QED
    BY <1>1, <1>2, <1>3, <1>4, <1>5, <1>6, <1>7, <1>8, <1>9, <1>10, <1>11, <1>12, <1>13,
       <1>14, <1>15, <1>16, <1>17, <1>18, <1>19, <1>20, <1>21 DEF Next, ReadStep

-----------------------------------------------------------------------------
(* A read keeps its place, or ends. *)
Keeps(q) ==
    \/ read'[q].pc = "idle"
    \/ /\ read[q].pc # "idle"
       /\ read'[q].at = read[q].at
       /\ read'[q].ep = read[q].ep
       /\ read'[q].gen = read[q].gen
       /\ read'[q].need = read[q].need

(* A body stays good while generations, acknowledgements and writers rest  *)
(* and no new read starts.                                                 *)
LEMMA GoodFrame ==
    ASSUME NEW c, NEW x, UNCHANGED <<gen, acked, write>>,
           \A q \in Readers : Keeps(q), Good(c, x)
    PROVE  Good(c, x)'
  <1>1. HasWrites(c, x) => HasWrites(c, x)'
    BY DEF HasWrites, Bumps
  <1>2. ASSUME NEW q \in Readers, Asks(q, c, x)' PROVE Asks(q, c, x) /\ read'[q].need = read[q].need
    BY <1>2 DEF Keeps, Asks
  <1>3. x.body # EmptyBody =>
          \A q \in Readers : Asks(q, c, x)' => \A t \in Reads[x.ep] : read'[q].need[t] <= x.body[t]
    BY <1>2 DEF Good
  <1>. QED BY <1>1, <1>3 DEF Good

(* What the database holds is good under every key not ahead of its        *)
(* endpoint's generation.                                                  *)
LEMMA DbIsGood ==
    ASSUME TypeOK, DbAhead, NEW c \in Replicas, NEW x \in Entries, x.body = db,
           x.gen <= gen[c][x.ep]
    PROVE  Good(c, x)
  <1>0. x.ep \in Endpoints /\ Reads[x.ep] \subseteq Tables
    BY CacheConstants DEF Entries
  <1>1. HasWrites(c, x)
    BY <1>0 DEF HasWrites, DbAhead, Bumps
  <1>2. \A q \in Readers : Asks(q, c, x) => \A t \in Reads[x.ep] : read[q].need[t] <= x.body[t]
    BY <1>0 DEF DbAhead, Asks
  <1>. QED BY <1>1, <1>2 DEF Good

(* A good body under a read's own key has what the read needs. *)
LEMMA GoodAnswers ==
    ASSUME NEW q \in Readers, NEW x, Good(read[q].at, x), read[q].pc # "idle",
           x.ep = read[q].ep, x.gen = read[q].gen, x.body # EmptyBody
    PROVE  \A t \in Reads[read[q].ep] : read[q].need[t] <= x.body[t]
  BY DEF Good, Asks

(* An entry stored next to good ones: both kinds are good. *)
LEMMA StoredMember ==
    ASSUME NEW S, NEW r, NEW x, NEW y \in Stored(S, r, x)
    PROVE  y \in S \/ y = x
  BY DEF Stored

(* What a read looks like after it moved to pc with body b. *)
PCs == InFlight \cup {"idle", "l1", "wait", "done"}
MovedAs(r, st, pc, b) ==
    /\ st \in ReadStates /\ st.pc = pc /\ st.body = b
    /\ st.at = read[r].at /\ st.ep = read[r].ep /\ st.gen = read[r].gen
    /\ st.need = read[r].need
(* One reader moves as get_or_compute moves it: the others stay as they are. *)
LEMMA Moved ==
    ASSUME TypeOK, NEW r \in Readers, NEW pc \in PCs, NEW b \in Bodies
    PROVE  MovedAs(r, [read[r] EXCEPT !.pc = pc, !.body = b], pc, b)
  <1>1. PICK old \in ReadStates : old = read[r]
    BY DEF TypeOK
  <1>2. PICK st : st = [old EXCEPT !.pc = pc, !.body = b]
    OBVIOUS
  <1>3. /\ st \in ReadStates /\ st.pc = pc /\ st.body = b
        /\ st.at = old.at /\ st.ep = old.ep /\ st.gen = old.gen /\ st.need = old.need
    BY <1>2 DEF ReadStates, PCs
  <1>. QED BY <1>1, <1>2, <1>3 DEF MovedAs

(* The same for a read that keeps the body it has. *)
LEMMA MovedOn ==
    ASSUME TypeOK, NEW r \in Readers, NEW pc \in PCs
    PROVE  MovedAs(r, [read[r] EXCEPT !.pc = pc], pc, read[r].body)
  <1>1. PICK old \in ReadStates : old = read[r]
    BY DEF TypeOK
  <1>2. PICK st : st = [old EXCEPT !.pc = pc]
    OBVIOUS
  <1>3. /\ st \in ReadStates /\ st.pc = pc /\ st.body = old.body
        /\ st.at = old.at /\ st.ep = old.ep /\ st.gen = old.gen /\ st.need = old.need
    BY <1>2 DEF ReadStates, PCs
  <1>. QED BY <1>1, <1>2, <1>3 DEF MovedAs

(* The steps that touch no generation, acknowledgement or writer. *)
LEMMA ReadFrame ==
    ASSUME CacheInv, TypeOK', UNCHANGED <<db, gen, acked, write>>,
           \A q \in Readers : Keeps(q),
           \A c \in Replicas : \A y \in l1'[c] : y \in l1[c] \/ Good(c, y),
           \A y \in l2' : y \in l2 \/ (Redis /\ \A c \in Replicas : Good(c, y)),
           \A q \in Readers : read'[q].pc \in {"setex", "fill"} =>
             Good(read'[q].at, [ep |-> read'[q].ep, gen |-> read'[q].gen,
                                body |-> read'[q].body]),
           \A q \in Readers : read'[q].pc = "done" /\ read'[q].body # EmptyBody =>
             \A t \in Reads[read'[q].ep] : read'[q].need[t] <= read'[q].body[t]
    PROVE  CacheInv'
  <1>1. L1Good'
    <2>1. \A c \in Replicas : \A y \in l1'[c] : Good(c, y)
      BY DEF CacheInv, L1Good
    <2>2. \A c \in Replicas : \A y \in l1'[c] : Good(c, y)'
      BY <2>1, GoodFrame
    <2>. QED BY <2>2 DEF L1Good
  <1>2. L2Good'
    <2>1. \A c \in Replicas : \A y \in l2' : Good(c, y)
      BY DEF CacheInv, L2Good
    <2>2. \A c \in Replicas : \A y \in l2' : Good(c, y)'
      BY <2>1, GoodFrame
    <2>3. ~Redis => l2' = {}
      BY DEF CacheInv, L2Good
    <2>. QED BY <2>2, <2>3 DEF L2Good
  <1>3. FlightGood'
    <2>. SUFFICES ASSUME NEW q \in Readers, (read[q].pc \in {"setex", "fill"})'
                  PROVE  Good(read[q].at, EntryOf(q))'
      BY DEF FlightGood
    <2>1. PICK c, x : c = read'[q].at /\ x = EntryOf(q)'
      OBVIOUS
    <2>2. Good(c, x)
      BY <2>1 DEF EntryOf
    <2>3. Good(c, x)'
      BY <2>2, GoodFrame
    <2>. QED BY <2>1, <2>3
  <1>4. ReadersBehind'
    BY DEF CacheInv, ReadersBehind, Keeps
  <1>5. DbAhead'
    BY DEF CacheInv, DbAhead, Keeps
  <1>6. ReadsFresh'
    <2>. SUFFICES ASSUME NEW q \in Readers, read'[q].pc = "done", read'[q].body # EmptyBody,
                         NEW t \in Reads[read'[q].ep]
                  PROVE  read'[q].body[t] >= read'[q].need[t]
      BY DEF ReadsFresh
    <2>1. read'[q].at \in Replicas /\ read'[q].ep \in Endpoints
          /\ read'[q].need \in Bodies /\ read'[q].body \in Bodies
      BY DEF TypeOK, ReadStates
    <2>2. t \in Tables
      BY <2>1, CacheConstants
    <2>3. read'[q].need[t] \in Nat /\ read'[q].body[t] \in Nat
      BY <2>1, <2>2 DEF Bodies
    <2>4. read'[q].need[t] <= read'[q].body[t]
      OBVIOUS
    <2>. QED BY <2>3, <2>4
  <1>. QED BY <1>1, <1>2, <1>3, <1>4, <1>5, <1>6 DEF CacheInv

(* The same when one read moves on and the others rest. *)
LEMMA BecomesFrame ==
    ASSUME CacheInv, TypeOK', UNCHANGED <<db, gen, acked, write>>,
           NEW r \in Readers, NEW st \in ReadStates, Becomes(r, st),
           \/ st.pc = "idle"
           \/ /\ read[r].pc # "idle" /\ st.at = read[r].at /\ st.ep = read[r].ep
              /\ st.gen = read[r].gen /\ st.need = read[r].need,
           \A c \in Replicas : \A y \in l1'[c] : y \in l1[c] \/ Good(c, y),
           \A y \in l2' : y \in l2 \/ (Redis /\ \A c \in Replicas : Good(c, y)),
           st.pc \in {"setex", "fill"} =>
             Good(st.at, [ep |-> st.ep, gen |-> st.gen, body |-> st.body]),
           st.pc = "done" /\ st.body # EmptyBody =>
             \A t \in Reads[st.ep] : st.need[t] <= st.body[t]
    PROVE  CacheInv'
  <1>0. TypeOK /\ FlightGood /\ ReadsFresh
    BY DEF CacheInv
  <1>1. read'[r] = st /\ \A q \in Readers : q # r => read'[q] = read[q]
    BY <1>0 DEF Becomes, TypeOK
  <1>2. \A q \in Readers : Keeps(q)
    BY <1>1 DEF Keeps
  <1>3. \A q \in Readers : read'[q].pc \in {"setex", "fill"} =>
          Good(read'[q].at, [ep |-> read'[q].ep, gen |-> read'[q].gen,
                             body |-> read'[q].body])
    <2>. TAKE q \in Readers
    <2>1. CASE q = r
      BY <2>1, <1>1
    <2>2. CASE q # r
      BY <2>2, <1>0, <1>1 DEF FlightGood, EntryOf
    <2>. QED BY <2>1, <2>2
  <1>4. \A q \in Readers : read'[q].pc = "done" /\ read'[q].body # EmptyBody =>
          \A t \in Reads[read'[q].ep] : read'[q].need[t] <= read'[q].body[t]
    <2>. TAKE q \in Readers
    <2>1. CASE q = r
      BY <2>1, <1>1
    <2>2. CASE q # r
      <3>1. read[q].ep \in Endpoints /\ read[q].need \in Bodies /\ read[q].body \in Bodies
        BY ReadFields, <1>0
      <3>2. \A t \in Reads[read[q].ep] : read[q].need[t] \in Nat /\ read[q].body[t] \in Nat
        BY <3>1, CacheConstants DEF Bodies
      <3>3. read[q].pc = "done" /\ read[q].body # EmptyBody =>
              \A t \in Reads[read[q].ep] : read[q].body[t] >= read[q].need[t]
        BY <1>0 DEF ReadsFresh
      <3>4. read[q].pc = "done" /\ read[q].body # EmptyBody =>
              \A t \in Reads[read[q].ep] : read[q].need[t] <= read[q].body[t]
        BY <3>2, <3>3
      <3>. QED BY <2>2, <3>4, <1>1
    <2>. QED BY <2>1, <2>2
  <1>. QED BY <1>2, <1>3, <1>4, ReadFrame

(* A body stays good when no writer comes to the bumped state. *)
LEMMA WriterFrame ==
    ASSUME NEW c, NEW x, UNCHANGED <<gen, read, acked>>,
           \A w \in Writers : write'[w].pc = "bumped" => write'[w] = write[w],
           Good(c, x)
    PROVE  Good(c, x)'
  <1>1. HasWrites(c, x) => HasWrites(c, x)'
    BY DEF HasWrites, Bumps
  <1>2. \A q \in Readers : Asks(q, c, x)' => Asks(q, c, x)
    BY DEF Asks
  <1>. QED BY <1>1, <1>2 DEF Good

(* A body stays good when generations are bumped, for the writer that      *)
(* bumps them too: its table's endpoints have left the body behind.        *)
LEMMA BumpFrame ==
    ASSUME TypeOK, NEW d \in Replicas, NEW t \in Tables, gen' = Bumped(d, t),
           UNCHANGED <<read, acked>>,
           \A w \in Writers : \/ write'[w] = write[w]
                              \/ write'[w].at = d /\ write'[w].table = t,
           NEW c \in Replicas, NEW x \in Entries, Good(c, x)
    PROVE  Good(c, x)'
  <1>0. x.ep \in Endpoints /\ x.gen \in Nat
    BY DEF Entries
  <1>1. gen[c][x.ep] <= gen'[c][x.ep] /\ gen[c][x.ep] \in Nat /\ gen'[c][x.ep] \in Nat
    BY <1>0, BumpedType DEF TypeOK
  <1>2. x.gen <= gen'[c][x.ep]
    BY <1>0, <1>1 DEF Good
  <1>3. ASSUME x.gen = gen'[c][x.ep], x.body # EmptyBody PROVE HasWrites(c, x)'
    <2>1. x.gen = gen[c][x.ep]
      BY <1>0, <1>1, <1>3 DEF Good
    <2>2. HasWrites(c, x)
      BY <1>3, <2>1 DEF Good
    <2>3. ~(c = d /\ t \in Reads[x.ep])
      <3>. SUFFICES ASSUME c = d, t \in Reads[x.ep] PROVE FALSE
        OBVIOUS
      <3>1. gen[c][x.ep] < gen'[c][x.ep]
        BY <1>0, BumpedType
      <3>. QED BY <3>1, <2>1, <1>3, <1>1
    <2>4. ASSUME NEW u \in Reads[x.ep], NEW w \in Writers, Bumps(w, c, u)'
          PROVE  write'[w].ver <= x.body[u]
      <3>1. write'[w].at = c /\ write'[w].table = u /\ write'[w].pc = "bumped"
        BY <2>4 DEF Bumps
      <3>2. write'[w] = write[w]
        BY <3>1, <2>3
      <3>3. Bumps(w, c, u)
        BY <3>1, <3>2 DEF Bumps
      <3>. QED BY <3>3, <3>2, <2>2 DEF HasWrites
    <2>5. \A u \in Reads[x.ep] : acked'[c][u] <= x.body[u]
      BY <2>2 DEF HasWrites
    <2>. QED BY <2>4, <2>5 DEF HasWrites
  <1>4. \A q \in Readers : Asks(q, c, x)' => Asks(q, c, x)
    BY DEF Asks
  <1>. QED BY <1>2, <1>3, <1>4 DEF Good
-----------------------------------------------------------------------------
(* The parts of the invariant that hang on a body being good, carried over *)
(* a step that leaves the reads and the cached bodies alone.               *)
LEMMA BodiesFrame ==
    ASSUME CacheInv, UNCHANGED <<read, l1, l2>>,
           \A c \in Replicas, x \in Entries : Good(c, x) => Good(c, x)'
    PROVE  L1Good' /\ L2Good' /\ FlightGood' /\ ReadsFresh'
  <1>0. TypeOK /\ L1Good /\ L2Good /\ FlightGood /\ ReadsFresh
    BY DEF CacheInv
  <1>1. L1Good'
    <2>1. \A c \in Replicas : \A x \in l1[c] : Good(c, x)'
      BY <1>0 DEF L1Good, TypeOK
    <2>. QED BY <2>1 DEF L1Good
  <1>2. L2Good'
    <2>1. \A c \in Replicas : \A x \in l2 : Good(c, x)'
      BY <1>0 DEF L2Good, TypeOK
    <2>. QED BY <1>0, <2>1 DEF L2Good
  <1>3. FlightGood'
    <2>. SUFFICES ASSUME NEW q \in Readers, (read[q].pc \in {"setex", "fill"})'
                  PROVE  Good(read[q].at, EntryOf(q))'
      BY DEF FlightGood
    <2>1. PICK c, x : c = read[q].at /\ x = EntryOf(q)
      OBVIOUS
    <2>2. c \in Replicas /\ x \in Entries /\ Good(c, x)
      BY <2>1, <1>0, ReadFields DEF FlightGood
    <2>3. Good(c, x)'
      BY <2>2
    <2>4. c = read'[q].at /\ x = EntryOf(q)'
      BY <2>1 DEF EntryOf
    <2>. QED BY <2>3, <2>4
  <1>4. ReadsFresh'
    BY <1>0 DEF ReadsFresh
  <1>. QED BY <1>1, <1>2, <1>3, <1>4

(* A new read starts at the present generation, whose bodies all have what *)
(* it needs.                                                               *)
LEMMA StartKeeps ==
    ASSUME CacheInv, TypeOK', NEW r \in Readers, NEW c \in Replicas, NEW e \in Endpoints,
           StartRead(r, c, e)
    PROVE  CacheInv'
  <1>0. TypeOK /\ L1Good /\ L2Good /\ FlightGood /\ ReadersBehind /\ DbAhead /\ ReadsFresh
    BY DEF CacheInv
  <1>. PICK st : st = [pc |-> "l1", at |-> c, ep |-> e, gen |-> gen[c][e],
                       need |-> acked[c], body |-> EmptyBody]
    OBVIOUS
  <1>1. read'[r] = st /\ \A q \in Readers : q # r => read'[q] = read[q]
    BY <1>0 DEF StartRead, Becomes, TypeOK
  <1>2. UNCHANGED <<db, gen, l1, l2, chan, write, acked>>
    BY DEF StartRead, cacheVars
  <1>3. \A d \in Replicas, x \in Entries : Good(d, x) => Good(d, x)'
    <2>. SUFFICES ASSUME NEW d \in Replicas, NEW x \in Entries, Good(d, x)
                  PROVE  Good(d, x)'
      OBVIOUS
    <2>1. HasWrites(d, x) => HasWrites(d, x)'
      BY <1>2 DEF HasWrites, Bumps
    <2>2. ASSUME x.body # EmptyBody, NEW q \in Readers, Asks(q, d, x)', NEW t \in Reads[x.ep]
          PROVE  read'[q].need[t] <= x.body[t]
      <3>1. CASE q # r
        BY <3>1, <2>2, <1>1 DEF Asks, Good
      <3>2. CASE q = r
        <4>1. d = c /\ x.ep = e /\ x.gen = gen[c][e]
          BY <3>2, <2>2, <1>1 DEF Asks
        <4>2. acked[c][t] <= x.body[t]
          BY <4>1, <2>2 DEF Good, HasWrites
        <4>. QED BY <4>2, <3>2, <1>1
      <3>. QED BY <3>1, <3>2
    <2>. QED BY <2>1, <2>2, <1>2 DEF Good
  <1>4. L1Good'
    <2>1. \A d \in Replicas : \A x \in l1[d] : Good(d, x)'
      BY <1>0, <1>3 DEF L1Good, TypeOK
    <2>. QED BY <2>1, <1>2 DEF L1Good
  <1>5. L2Good'
    <2>1. \A d \in Replicas : \A x \in l2 : Good(d, x)'
      BY <1>0, <1>3 DEF L2Good, TypeOK
    <2>. QED BY <1>0, <1>2, <2>1 DEF L2Good
  <1>6. FlightGood'
    <2>. SUFFICES ASSUME NEW q \in Readers, (read[q].pc \in {"setex", "fill"})'
                  PROVE  Good(read[q].at, EntryOf(q))'
      BY DEF FlightGood
    <2>0. q # r
      BY <1>1
    <2>1. PICK d, x : d = read[q].at /\ x = EntryOf(q)
      OBVIOUS
    <2>2. d \in Replicas /\ x \in Entries /\ Good(d, x)
      BY <2>0, <2>1, <1>0, <1>1, ReadFields DEF FlightGood
    <2>3. Good(d, x)'
      BY <2>2, <1>3
    <2>4. d = read'[q].at /\ x = EntryOf(q)'
      BY <2>0, <2>1, <1>1 DEF EntryOf
    <2>. QED BY <2>3, <2>4
  <1>7. ReadersBehind'
    <2>1. gen[c][e] <= gen[c][e]
      BY <1>0 DEF TypeOK
    <2>. QED BY <2>1, <1>0, <1>1, <1>2 DEF ReadersBehind
  <1>8. DbAhead'
    <2>1. \A w \in Writers : write'[w].pc # "idle" => write'[w].ver <= db'[write'[w].table]
      BY <1>0, <1>2 DEF DbAhead
    <2>2. \A d \in Replicas : \A t \in Tables : acked'[d][t] <= db'[t]
      BY <1>0, <1>2 DEF DbAhead
    <2>3. ASSUME NEW q \in Readers, read'[q].pc # "idle", NEW t \in Tables
          PROVE  read'[q].need[t] <= db'[t]
      <3>1. CASE q = r
        BY <3>1, <1>0, <1>1, <1>2 DEF DbAhead
      <3>2. CASE q # r
        BY <3>2, <2>3, <1>0, <1>1, <1>2 DEF DbAhead
      <3>. QED BY <3>1, <3>2
    <2>. QED BY <2>1, <2>2, <2>3 DEF DbAhead
  <1>9. ReadsFresh'
    <2>1. st.pc # "done"
      OBVIOUS
    <2>. QED BY <2>1, <1>0, <1>1 DEF ReadsFresh
  <1>. QED BY <1>4, <1>5, <1>6, <1>7, <1>8, <1>9 DEF CacheInv

(* A read that finds its body in L1 answers with a good one. *)
LEMMA HitL1Keeps ==
    ASSUME CacheInv, TypeOK', NEW r \in Readers, HitL1(r)
    PROVE  CacheInv'
  <1>0. TypeOK /\ L1Good
    BY DEF CacheInv
  <1>1. read[r].at \in Replicas
    BY <1>0, ReadFields
  <1>2. PICK x \in Hits(l1[read[r].at], r) :
          Becomes(r, [read[r] EXCEPT !.pc = "done", !.body = x.body])
    BY DEF HitL1
  <1>3. x \in l1[read[r].at] /\ x \in Entries /\ x.ep = read[r].ep /\ x.gen = read[r].gen
    BY <1>0, <1>1 DEF Hits, Key, TypeOK
  <1>4. x.body # EmptyBody => \A t \in Reads[read[r].ep] : read[r].need[t] <= x.body[t]
    BY <1>0, <1>1, <1>3, GoodAnswers DEF L1Good, HitL1
  <1>5. PICK st : st = [read[r] EXCEPT !.pc = "done", !.body = x.body]
    OBVIOUS
  <1>6. /\ st \in ReadStates /\ st.pc = "done" /\ st.body = x.body
        /\ st.at = read[r].at /\ st.ep = read[r].ep /\ st.gen = read[r].gen
        /\ st.need = read[r].need
    <2>1. x.body \in Bodies
      BY <1>3 DEF Entries
    <2>3. "done" \in PCs
      BY DEF PCs, InFlight
    <2>2. MovedAs(r, st, "done", x.body)
      BY <2>1, <2>3, <1>0, <1>5, Moved, Zenon
    <2>. QED BY <2>2 DEF MovedAs
  <1>7. read[r].pc # "idle" /\ UNCHANGED <<db, gen, l1, l2, acked, write>>
    BY DEF HitL1, cacheVars
  <1>. QED BY <1>2, <1>4, <1>5, <1>6, <1>7, BecomesFrame

(* A read that misses, in L1 or in L2, moves on without a body. *)
LEMMA MissKeeps ==
    ASSUME CacheInv, TypeOK', NEW r \in Readers, MissL1(r) \/ MissL2(r)
    PROVE  CacheInv'
  <1>0. TypeOK
    BY DEF CacheInv
  <1>1. PICK pc \in {"wait", "l2", "query"} : Becomes(r, [read[r] EXCEPT !.pc = pc])
    BY DEF MissL1, MissL2
  <1>2. PICK st : st = [read[r] EXCEPT !.pc = pc]
    OBVIOUS
  <1>3. /\ st \in ReadStates /\ st.pc = pc
        /\ st.at = read[r].at /\ st.ep = read[r].ep /\ st.gen = read[r].gen
        /\ st.need = read[r].need
    <2>1. pc \in PCs
      BY DEF PCs, InFlight
    <2>2. MovedAs(r, st, pc, read[r].body)
      BY <2>1, <1>0, <1>2, MovedOn, Zenon
    <2>. QED BY <2>2 DEF MovedAs
  <1>4. read[r].pc # "idle" /\ UNCHANGED <<db, gen, l1, l2, acked, write>>
    BY DEF MissL1, MissL2, cacheVars
  <1>. QED BY <1>1, <1>2, <1>3, <1>4, BecomesFrame

(* A body from L2 is good on the replica that reads it. *)
LEMMA HitL2Keeps ==
    ASSUME CacheInv, TypeOK', NEW r \in Readers, HitL2(r)
    PROVE  CacheInv'
  <1>0. TypeOK /\ L2Good
    BY DEF CacheInv
  <1>1. read[r].at \in Replicas
    BY <1>0, ReadFields
  <1>2. PICK x \in Hits(l2, r) :
          Becomes(r, [read[r] EXCEPT !.pc = "fill", !.body = x.body])
    BY DEF HitL2
  <1>3. x \in l2 /\ x \in Entries /\ x.ep = read[r].ep /\ x.gen = read[r].gen
    BY <1>0 DEF Hits, Key, TypeOK
  <1>4. x = [ep |-> x.ep, gen |-> x.gen, body |-> x.body] /\ Good(read[r].at, x)
    BY <1>0, <1>1, <1>3 DEF L2Good, Entries
  <1>5. PICK st : st = [read[r] EXCEPT !.pc = "fill", !.body = x.body]
    OBVIOUS
  <1>6. /\ st \in ReadStates /\ st.pc = "fill" /\ st.body = x.body
        /\ st.at = read[r].at /\ st.ep = read[r].ep /\ st.gen = read[r].gen
        /\ st.need = read[r].need
    <2>1. x.body \in Bodies
      BY <1>3 DEF Entries
    <2>3. "fill" \in PCs
      BY DEF PCs, InFlight
    <2>2. MovedAs(r, st, "fill", x.body)
      BY <2>1, <2>3, <1>0, <1>5, Moved, Zenon
    <2>. QED BY <2>2 DEF MovedAs
  <1>7. read[r].pc # "idle" /\ UNCHANGED <<db, gen, l1, l2, acked, write>>
    BY DEF HitL2, cacheVars
  <1>8. Good(st.at, [ep |-> st.ep, gen |-> st.gen, body |-> st.body])
    BY <1>3, <1>4, <1>6
  <1>. QED BY <1>2, <1>5, <1>6, <1>7, <1>8, BecomesFrame

(* A query's body is the database's. *)
LEMMA QueryKeeps ==
    ASSUME CacheInv, TypeOK', NEW r \in Readers, Query(r)
    PROVE  CacheInv'
  <1>0. TypeOK /\ DbAhead /\ ReadersBehind
    BY DEF CacheInv
  <1>1. /\ read[r].at \in Replicas /\ read[r].ep \in Endpoints /\ read[r].gen \in Nat
        /\ db \in Bodies
    BY <1>0, ReadFields DEF TypeOK
  <1>2. PICK pc \in {"setex"} : Becomes(r, [read[r] EXCEPT !.pc = pc, !.body = db])
    BY DEF Query
  <1>3. PICK st : st = [read[r] EXCEPT !.pc = pc, !.body = db]
    OBVIOUS
  <1>4. /\ st \in ReadStates /\ st.pc = pc /\ st.body = db
        /\ st.at = read[r].at /\ st.ep = read[r].ep /\ st.gen = read[r].gen
        /\ st.need = read[r].need
    <2>1. pc \in PCs
      BY DEF PCs, InFlight
    <2>2. MovedAs(r, st, pc, db)
      BY <2>1, <1>0, <1>1, <1>3, Moved, Zenon
    <2>. QED BY <2>2 DEF MovedAs
  <1>5. read[r].pc # "idle" /\ UNCHANGED <<db, gen, l1, l2, acked, write>>
    BY DEF Query, cacheVars
  <1>6. PICK x : x = [ep |-> st.ep, gen |-> st.gen, body |-> st.body]
    OBVIOUS
  <1>7. x \in Entries /\ x.body = db /\ x.gen <= gen[st.at][x.ep]
    BY <1>0, <1>1, <1>4, <1>5, <1>6 DEF Entries, ReadersBehind
  <1>8. Good(st.at, x)
    BY <1>0, <1>1, <1>4, <1>7, DbIsGood
  <1>. QED BY <1>2, <1>3, <1>4, <1>5, <1>6, <1>8, BecomesFrame

(* The [] of a query that timed out has nothing to be stale about. *)
LEMMA TimeoutKeeps ==
    ASSUME CacheInv, TypeOK', NEW r \in Readers, QueryTimesOut(r)
    PROVE  CacheInv'
  <1>0. TypeOK /\ ReadersBehind
    BY DEF CacheInv
  <1>1. /\ read[r].at \in Replicas /\ read[r].ep \in Endpoints /\ read[r].gen \in Nat
        /\ EmptyBody \in Bodies
    BY <1>0, ReadFields DEF EmptyBody, Bodies
  <1>2. PICK pc \in {"setex"} : Becomes(r, [read[r] EXCEPT !.pc = pc, !.body = EmptyBody])
    BY DEF QueryTimesOut
  <1>3. PICK st : st = [read[r] EXCEPT !.pc = pc, !.body = EmptyBody]
    OBVIOUS
  <1>4. /\ st \in ReadStates /\ st.pc = pc /\ st.body = EmptyBody
        /\ st.at = read[r].at /\ st.ep = read[r].ep /\ st.gen = read[r].gen
        /\ st.need = read[r].need
    <2>1. pc \in PCs
      BY DEF PCs, InFlight
    <2>2. MovedAs(r, st, pc, EmptyBody)
      BY <2>1, <1>0, <1>1, <1>3, Moved, Zenon
    <2>. QED BY <2>2 DEF MovedAs
  <1>5. read[r].pc # "idle" /\ UNCHANGED <<db, gen, l1, l2, acked, write>>
    BY DEF QueryTimesOut, cacheVars
  <1>6. PICK x : x = [ep |-> st.ep, gen |-> st.gen, body |-> st.body]
    OBVIOUS
  <1>7. x.body = EmptyBody /\ x.gen <= gen[st.at][x.ep]
    BY <1>0, <1>1, <1>4, <1>5, <1>6 DEF ReadersBehind
  <1>8. Good(st.at, x)
    BY <1>7 DEF Good
  <1>. QED BY <1>2, <1>3, <1>4, <1>5, <1>6, <1>8, BecomesFrame

(* SETEX puts a good body into L2, where only this replica finds it. *)
LEMMA SetExKeeps ==
    ASSUME CacheInv, TypeOK', Alone, NEW r \in Readers, SetEx(r)
    PROVE  CacheInv'
  <1>0. TypeOK /\ FlightGood
    BY DEF CacheInv
  <1>1. read[r].at \in Replicas /\ Good(read[r].at, EntryOf(r))
    BY <1>0, ReadFields DEF FlightGood, SetEx
  <1>2. Redis => \A c \in Replicas : Good(c, EntryOf(r))
    BY <1>1 DEF Alone
  <1>3. \A y \in l2' : y \in l2 \/ (Redis /\ y = EntryOf(r))
    BY StoredMember DEF SetEx
  <1>4. PICK st : st = [read[r] EXCEPT !.pc = "fill"]
    OBVIOUS
  <1>5. /\ st \in ReadStates /\ st.pc = "fill" /\ st.body = read[r].body
        /\ st.at = read[r].at /\ st.ep = read[r].ep /\ st.gen = read[r].gen
        /\ st.need = read[r].need
    <2>1. "fill" \in PCs
      BY DEF PCs, InFlight
    <2>2. MovedAs(r, st, "fill", read[r].body)
      BY <2>1, <1>0, <1>4, MovedOn, Zenon
    <2>. QED BY <2>2 DEF MovedAs
  <1>6. /\ read[r].pc # "idle" /\ Becomes(r, st)
        /\ UNCHANGED <<db, gen, l1, acked, write>>
    BY <1>4 DEF SetEx
  <1>7. Good(st.at, [ep |-> st.ep, gen |-> st.gen, body |-> st.body])
    BY <1>1, <1>5 DEF EntryOf
  <1>. QED BY <1>2, <1>3, <1>5, <1>6, <1>7, BecomesFrame

(* A filled body is good for everyone who waited for it. *)
LEMMA FillKeeps ==
    ASSUME CacheInv, TypeOK', NEW r \in Readers, Fill(r)
    PROVE  CacheInv'
  <1>0. TypeOK /\ FlightGood /\ ReadsFresh
    BY DEF CacheInv
  <1>1. PICK c, x : c = read[r].at /\ x = EntryOf(r)
    OBVIOUS
  <1>2. c \in Replicas /\ x \in Entries /\ Good(c, x)
    BY <1>0, <1>1, ReadFields DEF FlightGood, Fill
  <1>3. x.ep = read[r].ep /\ x.gen = read[r].gen /\ x.body = read[r].body
    BY <1>1 DEF EntryOf
  <1>4. \A d \in Replicas : \A y \in l1'[d] : y \in l1[d] \/ Good(d, y)
    <2>. SUFFICES ASSUME NEW d \in Replicas, NEW y \in l1'[d] PROVE y \in l1[d] \/ Good(d, y)
      OBVIOUS
    <2>1. CASE d = c
      <3>1. l1'[c] = Stored(l1[c], r, x)
        BY <1>0, <1>1, <1>2 DEF Fill, TypeOK
      <3>. QED BY <3>1, <2>1, <1>2, StoredMember
    <2>2. CASE d # c
      BY <2>2, <1>0, <1>1 DEF Fill, TypeOK
    <2>. QED BY <2>1, <2>2
  <1>5. ASSUME NEW q \in Readers
        PROVE  \/ read'[q] = read[q] /\ q # r
               \/ /\ MovedAs(q, read'[q], "done", x.body)
                  /\ read[q].pc # "idle" /\ read[q].at = c
                  /\ read[q].ep = x.ep /\ read[q].gen = x.gen
    <2>0. x.body \in Bodies /\ "done" \in PCs
      BY <1>2 DEF Entries, PCs
    <2>1. CASE q = r \/ Waits(q, r)
      <3>1. read'[q] = [read[q] EXCEPT !.pc = "done", !.body = x.body]
        BY <2>1, <1>3 DEF Fill
      <3>2. MovedAs(q, read'[q], "done", x.body)
        <4>1. MovedAs(q, [read[q] EXCEPT !.pc = "done", !.body = x.body], "done", x.body)
          BY <2>0, <1>0, Moved
        <4>. QED BY <4>1, <3>1
      <3>3. read[q].pc # "idle" /\ read[q].at = c /\ read[q].ep = x.ep /\ read[q].gen = x.gen
        BY <2>1, <1>1, <1>3 DEF Fill, Waits, SameKey, Key
      <3>. QED BY <3>2, <3>3
    <2>2. CASE ~(q = r \/ Waits(q, r))
      BY <2>2 DEF Fill
    <2>. QED BY <2>1, <2>2
  <1>6. \A q \in Readers : Keeps(q)
    BY <1>5 DEF Keeps, MovedAs
  <1>7. \A q \in Readers : read'[q].pc \in {"setex", "fill"} =>
          Good(read'[q].at, [ep |-> read'[q].ep, gen |-> read'[q].gen, body |-> read'[q].body])
    <2>. TAKE q \in Readers
    <2>1. CASE read'[q] = read[q]
      BY <2>1, <1>0 DEF FlightGood, EntryOf
    <2>2. CASE read'[q].pc = "done"
      BY <2>2
    <2>. QED BY <2>1, <2>2, <1>5 DEF MovedAs
  <1>8. ASSUME NEW q \in Readers, read'[q].pc = "done", read'[q].body # EmptyBody
        PROVE  \A t \in Reads[read'[q].ep] : read'[q].need[t] <= read'[q].body[t]
    <2>1. CASE read'[q] = read[q]
      <3>1. read[q].ep \in Endpoints /\ read[q].need \in Bodies /\ read[q].body \in Bodies
        BY ReadFields, <1>0
      <3>2. \A t \in Reads[read[q].ep] : read[q].need[t] \in Nat /\ read[q].body[t] \in Nat
        BY <3>1, CacheConstants DEF Bodies
      <3>3. \A t \in Reads[read[q].ep] : read[q].body[t] >= read[q].need[t]
        BY <1>0, <1>8, <2>1 DEF ReadsFresh
      <3>4. \A t \in Reads[read[q].ep] : read[q].need[t] <= read[q].body[t]
        BY <3>2, <3>3
      <3>. QED BY <2>1, <3>4
    <2>2. CASE MovedAs(q, read'[q], "done", x.body) /\ read[q].pc # "idle" /\ read[q].at = c
               /\ read[q].ep = x.ep /\ read[q].gen = x.gen
      <3>1. \A t \in Reads[read[q].ep] : read[q].need[t] <= x.body[t]
        BY <2>2, <1>2, <1>8, GoodAnswers DEF MovedAs
      <3>. QED BY <3>1, <2>2 DEF MovedAs
    <2>. QED BY <2>1, <2>2, <1>5
  <1>9. UNCHANGED <<db, gen, l2, acked, write>>
    BY DEF Fill
  <1>. QED BY <1>4, <1>6, <1>7, <1>8, <1>9, ReadFrame

(* A read that fails, is cancelled, starts over, or is answered leaves no  *)
(* body behind.                                                            *)
LEMMA EndKeeps ==
    ASSUME CacheInv, TypeOK', NEW r \in Readers,
           QueryFails(r) \/ CancelRead(r) \/ Respond(r)
    PROVE  CacheInv'
  <1>0. TypeOK /\ FlightGood /\ ReadsFresh
    BY DEF CacheInv
  <1>1. ASSUME NEW q \in Readers
        PROVE  \/ read'[q] = read[q]
               \/ read'[q].pc = "idle"
               \/ read[q].pc # "idle" /\ MovedAs(q, read'[q], "l1", read[q].body)
    <2>1. \/ read'[q] = read[q]
          \/ read'[q] = IdleRead
          \/ read[q].pc # "idle" /\ read'[q] = [read[q] EXCEPT !.pc = "l1"]
      BY <1>0 DEF QueryFails, CancelRead, Respond, Becomes, Waits, TypeOK
    <2>2. MovedAs(q, [read[q] EXCEPT !.pc = "l1"], "l1", read[q].body)
      BY <1>0, MovedOn DEF PCs
    <2>3. IdleRead.pc = "idle"
      BY DEF IdleRead
    <2>. QED BY <2>1, <2>2, <2>3
  <1>2. \A q \in Readers : Keeps(q)
    BY <1>1 DEF Keeps, MovedAs
  <1>3. \A q \in Readers : read'[q].pc \in {"setex", "fill"} =>
          Good(read'[q].at, [ep |-> read'[q].ep, gen |-> read'[q].gen, body |-> read'[q].body])
    BY <1>0, <1>1 DEF FlightGood, EntryOf, MovedAs
  <1>4. ASSUME NEW q \in Readers, read'[q].pc = "done", read'[q].body # EmptyBody
        PROVE  \A t \in Reads[read'[q].ep] : read'[q].need[t] <= read'[q].body[t]
    <2>1. read'[q] = read[q]
      BY <1>1, <1>4 DEF MovedAs
    <2>2. read[q].ep \in Endpoints /\ read[q].need \in Bodies /\ read[q].body \in Bodies
      BY ReadFields, <1>0
    <2>3. \A t \in Reads[read[q].ep] : read[q].need[t] \in Nat /\ read[q].body[t] \in Nat
      BY <2>2, CacheConstants DEF Bodies
    <2>4. \A t \in Reads[read[q].ep] : read[q].body[t] >= read[q].need[t]
      BY <1>0, <1>4, <2>1 DEF ReadsFresh
    <2>5. \A t \in Reads[read[q].ep] : read[q].need[t] <= read[q].body[t]
      BY <2>3, <2>4
    <2>. QED BY <2>1, <2>5
  <1>5. UNCHANGED <<db, gen, l1, l2, acked, write>>
    BY DEF QueryFails, CancelRead, Respond, cacheVars
  <1>. QED BY <1>2, <1>3, <1>4, <1>5, ReadFrame

(* A commit, and a writer whose client goes away, disturb no body. *)
LEMMA WriterKeeps ==
    ASSUME CacheInv, TypeOK', NEW w \in Writers,
           \/ CancelWrite(w)
           \/ \E c \in Replicas, t \in Tables : Commit(w, c, t)
    PROVE  CacheInv'
  <1>0. TypeOK /\ ReadersBehind /\ DbAhead
    BY DEF CacheInv
  <1>1. UNCHANGED <<gen, l1, l2, read, acked>>
    BY DEF CancelWrite, Commit, cacheVars
  <1>2. IdleWrite.pc = "idle"
    BY DEF IdleWrite
  <1>3. \A v \in Writers : write'[v] = write[v] \/ (v = w /\ write'[w].pc \in {"idle", "committed"})
    BY <1>0, <1>2 DEF CancelWrite, Commit, TypeOK
  <1>4. \A c \in Replicas, x \in Entries : Good(c, x) => Good(c, x)'
    BY <1>1, <1>3, WriterFrame
  <1>5. ReadersBehind'
    BY <1>0, <1>1 DEF ReadersBehind
  <1>6. \A t \in Tables : db[t] <= db'[t] /\ db[t] \in Nat /\ db'[t] \in Nat
    <2>1. \A t \in Tables : db[t] \in Nat
      BY <1>0 DEF TypeOK, Bodies
    <2>2. CASE CancelWrite(w)
      BY <2>1, <2>2 DEF CancelWrite
    <2>3. ASSUME NEW c \in Replicas, NEW t \in Tables, Commit(w, c, t)
          PROVE  \A u \in Tables : db[u] <= db'[u] /\ db'[u] \in Nat
      BY <2>1, <2>3, <1>0 DEF Commit, TypeOK, Bodies
    <2>. QED BY <2>1, <2>2, <2>3
  <1>7. DbAhead'
    <2>1. \A c \in Replicas : \A t \in Tables : acked'[c][t] <= db'[t]
      <3>. TAKE c \in Replicas
      <3>. TAKE t \in Tables
      <3>1. acked[c][t] \in Nat
        BY <1>0 DEF TypeOK, Bodies
      <3>. QED BY <3>1, <1>0, <1>1, <1>6 DEF DbAhead
    <2>2. ASSUME NEW v \in Writers, write'[v].pc # "idle"
          PROVE  write'[v].ver <= db'[write'[v].table]
      <3>1. CASE write'[v] = write[v]
        <4>1. write[v].table \in Tables /\ write[v].ver \in Nat
          BY <1>0 DEF TypeOK, WriteStates
        <4>. QED BY <4>1, <3>1, <2>2, <1>0, <1>6 DEF DbAhead
      <3>2. CASE write'[v] # write[v]
        <4>1. v = w
          BY <3>2, <1>3
        <4>2. PICK c \in Replicas, t \in Tables : Commit(w, c, t)
          BY <4>1, <2>2, <1>0, <1>2 DEF CancelWrite, TypeOK
        <4>3. write'[w] = [pc |-> "committed", at |-> c, table |-> t, ver |-> db[t] + 1]
          BY <4>2, <1>0 DEF Commit, TypeOK
        <4>4. db'[t] = db[t] + 1
          BY <4>2, <1>0 DEF Commit, TypeOK, Bodies
        <4>5. write'[w].ver = db'[t] /\ write'[w].table = t
          BY <4>3, <4>4
        <4>. QED BY <4>1, <4>5, <1>6
      <3>. QED BY <3>1, <3>2
    <2>3. ASSUME NEW q \in Readers, read'[q].pc # "idle", NEW t \in Tables
          PROVE  read'[q].need[t] <= db'[t]
      <3>1. read[q].need[t] \in Nat
        BY <1>0, ReadFields DEF Bodies
      <3>2. read[q].need[t] <= db[t]
        BY <2>3, <1>0, <1>1 DEF DbAhead
      <3>. QED BY <3>1, <3>2, <1>1, <1>6
    <2>. QED BY <2>1, <2>2, <2>3 DEF DbAhead
  <1>. QED BY <1>1, <1>4, <1>5, <1>7, BodiesFrame DEF CacheInv

(* Bumping generations, by the writer or by the listener. *)
LEMMA BumpKeeps ==
    ASSUME CacheInv, TypeOK', NEW d \in Replicas, NEW t \in Tables, gen' = Bumped(d, t),
           UNCHANGED <<db, l1, l2, read, acked>>,
           \A w \in Writers : \/ write'[w] = write[w]
                              \/ /\ write'[w].at = d /\ write'[w].table = t
                                 /\ write'[w].ver = write[w].ver
                                 /\ write[w].table = t /\ write[w].pc # "idle"
    PROVE  CacheInv'
  <1>0. TypeOK /\ ReadersBehind /\ DbAhead
    BY DEF CacheInv
  <1>1. \A c \in Replicas, x \in Entries : Good(c, x) => Good(c, x)'
    BY <1>0, BumpFrame
  <1>2. ReadersBehind'
    <2>. SUFFICES ASSUME NEW r \in Readers, read'[r].pc # "idle"
                  PROVE  read'[r].gen <= gen'[read'[r].at][read'[r].ep]
      BY DEF ReadersBehind
    <2>1. read[r].at \in Replicas /\ read[r].ep \in Endpoints /\ read[r].gen \in Nat
      BY <1>0, ReadFields
    <2>2. gen[read[r].at][read[r].ep] <= gen'[read[r].at][read[r].ep]
      BY <2>1, <1>0, BumpedType
    <2>3. gen[read[r].at][read[r].ep] \in Nat /\ gen'[read[r].at][read[r].ep] \in Nat
      BY <2>1, <1>0 DEF TypeOK
    <2>4. read[r].gen <= gen[read[r].at][read[r].ep]
      BY <1>0 DEF ReadersBehind
    <2>. QED BY <2>1, <2>2, <2>3, <2>4
  <1>3. DbAhead'
    BY <1>0 DEF DbAhead
  <1>. QED BY <1>1, <1>2, <1>3, BodiesFrame DEF CacheInv

(* A writer bumps before it is answered. *)
LEMMA InvalidateKeeps ==
    ASSUME CacheInv, TypeOK', NEW w \in Writers, InvalidateLocal(w)
    PROVE  CacheInv'
  <1>0. TypeOK
    BY DEF CacheInv
  <1>1. PICK d, t : d = write[w].at /\ t = write[w].table
    OBVIOUS
  <1>2. d \in Replicas /\ t \in Tables /\ gen' = Bumped(d, t) /\ write[w].pc # "idle"
    BY <1>0, <1>1 DEF TypeOK, WriteStates, InvalidateLocal
  <1>3. /\ write'[w].at = d /\ write'[w].table = t /\ write'[w].ver = write[w].ver
        /\ \A v \in Writers : v # w => write'[v] = write[v]
    BY <1>0, <1>1 DEF TypeOK, WriteStates, InvalidateLocal
  <1>4. UNCHANGED <<db, l1, l2, read, acked>>
    BY DEF InvalidateLocal
  <1>5. \A v \in Writers : \/ write'[v] = write[v]
                           \/ /\ write'[v].at = d /\ write'[v].table = t
                              /\ write'[v].ver = write[v].ver
                              /\ write[v].table = t /\ write[v].pc # "idle"
    BY <1>1, <1>2, <1>3
  <1>. QED BY <1>2, <1>4, <1>5, BumpKeeps

(* The acknowledgement: every body of the present generation has the       *)
(* version, because the writer bumped first.                               *)
LEMMA AckKeeps ==
    ASSUME CacheInv, TypeOK', NEW w \in Writers, PublishAndAck(w)
    PROVE  CacheInv'
  <1>0. TypeOK /\ ReadersBehind /\ DbAhead
    BY DEF CacheInv
  <1>1. PICK d, t, v : d = write[w].at /\ t = write[w].table /\ v = write[w].ver
    OBVIOUS
  <1>2. d \in Replicas /\ t \in Tables /\ v \in Nat /\ Bumps(w, d, t)
    BY <1>0, <1>1 DEF TypeOK, WriteStates, PublishAndAck, Bumps
  <1>3. UNCHANGED <<db, gen, l1, l2, read>>
    BY DEF PublishAndAck
  <1>4. \A u \in Writers : write'[u] = write[u] \/ (u = w /\ write'[u].pc = "idle")
    BY <1>0 DEF PublishAndAck, TypeOK, IdleWrite
  <1>5. \A c \in Replicas, u \in Tables :
          \/ acked'[c][u] = acked[c][u]
          \/ c = d /\ u = t /\ acked'[c][u] = v
    BY <1>0, <1>1, <1>2 DEF PublishAndAck, TypeOK, Bodies
  <1>6. \A c \in Replicas, x \in Entries : Good(c, x) => Good(c, x)'
    <2>. SUFFICES ASSUME NEW c \in Replicas, NEW x \in Entries, Good(c, x)
                  PROVE  Good(c, x)'
      OBVIOUS
    <2>1. ASSUME HasWrites(c, x), NEW u \in Reads[x.ep]
          PROVE  /\ acked'[c][u] <= x.body[u]
                 /\ \A q \in Writers : Bumps(q, c, u)' => write'[q].ver <= x.body[u]
      <3>0. u \in Tables
        BY CacheConstants DEF Entries
      <3>1. acked'[c][u] <= x.body[u]
        BY <3>0, <2>1, <1>1, <1>2, <1>5 DEF HasWrites
      <3>2. \A q \in Writers : Bumps(q, c, u)' => write'[q].ver <= x.body[u]
        BY <2>1, <1>4 DEF HasWrites, Bumps
      <3>. QED BY <3>1, <3>2
    <2>2. HasWrites(c, x) => HasWrites(c, x)'
      BY <2>1 DEF HasWrites
    <2>3. \A q \in Readers : Asks(q, c, x)' => Asks(q, c, x)
      BY <1>3 DEF Asks
    <2>. QED BY <2>2, <2>3, <1>3 DEF Good
  <1>7. ReadersBehind'
    BY <1>0, <1>3 DEF ReadersBehind
  <1>8. DbAhead'
    <2>1. v <= db[t]
      BY <1>0, <1>1, <1>2 DEF DbAhead, Bumps
    <2>2. \A c \in Replicas : \A u \in Tables : acked'[c][u] <= db'[u]
      BY <2>1, <1>0, <1>3, <1>5 DEF DbAhead
    <2>3. \A u \in Writers : write'[u].pc # "idle" => write'[u].ver <= db'[write'[u].table]
      BY <1>0, <1>3, <1>4 DEF DbAhead
    <2>4. \A r \in Readers : read'[r].pc # "idle" => \A u \in Tables : read'[r].need[u] <= db'[u]
      BY <1>0, <1>3 DEF DbAhead
    <2>. QED BY <2>2, <2>3, <2>4 DEF DbAhead
  <1>. QED BY <1>3, <1>6, <1>7, <1>8, BodiesFrame DEF CacheInv

(* A restarted replica has no bodies, and without Redis nobody keeps any   *)
(* for it; the others do not notice.                                       *)
LEMMA RestartKeeps ==
    ASSUME CacheInv, TypeOK', Alone, NEW c \in Replicas, Restart(c)
    PROVE  CacheInv'
  <1>0. TypeOK /\ L1Good /\ L2Good /\ FlightGood /\ ReadersBehind /\ DbAhead /\ ReadsFresh
    BY DEF CacheInv
  <1>1. ~Redis
    <2>1. faults.restarts \in Nat /\ faults.restarts < MaxRestarts
      BY <1>0 DEF TypeOK, Restart
    <2>. QED BY <2>1, CacheConstants DEF Alone
  <1>2. l2' = {}
    BY <1>0, <1>1 DEF L2Good, Restart
  <1>3. \A d \in Replicas : d # c => gen'[d] = gen[d] /\ l1'[d] = l1[d]
    BY <1>0 DEF Restart, TypeOK
  <1>4. l1'[c] = {}
    BY <1>0 DEF Restart, TypeOK
  <1>5. \A q \in Readers : read'[q].pc = "idle" \/ (read'[q] = read[q] /\ read[q].at # c)
    BY <1>0 DEF Restart, IdleRead
  <1>6. \A w \in Writers : write'[w].pc = "idle" \/ (write'[w] = write[w] /\ write[w].at # c)
    BY <1>0 DEF Restart, IdleWrite
  <1>7. UNCHANGED <<db, acked>>
    BY DEF Restart
  <1>8. ASSUME NEW d \in Replicas, d # c, NEW x \in Entries, Good(d, x)
        PROVE  Good(d, x)'
    <2>1. HasWrites(d, x) => HasWrites(d, x)'
      BY <1>6, <1>7 DEF HasWrites, Bumps
    <2>2. \A q \in Readers : Asks(q, d, x)' => Asks(q, d, x) /\ read'[q] = read[q]
      BY <1>5 DEF Asks
    <2>. QED BY <2>1, <2>2, <1>3, <1>8 DEF Good
  <1>9. L1Good'
    <2>1. \A d \in Replicas : \A x \in l1'[d] : Good(d, x)'
      BY <1>0, <1>3, <1>4, <1>8 DEF L1Good, TypeOK
    <2>. QED BY <2>1 DEF L1Good
  <1>10. L2Good'
    BY <1>2 DEF L2Good
  <1>11. FlightGood'
    <2>. SUFFICES ASSUME NEW q \in Readers, (read[q].pc \in {"setex", "fill"})'
                  PROVE  Good(read[q].at, EntryOf(q))'
      BY DEF FlightGood
    <2>0. read'[q] = read[q] /\ read[q].at # c
      BY <1>5
    <2>1. PICK d, x : d = read[q].at /\ x = EntryOf(q)
      OBVIOUS
    <2>2. d \in Replicas /\ d # c /\ x \in Entries /\ Good(d, x)
      BY <2>0, <2>1, <1>0, ReadFields DEF FlightGood
    <2>3. Good(d, x)'
      BY <2>2, <1>8
    <2>4. d = read'[q].at /\ x = EntryOf(q)'
      BY <2>0, <2>1 DEF EntryOf
    <2>. QED BY <2>3, <2>4
  <1>12. ReadersBehind'
    <2>. SUFFICES ASSUME NEW q \in Readers, read'[q].pc # "idle"
                  PROVE  read'[q].gen <= gen'[read'[q].at][read'[q].ep]
      BY DEF ReadersBehind
    <2>1. read'[q] = read[q] /\ read[q].at # c /\ read[q].at \in Replicas
      BY <1>0, <1>5, ReadFields
    <2>. QED BY <2>1, <1>0, <1>3 DEF ReadersBehind
  <1>13. DbAhead'
    BY <1>0, <1>5, <1>6, <1>7 DEF DbAhead
  <1>14. ReadsFresh'
    BY <1>0, <1>5 DEF ReadsFresh
  <1>. QED BY <1>9, <1>10, <1>11, <1>12, <1>13, <1>14 DEF CacheInv

(* Evictions and lost messages only take bodies and bumps away. *)
LEMMA LossKeeps ==
    ASSUME CacheInv, TypeOK',
           UNCHANGED <<db, gen, read, write, acked>>,
           \A c \in Replicas : l1'[c] \subseteq l1[c], l2' \subseteq l2
    PROVE  CacheInv'
  <1>0. TypeOK /\ FlightGood /\ ReadsFresh
    BY DEF CacheInv
  <1>1. \A q \in Readers : Keeps(q)
    BY DEF Keeps
  <1>2. \A q \in Readers : read'[q].pc \in {"setex", "fill"} =>
          Good(read'[q].at, [ep |-> read'[q].ep, gen |-> read'[q].gen, body |-> read'[q].body])
    BY <1>0 DEF FlightGood, EntryOf
  <1>3. \A q \in Readers : read'[q].pc = "done" /\ read'[q].body # EmptyBody =>
          \A t \in Reads[read'[q].ep] : read'[q].need[t] <= read'[q].body[t]
    <2>. TAKE q \in Readers
    <2>1. read[q].ep \in Endpoints /\ read[q].need \in Bodies /\ read[q].body \in Bodies
      BY ReadFields, <1>0
    <2>2. \A t \in Reads[read[q].ep] : read[q].need[t] \in Nat /\ read[q].body[t] \in Nat
      BY <2>1, CacheConstants DEF Bodies
    <2>3. read[q].pc = "done" /\ read[q].body # EmptyBody =>
            \A t \in Reads[read[q].ep] : read[q].body[t] >= read[q].need[t]
      BY <1>0 DEF ReadsFresh
    <2>. QED BY <2>2, <2>3
  <1>. QED BY <1>1, <1>2, <1>3, ReadFrame

(* The invariant holds at the start. *)
LEMMA CacheInvInit == Init => CacheInv
  <1>. SUFFICES ASSUME Init PROVE CacheInv
    OBVIOUS
  <1>1. TypeOK
    BY TypeInit
  <1>2. \A r \in Readers : read[r].pc = "idle"
    BY DEF Init, IdleRead
  <1>3. \A w \in Writers : write[w].pc = "idle"
    BY DEF Init, IdleWrite
  <1>4. L1Good /\ L2Good
    BY DEF Init, L1Good, L2Good
  <1>5. DbAhead
    BY <1>2, <1>3 DEF Init, DbAhead, EmptyBody
  <1>. QED BY <1>1, <1>2, <1>4, <1>5 DEF CacheInv, FlightGood, ReadersBehind, ReadsFresh

(* Every step keeps the invariant: one case per action. *)
LEMMA CacheInvStep == Alone /\ CacheInv /\ [Next]_vars => CacheInv'
  <1>. SUFFICES ASSUME Alone, CacheInv, [Next]_vars PROVE CacheInv'
    OBVIOUS
  <1>0. TypeOK /\ TypeOK'
    BY TypeStep DEF CacheInv
  <1>1. ASSUME NEW r \in Readers, NEW c \in Replicas, NEW e \in Endpoints, StartRead(r, c, e)
        PROVE  CacheInv'
    BY <1>0, <1>1, StartKeeps
  <1>2. ASSUME NEW r \in Readers, ReadStep(r) PROVE CacheInv'
    <2>1. CASE QueryTimesOut(r)
      BY <2>1, <1>0, TimeoutKeeps
    <2>2. CASE HitL1(r)
      BY <2>2, <1>0, HitL1Keeps
    <2>3. CASE MissL1(r) \/ MissL2(r)
      BY <2>3, <1>0, MissKeeps
    <2>4. CASE HitL2(r)
      BY <2>4, <1>0, HitL2Keeps
    <2>5. CASE Query(r)
      BY <2>5, <1>0, QueryKeeps
    <2>6. CASE SetEx(r)
      BY <2>6, <1>0, SetExKeeps
    <2>7. CASE Fill(r)
      BY <2>7, <1>0, FillKeeps
    <2>8. CASE Respond(r)
      BY <2>8, <1>0, EndKeeps
    <2>. QED BY <1>2, <2>1, <2>2, <2>3, <2>4, <2>5, <2>6, <2>7, <2>8 DEF ReadStep
  <1>3. ASSUME NEW r \in Readers, QueryFails(r) \/ CancelRead(r) PROVE CacheInv'
    BY <1>0, <1>3, EndKeeps
  <1>4. ASSUME NEW w \in Writers,
               CancelWrite(w) \/ \E c \in Replicas, t \in Tables : Commit(w, c, t)
        PROVE  CacheInv'
    BY <1>0, <1>4, WriterKeeps
  <1>5. ASSUME NEW w \in Writers, InvalidateLocal(w) PROVE CacheInv'
    BY <1>0, <1>5, InvalidateKeeps
  <1>6. ASSUME NEW w \in Writers, PublishAndAck(w) PROVE CacheInv'
    BY <1>0, <1>6, AckKeeps
  <1>7. ASSUME NEW c \in Replicas, NEW t \in Tables, Deliver(c, t) PROVE CacheInv'
    <2>1. gen' = Bumped(c, t) /\ UNCHANGED <<db, l1, l2, read, write, acked>>
      BY <1>7 DEF Deliver
    <2>. QED BY <2>1, <1>0, BumpKeeps
  <1>8. ASSUME NEW c \in Replicas, NEW t \in Tables, LoseMessage(c, t) PROVE CacheInv'
    BY <1>0, <1>8, LossKeeps DEF LoseMessage
  <1>9. ASSUME NEW c \in Replicas, Restart(c) PROVE CacheInv'
    BY <1>0, <1>9, RestartKeeps
  <1>10. ASSUME NEW c \in Replicas, NEW x \in l1[c], EvictL1(c, x) PROVE CacheInv'
    <2>1. \A d \in Replicas : l1'[d] \subseteq l1[d]
      BY <1>0, <1>10 DEF EvictL1, TypeOK
    <2>2. UNCHANGED <<db, gen, l2, read, write, acked>>
      BY <1>10 DEF EvictL1
    <2>. QED BY <1>0, <2>1, <2>2, LossKeeps
  <1>11. ASSUME NEW x \in l2, EvictL2(x) PROVE CacheInv'
    <2>1. l2' \subseteq l2 /\ UNCHANGED <<db, gen, l1, read, write, acked>>
      BY <1>11 DEF EvictL2
    <2>. QED BY <1>0, <2>1, LossKeeps
  <1>12. CASE UNCHANGED vars
    <2>1. UNCHANGED <<db, gen, l1, l2, read, write, acked>>
      BY <1>12 DEF vars
    <2>. QED BY <1>0, <2>1, LossKeeps
  <1>. QED
    BY <1>1, <1>2, <1>3, <1>4, <1>5, <1>6, <1>7, <1>8, <1>9, <1>10, <1>11, <1>12 DEF Next

(* Read-your-writes: where one replica does not share its Redis with       *)
(* another or with its own earlier life, a read that starts after a write  *)
(* was answered returns that write or a newer one, or the [] of a timed    *)
(* out query, under every interleaving of queries, fills, bumps,           *)
(* evictions, failures and cancellations.                                  *)
THEOREM ReadsSeeWrites ==
    ASSUME Alone
    PROVE  Spec => []ReadYourWrites
  <1>1. Init => CacheInv
    BY CacheInvInit
  <1>2. CacheInv /\ [Next]_vars => CacheInv'
    BY CacheInvStep
  <1>3. CacheInv => ReadYourWrites
    BY DEF CacheInv, ReadYourWrites
  <1>. QED BY <1>1, <1>2, <1>3, PTL DEF Spec
-----------------------------------------------------------------------------
(* Flights *)

LEMMA Turns ==
    /\ {"idle", "l1", "wait", "done"} \cap InFlight = {}
    /\ {"l2", "query", "setex", "fill"} \subseteq InFlight
    /\ PCs = InFlight \cup {"idle", "l1", "wait", "done"}
  BY DEF InFlight, PCs

LEMMA SameKeyFields ==
    ASSUME NEW q, NEW r
    PROVE  SameKey(q, r) <=> /\ read[q].at = read[r].at
                             /\ read[q].ep = read[r].ep /\ read[q].gen = read[r].gen
  BY DEF SameKey, Key

(* A reader keeps its key and its part in the flight, or has no part in any. *)
Stays(q) ==
    /\ read'[q].at = read[q].at /\ read'[q].ep = read[q].ep /\ read'[q].gen = read[q].gen
    /\ \/ read'[q].pc = read[q].pc
       \/ read[q].pc \in InFlight /\ read'[q].pc \in InFlight
Leaves(q) == read'[q].pc \notin InFlight \cup {"wait"}

(* Flights stay single when nobody takes off, and whoever lands takes the   *)
(* waiters along.                                                           *)
LEMMA FlightFrame ==
    ASSUME SingleFlight,
           \A q \in Readers : Stays(q) \/ Leaves(q),
           \A q, p \in Readers :
             /\ read[q].pc \in InFlight /\ ~Stays(q)
             /\ SameKey(q, p) /\ read[p].pc = "wait"
             => Leaves(p)
    PROVE  SingleFlight'
  <1>1. ASSUME NEW q \in Readers, NEW r \in Readers, q # r, SameKey(q, r)',
               read'[q].pc \in InFlight, read'[r].pc \in InFlight
        PROVE  FALSE
    <2>1. Stays(q) /\ Stays(r)
      BY <1>1 DEF Leaves
    <2>2. read[q].pc \in InFlight /\ read[r].pc \in InFlight
      BY <1>1, <2>1 DEF Stays
    <2>3. SameKey(q, r)
      BY <1>1, <2>1 DEF Stays, SameKey, Key
    <2>. QED BY <1>1, <2>2, <2>3 DEF SingleFlight
  <1>2. ASSUME NEW r \in Readers, read'[r].pc = "wait"
        PROVE  Flying(r)'
    <2>1. Stays(r) /\ ~Leaves(r) /\ read[r].pc = "wait"
      BY <1>2, Turns DEF Stays, Leaves
    <2>2. PICK q \in Readers : SameKey(q, r) /\ read[q].pc \in InFlight
      BY <2>1 DEF SingleFlight, Flying
    <2>3. Stays(q)
      BY <2>1, <2>2
    <2>4. read'[q].pc \in InFlight
      BY <2>2, <2>3 DEF Stays
    <2>5. SameKey(q, r)'
      BY <2>1, <2>2, <2>3 DEF Stays, SameKey, Key
    <2>. QED BY <2>4, <2>5 DEF Flying
  <1>. QED BY <1>1, <1>2 DEF SingleFlight

(* What is known of the state a reader moves to, by the name of the state. *)
LEMMA MovedState ==
    ASSUME TypeOK, NEW r \in Readers, NEW pc \in PCs
    PROVE  /\ \A st : \A b \in Bodies : st = [read[r] EXCEPT !.pc = pc, !.body = b] => MovedAs(r, st, pc, b)
           /\ \A st : st = [read[r] EXCEPT !.pc = pc] => MovedAs(r, st, pc, read[r].body)
  <1>1. ASSUME NEW b \in Bodies, NEW st, st = [read[r] EXCEPT !.pc = pc, !.body = b]
        PROVE  MovedAs(r, st, pc, b)
    <2>1. MovedAs(r, [read[r] EXCEPT !.pc = pc, !.body = b], pc, b)
      BY Moved
    <2>. QED BY <1>1, <2>1, Zenon
  <1>2. ASSUME NEW st, st = [read[r] EXCEPT !.pc = pc]
        PROVE  MovedAs(r, st, pc, read[r].body)
    <2>1. MovedAs(r, [read[r] EXCEPT !.pc = pc], pc, read[r].body)
      BY MovedOn
    <2>. QED BY <1>2, <2>1, Zenon
  <1>. QED BY <1>1, <1>2, Zenon

(* One reader moves without taking off, and does not land on its own. *)
LEMMA OneMoves ==
    ASSUME TypeOK, SingleFlight, NEW r \in Readers, NEW st, Becomes(r, st),
           \/ /\ st.at = read[r].at /\ st.ep = read[r].ep /\ st.gen = read[r].gen
              /\ read[r].pc \in InFlight /\ st.pc \in InFlight
           \/ read[r].pc \notin InFlight /\ st.pc \notin InFlight \cup {"wait"}
    PROVE  SingleFlight'
  <1>1. read'[r] = st /\ \A q \in Readers \ {r} : read'[q] = read[q]
    BY DEF TypeOK, Becomes
  <1>2. \A q \in Readers \ {r} : Stays(q)
    BY <1>1 DEF Stays
  <1>3. CASE /\ st.at = read[r].at /\ st.ep = read[r].ep /\ st.gen = read[r].gen
             /\ read[r].pc \in InFlight /\ st.pc \in InFlight
    <2>1. Stays(r)
      BY <1>1, <1>3 DEF Stays
    <2>. QED BY <1>2, <2>1, FlightFrame
  <1>4. CASE read[r].pc \notin InFlight /\ st.pc \notin InFlight \cup {"wait"}
    <2>1. Leaves(r)
      BY <1>1, <1>4 DEF Leaves
    <2>. QED BY <1>2, <1>4, <2>1, FlightFrame
  <1>. QED BY <1>3, <1>4

(* The first to miss takes off; whoever misses the same key after it waits. *)
LEMMA MissSingle ==
    ASSUME TypeOK, SingleFlight, NEW r \in Readers, MissL1(r)
    PROVE  SingleFlight'
  <1>. DEFINE pc == IF Flying(r) THEN "wait" ELSE "l2"
              st == [read[r] EXCEPT !.pc = pc]
  <1>1. read[r].pc = "l1" /\ read[r].pc \notin InFlight
    BY Turns DEF MissL1
  <1>2. MovedAs(r, st, pc, read[r].body)
    <2>1. pc \in PCs
      BY Turns
    <2>. HIDE DEF pc
    <2>. QED BY <2>1, MovedOn
  <1>3. read'[r] = st /\ \A q \in Readers \ {r} : read'[q] = read[q]
    BY DEF TypeOK, MissL1, Becomes
  <1>. HIDE DEF st
  <1>4. /\ read'[r].pc = pc
        /\ \A q \in Readers : /\ read'[q].at = read[q].at /\ read'[q].ep = read[q].ep
                             /\ read'[q].gen = read[q].gen
    BY <1>2, <1>3 DEF MovedAs
  <1>5. \A q, p \in Readers : SameKey(q, p)' <=> SameKey(q, p)
    BY <1>4 DEF SameKey, Key
  <1>6. \A q \in Readers : read[q].pc \in InFlight => read'[q].pc \in InFlight
    BY <1>1, <1>3
  <1>7. \A q, p \in Readers : SameKey(q, p) <=> SameKey(p, q)
    BY DEF SameKey
  <1>8. ASSUME NEW q \in Readers, NEW p \in Readers, q # p, SameKey(q, p),
               read'[q].pc \in InFlight, read'[p].pc \in InFlight
        PROVE  FALSE
    <2>1. CASE q # r /\ p # r
      BY <1>3, <1>8, <2>1 DEF SingleFlight
    <2>2. CASE q = r \/ p = r
      <3>1. ~Flying(r)
        BY <1>4, <1>8, <2>2, Turns
      <3>. QED BY <1>3, <1>7, <1>8, <2>2, <3>1 DEF Flying
    <2>. QED BY <2>1, <2>2
  <1>9. ASSUME NEW p \in Readers, read'[p].pc = "wait"
        PROVE  \E q \in Readers : SameKey(q, p) /\ read[q].pc \in InFlight
    <2>1. CASE p = r
      BY <1>4, <1>9, <2>1 DEF Flying
    <2>2. CASE p # r
      BY <1>3, <1>9, <2>2 DEF SingleFlight, Flying
    <2>. QED BY <2>1, <2>2
  <1>. QED BY <1>5, <1>6, <1>8, <1>9 DEF SingleFlight, Flying

(* A flight lands, and everybody waiting on it with it. *)
LEMMA Landing ==
    ASSUME SingleFlight, NEW r \in Readers,
           Leaves(r),
           \A q \in Readers : Waits(q, r) /\ read[r].pc \in InFlight => Leaves(q),
           \A q \in Readers \ {r} :
             read'[q] = read[q] \/ (Waits(q, r) /\ read[r].pc \in InFlight)
    PROVE  SingleFlight'
  <1>1. \A q \in Readers : Stays(q) \/ Leaves(q)
    BY DEF Stays
  <1>2. ASSUME NEW q \in Readers, NEW p \in Readers, read[q].pc \in InFlight, ~Stays(q),
               SameKey(q, p), read[p].pc = "wait"
        PROVE  Leaves(p)
    <2>1. q = r
      <3>1. ~Waits(q, r)
        BY <1>2, Turns DEF Waits
      <3>. QED BY <1>2, <3>1 DEF Stays
    <2>2. Waits(p, r)
      BY <1>2, <2>1 DEF Waits, SameKey
    <2>. QED BY <1>2, <2>1, <2>2
  <1>. QED BY <1>1, <1>2, FlightFrame

LEMMA SingleStep ==
    ASSUME TypeOK, SingleFlight, [Next]_vars
    PROVE  SingleFlight'
  <1>. DEFINE DoneWith(q, b) == [read[q] EXCEPT !.pc = "done", !.body = b]
  <1>0. IdleRead.pc = "idle" /\ \A q \in Readers : read[q] \in ReadStates
    BY DEF IdleRead, TypeOK
  <1>1. ASSUME NEW r \in Readers, NEW c \in Replicas, NEW e \in Endpoints, StartRead(r, c, e)
        PROVE  SingleFlight'
    <2>. DEFINE st == [pc |-> "l1", at |-> c, ep |-> e, gen |-> gen[c][e],
                       need |-> acked[c], body |-> EmptyBody]
    <2>1. st.pc = "l1" /\ read[r].pc = "idle" /\ Becomes(r, st)
      BY <1>1 DEF StartRead
    <2>. HIDE DEF st
    <2>. QED BY <2>1, Turns, OneMoves
  <1>2. ASSUME NEW r \in Readers, HitL1(r) \/ Respond(r) PROVE SingleFlight'
    <2>1. PICK st : Becomes(r, st) /\ st.pc \in {"done", "idle"}
      <3>1. CASE Respond(r)
        BY <1>0, <3>1 DEF Respond
      <3>2. CASE HitL1(r)
        <4>1. PICK x \in Hits(l1[read[r].at], r) : Becomes(r, DoneWith(r, x.body))
          BY <3>2 DEF HitL1
        <4>2. x.body \in Bodies
          BY ReadFields DEF TypeOK, Hits, Entries
        <4>3. DoneWith(r, x.body).pc = "done"
          <5>1. MovedAs(r, DoneWith(r, x.body), "done", x.body)
            BY <4>2, MovedState, Turns
          <5>. HIDE DEF DoneWith
          <5>. QED BY <5>1 DEF MovedAs
        <4>. HIDE DEF DoneWith
        <4>. QED BY <4>1, <4>3
      <3>. QED BY <1>2, <3>1, <3>2
    <2>2. read[r].pc \in {"l1", "done"}
      BY <1>2 DEF HitL1, Respond
    <2>. QED BY <2>1, <2>2, Turns, OneMoves
  <1>3. ASSUME NEW r \in Readers, MissL1(r) PROVE SingleFlight'
    BY <1>3, MissSingle
  <1>4. ASSUME NEW r \in Readers, HitL2(r) \/ MissL2(r) \/ Query(r) \/ QueryTimesOut(r) \/ SetEx(r)
        PROVE  SingleFlight'
    <2>1. read[r].pc \in InFlight
      BY <1>4, Turns DEF HitL2, MissL2, Query, QueryTimesOut, SetEx
    <2>2. PICK st : /\ Becomes(r, st) /\ st.pc \in InFlight
                    /\ st.at = read[r].at /\ st.ep = read[r].ep /\ st.gen = read[r].gen
      <3>1. CASE HitL2(r)
        <4>1. PICK x \in Hits(l2, r) : Becomes(r, [read[r] EXCEPT !.pc = "fill", !.body = x.body])
          BY <3>1 DEF HitL2
        <4>2. x.body \in Bodies
          BY DEF TypeOK, Hits, Entries
        <4>3. "fill" \in PCs /\ "fill" \in InFlight
          BY Turns
        <4>4. PICK st : st = [read[r] EXCEPT !.pc = "fill", !.body = x.body]
          OBVIOUS
        <4>5. MovedAs(r, st, "fill", x.body)
          BY <4>2, <4>3, <4>4, MovedState
        <4>. QED BY <4>1, <4>3, <4>4, <4>5 DEF MovedAs
      <3>2. CASE Query(r) \/ QueryTimesOut(r)
        <4>1. PICK b \in Bodies : Becomes(r, [read[r] EXCEPT !.pc = "setex", !.body = b])
          BY <3>2 DEF Query, QueryTimesOut, TypeOK, EmptyBody, Bodies
        <4>2. "setex" \in PCs /\ "setex" \in InFlight
          BY Turns
        <4>3. PICK st : st = [read[r] EXCEPT !.pc = "setex", !.body = b]
          OBVIOUS
        <4>4. MovedAs(r, st, "setex", b)
          BY <4>2, <4>3, MovedState
        <4>. QED BY <4>1, <4>2, <4>3, <4>4 DEF MovedAs
      <3>3. CASE MissL2(r) \/ SetEx(r)
        <4>1. PICK p \in {"query", "fill"} : Becomes(r, [read[r] EXCEPT !.pc = p])
          BY <3>3 DEF MissL2, SetEx
        <4>2. p \in PCs /\ p \in InFlight
          BY Turns
        <4>3. PICK st : st = [read[r] EXCEPT !.pc = p]
          OBVIOUS
        <4>4. MovedAs(r, st, p, read[r].body)
          BY <4>2, <4>3, MovedState
        <4>. QED BY <4>1, <4>2, <4>3, <4>4 DEF MovedAs
      <3>. QED BY <1>4, <3>1, <3>2, <3>3
    <2>. QED BY <2>1, <2>2, OneMoves
  <1>5. ASSUME NEW r \in Readers, Fill(r) PROVE SingleFlight'
    <2>1. read[r].pc \in InFlight /\ read[r].body \in Bodies
      BY <1>5, Turns, ReadFields DEF Fill
    <2>2. \A q \in Readers : read'[q] = IF q = r \/ Waits(q, r) THEN DoneWith(q, read[r].body)
                                        ELSE read[q]
      BY <1>5 DEF Fill
    <2>3. \A q \in Readers : DoneWith(q, read[r].body).pc = "done"
      <3>1. \A q \in Readers : MovedAs(q, DoneWith(q, read[r].body), "done", read[r].body)
        BY <2>1, MovedState, Turns
      <3>. HIDE DEF DoneWith
      <3>. QED BY <3>1 DEF MovedAs
    <2>. HIDE DEF DoneWith
    <2>. QED BY <2>1, <2>2, <2>3, Turns, Landing DEF Leaves
  <1>6. ASSUME NEW r \in Readers, QueryFails(r) PROVE SingleFlight'
    <2>1. read[r].pc \in InFlight
      BY <1>6, Turns DEF QueryFails
    <2>2. \A q \in Readers : read'[q] = IF q = r \/ Waits(q, r) THEN IdleRead ELSE read[q]
      BY <1>6 DEF QueryFails
    <2>. QED BY <1>0, <2>1, <2>2, Turns, Landing DEF Leaves
  <1>7. ASSUME NEW r \in Readers, CancelRead(r) PROVE SingleFlight'
    <2>. DEFINE Again(st) == [st EXCEPT !.pc = "l1"]
    <2>1. \A q \in Readers :
            read'[q] = IF q = r THEN IdleRead
                       ELSE IF Waits(q, r) /\ read[r].pc \in InFlight THEN Again(read[q])
                       ELSE read[q]
      BY <1>7 DEF CancelRead
    <2>2. \A q \in Readers : Again(read[q]).pc = "l1"
      BY MovedOn, Turns DEF MovedAs
    <2>. HIDE DEF Again
    <2>. QED BY <1>0, <2>1, <2>2, Turns, Landing DEF Leaves
  <1>8. ASSUME NEW c \in Replicas, Restart(c) PROVE SingleFlight'
    <2>1. \A q \in Readers : read'[q] = IF read[q].at = c THEN IdleRead ELSE read[q]
      BY <1>8 DEF Restart
    <2>2. \A q \in Readers : IF read[q].at = c THEN Leaves(q) ELSE Stays(q)
      BY <1>0, <2>1, Turns DEF Leaves, Stays
    <2>. QED BY <2>2, SameKeyFields, FlightFrame
  <1>9. CASE read' = read
    BY <1>9 DEF SingleFlight, Flying, SameKey, Key
  <1>10. CASE \E w \in Writers : \/ \E c \in Replicas, t \in Tables : Commit(w, c, t)
                                \/ InvalidateLocal(w) \/ PublishAndAck(w) \/ CancelWrite(w)
    BY <1>9, <1>10 DEF Commit, InvalidateLocal, PublishAndAck, CancelWrite
  <1>11. CASE \/ \E c \in Replicas, t \in Tables : Deliver(c, t) \/ LoseMessage(c, t)
              \/ \E c \in Replicas : \E x \in l1[c] : EvictL1(c, x)
              \/ \E x \in l2 : EvictL2(x)
              \/ UNCHANGED vars
    BY <1>9, <1>11 DEF Deliver, LoseMessage, EvictL1, EvictL2, vars
  <1>. QED
    BY <1>1, <1>2, <1>3, <1>4, <1>5, <1>6, <1>7, <1>8, <1>10, <1>11 DEF Next, ReadStep

(* Single flight: at most one task of a replica computes a key, and whoever *)
(* waits waits on a task that computes its key, whichever flights end, fail *)
(* or are dropped with their client and whichever replicas restart.         *)
THEOREM FlightsAreSingle == Spec => []FlightInv
  <1>1. Init => FlightInv
    <2>1. ASSUME Init PROVE SingleFlight
      BY <2>1, Turns DEF Init, SingleFlight, IdleRead
    <2>. QED BY <2>1, TypeInit DEF FlightInv
  <1>2. FlightInv /\ [Next]_vars => FlightInv'
    BY TypeStep, SingleStep DEF FlightInv
  <1>. QED BY <1>1, <1>2, PTL DEF Spec

-----------------------------------------------------------------------------
(* Sets of numbers and sequences: what the proofs about keys need.         *)

(* A set of numbers that is not empty has a least one. *)
LEMMA LeastNat ==
    ASSUME NEW T, T \subseteq Nat, T # {}
    PROVE  \E x \in T : \A y \in T : x <= y
  <1>. DEFINE R == {ss \in Nat \X Nat : ss[1] < ss[2]}
  <1>1. IsWellFoundedOn(R, Nat)
    BY NatLessThanWellFounded DEF OpToRel
  <1>. HIDE DEF R
  <1>2. PICK x \in T : \A y \in T : ~ (<<y, x>> \in R)
    BY <1>1, WFMin
  <1>3. ASSUME NEW y \in T PROVE x <= y
    <2>1. ~ (<<y, x>> \in R)
      BY <1>2
    <2>2. <<y, x>> \in R <=> y < x
      BY DEF R
    <2>. QED BY <2>1, <2>2
  <1>. QED BY <1>3

(* A run of numbers that starts outside a set and never enters it at a      *)
(* step is outside it: a set of counterexamples that has no least one.      *)
LEMMA NoLeast ==
    ASSUME NEW n \in Nat, NEW T, T \subseteq 0 .. n, 0 \notin T,
           \A k \in 1 .. n : k \in T => k - 1 \in T
    PROVE  T = {}
  <1>1. SUFFICES ASSUME T # {} PROVE FALSE
    OBVIOUS
  <1>2. PICK x \in T : \A y \in T : x <= y
    <2>1. T \subseteq Nat
      OBVIOUS
    <2>. QED BY <1>1, <2>1, LeastNat
  <1>3. x \in 1 .. n
    BY <1>2
  <1>. QED BY <1>2, <1>3

-----------------------------------------------------------------------------
(* The concatenation of a sequence of sequences is reached by appending     *)
(* them one after the other: run is what there is after each of them.       *)
RunOf(run, seqs, n) ==
    run[0] = <<>> /\ \A i \in 1 .. n : run[i] = run[i - 1] \o seqs[i]

(* Every sequence of sequences has such a run. *)
LEMMA RunExists ==
    ASSUME NEW S, NEW seqs \in Seq(Seq(S)), NEW n \in 0 .. Len(seqs)
    PROVE  \E run \in [0 .. n -> Seq(S)] : RunOf(run, seqs, n)
  <1>. DEFINE Done(k) == \E run \in [0 .. k -> Seq(S)] : RunOf(run, seqs, k)
              Left == {k \in 0 .. n : ~ Done(k)}
  <1>1. Done(0)
    <2>. DEFINE run == [i \in 0 .. 0 |-> <<>>]
    <2>1. run \in [0 .. 0 -> Seq(S)] /\ RunOf(run, seqs, 0)
      BY DEF RunOf
    <2>. QED BY <2>1
  <1>2. ASSUME NEW k \in 1 .. n, Done(k - 1) PROVE Done(k)
    <2>1. PICK run \in [0 .. (k - 1) -> Seq(S)] : RunOf(run, seqs, k - 1)
      BY <1>2
    <2>. DEFINE next == [i \in 0 .. k |-> IF i = k THEN run[k - 1] \o seqs[k] ELSE run[i]]
    <2>2. run[k - 1] \o seqs[k] \in Seq(S)
      BY ConcatProperties
    <2>3. next \in [0 .. k -> Seq(S)]
      BY <2>2
    <2>4. ASSUME NEW i \in 1 .. k PROVE next[i] = next[i - 1] \o seqs[i]
      <3>1. i \in 0 .. k /\ i - 1 \in 0 .. k /\ i - 1 # k
        OBVIOUS
      <3>2. next[i - 1] = run[i - 1]
        BY <3>1
      <3>3. CASE i = k
        BY <3>1, <3>2, <3>3
      <3>4. CASE i # k
        <4>1. i \in 1 .. (k - 1) /\ next[i] = run[i]
          BY <3>1, <3>4
        <4>. QED BY <4>1, <3>2, <2>1 DEF RunOf
      <3>. QED BY <3>3, <3>4
    <2>5. next[0] = <<>>
      BY <2>1 DEF RunOf
    <2>6. RunOf(next, seqs, k)
      BY <2>4, <2>5 DEF RunOf
    <2>. QED BY <2>3, <2>6
  <1>. HIDE DEF Done
  <1>3. Left = {}
    <2>1. Left \subseteq 0 .. n /\ 0 \notin Left
      BY <1>1
    <2>2. ASSUME NEW k \in 1 .. n, k \in Left PROVE k - 1 \in Left
      <3>1. k - 1 \in 0 .. n
        OBVIOUS
      <3>. QED BY <1>2, <2>2, <3>1
    <2>3. n \in Nat
      OBVIOUS
    <2>. HIDE DEF Left
    <2>. QED BY <2>1, <2>2, <2>3, NoLeast
  <1>4. Done(n)
    BY <1>3
  <1>. QED BY <1>4 DEF Done

(* FlattenSeq is where such a run ends. *)
LEMMA FlattenIsRun ==
    ASSUME NEW S, NEW seqs \in Seq(Seq(S))
    PROVE  \E run \in [0 .. Len(seqs) -> Seq(S)] :
             RunOf(run, seqs, Len(seqs)) /\ FlattenSeq(seqs) = run[Len(seqs)]
  <1>. DEFINE n == Len(seqs)
              Step(f) == [i \in 1 .. n |-> IF i = 1 THEN seqs[i] ELSE f[i - 1] \o seqs[i]]
  <1>1. PICK run \in [0 .. n -> Seq(S)] : RunOf(run, seqs, n)
    BY RunExists
  <1>2. CASE n = 0
    BY <1>1, <1>2 DEF FlattenSeq, RunOf
  <1>3. CASE n # 0
    <2>. DEFINE flat == CHOOSE f : f = Step(f)
                f0 == [i \in 1 .. n |-> run[i]]
                Left == {i \in 0 .. n : i # 0 /\ flat[i] # run[i]}
    <2>1. f0 = Step(f0)
      <3>1. ASSUME NEW i \in 1 .. n PROVE f0[i] = Step(f0)[i]
        <4>1. CASE i = 1
          <5>1. run[1] = <<>> \o seqs[1]
            BY <4>1, <1>1, <1>3 DEF RunOf
          <5>. QED BY <4>1, <5>1
        <4>2. CASE i # 1
          <5>1. i - 1 \in 1 .. n
            BY <4>2
          <5>2. f0[i] = run[i] /\ f0[i - 1] = run[i - 1]
            BY <5>1
          <5>3. Step(f0)[i] = f0[i - 1] \o seqs[i]
            BY <4>2
          <5>. QED BY <5>2, <5>3, <1>1 DEF RunOf
        <4>. QED BY <4>1, <4>2
      <3>. QED BY <3>1
    <2>2. flat = Step(flat)
      <3>. HIDE DEF f0
      <3>. QED BY <2>1
    <2>3. Left = {}
      <3>1. Left \subseteq 0 .. n /\ 0 \notin Left
        OBVIOUS
      <3>2. ASSUME NEW i \in 1 .. n, i \in Left PROVE i - 1 \in Left
        <4>. SUFFICES ASSUME i - 1 \notin Left PROVE FALSE
          OBVIOUS
        <4>. HIDE DEF flat
        <4>1. flat[i] = IF i = 1 THEN seqs[i] ELSE flat[i - 1] \o seqs[i]
          BY <2>2
        <4>2. run[i] = run[i - 1] \o seqs[i]
          BY <1>1 DEF RunOf
        <4>3. CASE i = 1
          <5>1. run[i] = <<>> \o seqs[i]
            <6>1. i - 1 = 0 /\ run[0] = <<>>
              BY <4>3, <1>1 DEF RunOf
            <6>. QED BY <6>1, <4>2
          <5>. QED BY <5>1, <4>1, <4>3, <3>2
        <4>4. CASE i # 1
          <5>1. i - 1 \in 0 .. n /\ i - 1 # 0
            BY <4>4
          <5>2. flat[i - 1] = run[i - 1]
            BY <5>1
          <5>. QED BY <5>2, <4>4, <4>1, <4>2, <3>2
        <4>. QED BY <4>3, <4>4
      <3>3. n \in Nat
        OBVIOUS
      <3>. HIDE DEF Left
      <3>. QED BY <3>1, <3>2, <3>3, NoLeast
    <2>4. FlattenSeq(seqs) = flat[n]
      BY <1>3 DEF FlattenSeq
    <2>5. flat[n] = run[n]
      <3>. HIDE DEF flat
      <3>1. n \in 0 .. n /\ n \notin Left
        BY <2>3
      <3>. QED BY <3>1, <1>3
    <2>. QED BY <1>1, <2>4, <2>5
  <1>. QED BY <1>2, <1>3

(* Where the members of a concatenation come from. *)
LEMMA ConcatAt ==
    ASSUME NEW S, NEW a \in Seq(S), NEW b \in Seq(S)
    PROVE  /\ a \o b \in Seq(S) /\ Len(a \o b) = Len(a) + Len(b)
           /\ \A i \in 1 .. Len(a) : (a \o b)[i] = a[i]
           /\ \A i \in 1 .. Len(b) : (a \o b)[Len(a) + i] = b[i]
  <1>1. ASSUME NEW i \in 1 .. Len(a) PROVE (a \o b)[i] = a[i]
    BY ConcatProperties
  <1>2. ASSUME NEW i \in 1 .. Len(b) PROVE (a \o b)[Len(a) + i] = b[i]
    <2>1. Len(a) + i \in 1 .. (Len(a) + Len(b)) /\ ~ (Len(a) + i <= Len(a))
      OBVIOUS
    <2>2. (Len(a) + i) - Len(a) = i
      OBVIOUS
    <2>. QED BY <2>1, <2>2, ConcatProperties
  <1>. QED BY <1>1, <1>2, ConcatProperties

(* What a text of the key is written as: a mark, and no other mark in it. *)
Marked(entry) == /\ Len(entry) > 1 /\ entry[1] = "&"
                 /\ \A k \in 2 .. Len(entry) : entry[k] # "&"

(* Two keys that end in a marked entry are equal entry by entry. *)
LEMMA LastMarked ==
    ASSUME NEW S, NEW a \in Seq(S), NEW b \in Seq(S), NEW x \in Seq(S), NEW y \in Seq(S),
           Marked(x), Marked(y), a \o x = b \o y
    PROVE  a = b /\ x = y
  <1>1. /\ Len(a \o x) = Len(a) + Len(x) /\ Len(b \o y) = Len(b) + Len(y)
        /\ \A i \in 1 .. Len(a) : (a \o x)[i] = a[i]
        /\ \A i \in 1 .. Len(x) : (a \o x)[Len(a) + i] = x[i]
        /\ \A i \in 1 .. Len(b) : (b \o y)[i] = b[i]
        /\ \A i \in 1 .. Len(y) : (b \o y)[Len(b) + i] = y[i]
    <2>1. \A i \in 1 .. Len(x) : (a \o x)[Len(a) + i] = x[i]
      BY ConcatAt
    <2>2. \A i \in 1 .. Len(y) : (b \o y)[Len(b) + i] = y[i]
      BY ConcatAt
    <2>3. \A i \in 1 .. Len(a) : (a \o x)[i] = a[i]
      BY ConcatAt
    <2>4. \A i \in 1 .. Len(b) : (b \o y)[i] = b[i]
      BY ConcatAt
    <2>5. Len(a \o x) = Len(a) + Len(x) /\ Len(b \o y) = Len(b) + Len(y)
      BY ConcatProperties
    <2>. QED BY <2>1, <2>2, <2>3, <2>4, <2>5
  <1>2. Len(a) = Len(b)
    <2>1. ASSUME Len(a) > Len(b) PROVE FALSE
      <3>. DEFINE k == (Len(a) + 1) - Len(b)
      <3>1. k \in 2 .. Len(y) /\ Len(b) + k = Len(a) + 1
        BY <2>1, <1>1 DEF Marked
      <3>2. y[k] = x[1]
        <4>1. (b \o y)[Len(b) + k] = y[k]
          BY <3>1, <1>1
        <4>2. (a \o x)[Len(a) + 1] = x[1]
          BY <1>1 DEF Marked
        <4>. QED BY <3>1, <4>1, <4>2
      <3>. QED BY <3>1, <3>2 DEF Marked
    <2>2. ASSUME Len(b) > Len(a) PROVE FALSE
      <3>. DEFINE k == (Len(b) + 1) - Len(a)
      <3>1. k \in 2 .. Len(x) /\ Len(a) + k = Len(b) + 1
        BY <2>2, <1>1 DEF Marked
      <3>2. x[k] = y[1]
        <4>1. (a \o x)[Len(a) + k] = x[k]
          BY <3>1, <1>1
        <4>2. (b \o y)[Len(b) + 1] = y[1]
          BY <1>1 DEF Marked
        <4>. QED BY <3>1, <4>1, <4>2
      <3>. QED BY <3>1, <3>2 DEF Marked
    <2>. QED BY <2>1, <2>2
  <1>3. a = b
    <2>1. \A i \in 1 .. Len(a) : a[i] = b[i]
      BY <1>1, <1>2
    <2>. QED BY <2>1, <1>2, SeqEqual
  <1>4. x = y
    <2>1. Len(x) = Len(y)
      BY <1>1, <1>2
    <2>2. \A i \in 1 .. Len(x) : x[i] = y[i]
      BY <1>1, <1>2, <2>1
    <2>. QED BY <2>1, <2>2, SeqEqual
  <1>. QED BY <1>3, <1>4

(* Texts as a request has them: of parameters that have a place in the key. *)
HasTexts(t, S) ==
    DOMAIN t \subseteq Range(NameOrder) /\ \A n \in DOMAIN t : CharsOf(t[n]) \in Seq(S)

(* What each parameter adds to the key, in the order of the names. *)
PairsOf(t) == [i \in DOMAIN NameOrder |-> Pair(t, NameOrder[i])]

(* A name is none of the signs. *)
LEMMA NameIs ==
    ASSUME NEW i \in DOMAIN NameOrder
    PROVE  /\ NameOrder[i] \in STRING /\ NameOrder[i] # "&" /\ NameOrder[i] # "admin_read="
           /\ NameOrder[i] \in Range(NameOrder) /\ i \in 1 .. Len(NameOrder)
  BY ReadQueryAssumption DEF Range, Separators

(* Signs and names may stand in a key. *)
HasNames(S) == {"&", "=", "admin_read="} \subseteq S /\ Range(NameOrder) \subseteq S

(* The two parts of a concatenation, by position. *)
LEMMA Headed3 ==
    ASSUME NEW S, NEW h \in Seq(S), NEW c \in Seq(S), NEW n, n = Len(h)
    PROVE  /\ h \o c \in Seq(S) /\ Len(h \o c) = n + Len(c)
           /\ \A k \in 1 .. n : (h \o c)[k] = h[k]
           /\ \A k \in 1 .. Len(c) : (h \o c)[n + k] = c[k]
  <1>1. \A k \in 1 .. Len(h) : (h \o c)[k] = h[k]
    BY ConcatAt
  <1>2. \A k \in 1 .. Len(c) : (h \o c)[Len(h) + k] = c[k]
    BY ConcatAt
  <1>3. h \o c \in Seq(S) /\ Len(h \o c) = Len(h) + Len(c)
    BY ConcatProperties
  <1>. QED BY <1>1, <1>2, <1>3, Zenon

(* What a parameter adds to the key: nothing, or a mark, its name, the sign *)
(* and a text that holds neither separator.                                 *)
LEMMA PairIs ==
    ASSUME NEW S, HasNames(S), NEW t, HasTexts(t, S), Separable(t),
           NEW i \in DOMAIN NameOrder
    PROVE  LET x == Pair(t, NameOrder[i])
           IN  /\ x \in Seq(S)
               /\ \A k \in 1 .. Len(x) : x[k] # "admin_read="
               /\ NameOrder[i] \notin DOMAIN t => x = <<>>
               /\ NameOrder[i] \in DOMAIN t =>
                    Marked(x) /\ Len(x) >= 3 /\ x[2] = NameOrder[i]
  <1>. DEFINE n == NameOrder[i]
              x == Pair(t, n)
              head == <<"&", n, "=">>
              text == CharsOf(t[n])
  <1>1. CASE n \notin DOMAIN t
    BY <1>1 DEF Pair
  <1>2. CASE n \in DOMAIN t
    <2>1. head \in Seq(S) /\ Len(head) = 3 /\ head[1] = "&" /\ head[2] = n /\ head[3] = "="
      <3>1. "&" \in S /\ "=" \in S /\ n \in S
        BY NameIs DEF HasNames
      <3>. HIDE DEF n
      <3>. QED BY <3>1
    <2>2. text \in Seq(S)
      BY <1>2 DEF HasTexts
    <2>3. ASSUME NEW k \in 1 .. Len(text) PROVE text[k] # "&" /\ text[k] # "admin_read="
      <3>1. Range(text) \cap Separators = {}
        BY <1>2 DEF Separable
      <3>2. text[k] \in Range(text)
        BY <2>2 DEF Range
      <3>. QED BY <3>1, <3>2 DEF Separators
    <2>4. x = head \o text
      BY <1>2 DEF Pair
    <2>. HIDE DEF head, text, x, n
    <2>5. /\ head \o text \in Seq(S) /\ Len(head \o text) = 3 + Len(text)
          /\ \A k \in 1 .. 3 : (head \o text)[k] = head[k]
          /\ \A k \in 1 .. Len(text) : (head \o text)[3 + k] = text[k]
      <3>1. 3 = Len(head)
        BY <2>1
      <3>2. head \in Seq(S)
        BY <2>1
      <3>3. ASSUME NEW m, m = Len(head)
            PROVE  /\ head \o text \in Seq(S) /\ Len(head \o text) = m + Len(text)
                   /\ \A k \in 1 .. m : (head \o text)[k] = head[k]
                   /\ \A k \in 1 .. Len(text) : (head \o text)[m + k] = text[k]
        BY <3>2, <3>3, <2>2, Headed3
      <3>. QED BY <3>1, <3>3, Zenon
    <2>6. /\ x \in Seq(S) /\ Len(x) = 3 + Len(text)
          /\ \A k \in 1 .. 3 : x[k] = head[k]
          /\ \A k \in 1 .. Len(text) : x[3 + k] = text[k]
      BY <2>4, <2>5, Zenon
    <2>7. ASSUME NEW k \in 1 .. Len(x)
          PROVE  x[k] # "admin_read=" /\ (k # 1 => x[k] # "&")
      <3>1. CASE k = 1
        BY <3>1, <2>1, <2>6
      <3>2. CASE k = 2
        BY <3>2, <2>1, <2>6, NameIs DEF n
      <3>3. CASE k = 3
        BY <3>3, <2>1, <2>6
      <3>4. CASE k > 3
        <4>1. k - 3 \in 1 .. Len(text) /\ k = 3 + (k - 3)
          BY <3>4, <2>2, <2>6
        <4>2. x[3 + (k - 3)] = text[k - 3]
          BY <4>1, <2>6
        <4>. QED BY <4>1, <4>2, <2>3, <3>4
      <3>. QED BY <3>1, <3>2, <3>3, <3>4, <2>2, <2>6
    <2>8. Marked(x) /\ Len(x) >= 3
      BY <2>1, <2>2, <2>6, <2>7 DEF Marked
    <2>9. x[2] = n
      BY <2>1, <2>6
    <2>. QED BY <2>6, <2>7, <2>8, <2>9, <1>2 DEF x, n
  <1>. QED BY <1>1, <1>2

(* Equal characters are equal texts. *)
LEMMA CharsInjective ==
    ASSUME NEW a, NEW b, CharsOf(a) = CharsOf(b)
    PROVE  a = b
  <1>1. CASE a \in DOMAIN Chars /\ b \in DOMAIN Chars
    BY <1>1, ReadQueryAssumption DEF CharsOf, At
  <1>2. CASE a \notin DOMAIN Chars /\ b \notin DOMAIN Chars
    BY <1>2 DEF CharsOf, At
  <1>3. ASSUME NEW c \in DOMAIN Chars, NEW d, Chars[c] = <<d>> PROVE FALSE
    <2>1. Len(Chars[c]) # 1
      BY ReadQueryAssumption
    <2>2. Len(<<d>>) = 1
      OBVIOUS
    <2>. QED BY <1>3, <2>1, <2>2
  <1>4. CASE a \in DOMAIN Chars /\ b \notin DOMAIN Chars
    BY <1>4, <1>3 DEF CharsOf, At
  <1>5. CASE a \notin DOMAIN Chars /\ b \in DOMAIN Chars
    BY <1>5, <1>3 DEF CharsOf, At
  <1>. QED BY <1>1, <1>2, <1>4, <1>5

(* A key so far: it starts with a mark, every mark has one of the first n   *)
(* names after it, and the elevation is not in it.                          *)
MarksUpTo(a, n) ==
    /\ \A k \in 1 .. Len(a) : a[k] # "admin_read="
    /\ \A k \in 1 .. Len(a) :
         a[k] = "&" => k < Len(a) /\ \E j \in 1 .. n : a[k + 1] = NameOrder[j]
    /\ a = <<>> \/ (Len(a) >= 3 /\ a[1] = "&")

(* The next parameter puts only a mark of its own into the key. *)
LEMMA MarksStep ==
    ASSUME NEW S, NEW a \in Seq(S), NEW x \in Seq(S), NEW n \in 1 .. Len(NameOrder),
           MarksUpTo(a, n - 1),
           \A k \in 1 .. Len(x) : x[k] # "admin_read=",
           x = <<>> \/ (Marked(x) /\ Len(x) >= 3 /\ x[2] = NameOrder[n])
    PROVE  MarksUpTo(a \o x, n)
  <1>. DEFINE w == a \o x
  <1>1. \A k \in 1 .. Len(a) : w[k] = a[k]
    BY ConcatAt
  <1>2. \A k \in 1 .. Len(x) : w[Len(a) + k] = x[k]
    BY ConcatAt
  <1>3. Len(w) = Len(a) + Len(x) /\ w \in Seq(S)
    BY ConcatProperties
  <1>4. Len(a) \in Nat /\ Len(x) \in Nat
    BY LenProperties
  <1>. HIDE DEF w
  <1>5. ASSUME NEW k \in 1 .. Len(w)
        PROVE  /\ w[k] # "admin_read="
               /\ w[k] = "&" => k < Len(w) /\ \E j \in 1 .. n : w[k + 1] = NameOrder[j]
    <2>1. CASE k \in 1 .. Len(a)
      <3>1. w[k] = a[k]
        BY <2>1, <1>1
      <3>2. ASSUME a[k] = "&" PROVE k < Len(w) /\ \E j \in 1 .. n : w[k + 1] = NameOrder[j]
        <4>1. k < Len(a) /\ \E j \in 1 .. (n - 1) : a[k + 1] = NameOrder[j]
          BY <3>2, <2>1 DEF MarksUpTo
        <4>2. k + 1 \in 1 .. Len(a)
          BY <4>1, <1>4
        <4>3. w[k + 1] = a[k + 1]
          BY <4>2, <1>1
        <4>. QED BY <4>1, <4>3, <1>3, <1>4
      <3>. QED BY <3>1, <3>2, <2>1 DEF MarksUpTo
    <2>2. CASE k \notin 1 .. Len(a)
      <3>. DEFINE m == k - Len(a)
      <3>1. m \in 1 .. Len(x) /\ Len(a) + m = k
        BY <2>2, <1>3, <1>4
      <3>2. w[k] = x[m]
        <4>1. w[Len(a) + m] = x[m]
          BY <3>1, <1>2
        <4>. QED BY <4>1, <3>1
      <3>3. Marked(x) /\ Len(x) >= 3 /\ x[2] = NameOrder[n]
        <4>1. x # <<>>
          BY <3>1
        <4>. QED BY <4>1
      <3>4. ASSUME x[m] = "&" PROVE k < Len(w) /\ \E j \in 1 .. n : w[k + 1] = NameOrder[j]
        <4>1. m = 1
          BY <3>4, <3>3, <3>1, <1>4 DEF Marked
        <4>2. w[Len(a) + 2] = x[2]
          BY <3>3, <1>2, <1>4
        <4>3. k + 1 = Len(a) + 2 /\ k < Len(w)
          BY <4>1, <3>1, <3>3, <1>3, <1>4
        <4>. QED BY <4>2, <4>3, <3>3
      <3>. QED BY <3>1, <3>2, <3>4
    <2>. QED BY <2>1, <2>2
  <1>6. w = <<>> \/ (Len(w) >= 3 /\ w[1] = "&")
    <2>1. CASE x = <<>>
      <3>1. w = a
        BY <2>1, ConcatEmptySeq DEF w
      <3>. QED BY <3>1 DEF MarksUpTo
    <2>2. CASE x # <<>> /\ a = <<>>
      <3>1. w = x
        BY <2>2, ConcatEmptySeq DEF w
      <3>. QED BY <3>1, <2>2 DEF Marked
    <2>3. CASE x # <<>> /\ a # <<>>
      <3>1. Len(a) >= 3 /\ a[1] = "&"
        BY <2>3 DEF MarksUpTo
      <3>. QED BY <3>1, <1>1, <1>3, <1>4
    <2>. QED BY <2>1, <2>2, <2>3
  <1>7. MarksUpTo(w, n)
    BY <1>5, <1>6 DEF MarksUpTo
  <1>. QED BY <1>7 DEF w

(* The key of the texts t is the end of such a run, without its first mark. *)
IsKeyRun(run, t, S) ==
    /\ run \in [0 .. Len(NameOrder) -> Seq(S)]
    /\ RunOf(run, PairsOf(t), Len(NameOrder))
    /\ FlattenSeq(PairsOf(t)) = run[Len(NameOrder)]

(* The key of such texts is built in such a run. *)
LEMMA KeyRun ==
    ASSUME NEW S, HasNames(S), NEW t, HasTexts(t, S), Separable(t)
    PROVE  \E run : IsKeyRun(run, t, S)
  <1>1. \A i \in DOMAIN NameOrder : Pair(t, NameOrder[i]) \in Seq(S)
    BY PairIs
  <1>2. NameOrder \in Seq(STRING)
    BY ReadQueryAssumption
  <1>3. Len(NameOrder) \in Nat /\ DOMAIN NameOrder = 1 .. Len(NameOrder)
    BY <1>2, LenProperties
  <1>4. PairsOf(t) \in Seq(Seq(S)) /\ Len(PairsOf(t)) = Len(NameOrder)
    BY <1>1, <1>3 DEF PairsOf
  <1>. QED BY <1>4, FlattenIsRun DEF IsKeyRun

(* Every stage of the run has marks of the names so far only. *)
LEMMA RunMarks ==
    ASSUME NEW S, HasNames(S), NEW t, HasTexts(t, S), Separable(t),
           NEW run, IsKeyRun(run, t, S), NEW n \in 0 .. Len(NameOrder)
    PROVE  MarksUpTo(run[n], n)
  <1>. DEFINE N == Len(NameOrder)
              Bad == {k \in 0 .. N : ~ MarksUpTo(run[k], k)}
  <1>1. N \in Nat /\ DOMAIN NameOrder = 1 .. N
    BY ReadQueryAssumption, LenProperties
  <1>2. MarksUpTo(run[0], 0)
    BY DEF IsKeyRun, RunOf, MarksUpTo
  <1>3. ASSUME NEW k \in 1 .. N, MarksUpTo(run[k - 1], k - 1) PROVE MarksUpTo(run[k], k)
    <2>. DEFINE x == Pair(t, NameOrder[k])
    <2>1. k \in DOMAIN NameOrder /\ k - 1 \in 0 .. N
      BY <1>1
    <2>2. run[k - 1] \in Seq(S)
      BY <2>1 DEF IsKeyRun
    <2>3. run[k] = run[k - 1] \o x
      BY <2>1 DEF IsKeyRun, RunOf, PairsOf
    <2>4. /\ x \in Seq(S)
          /\ \A j \in 1 .. Len(x) : x[j] # "admin_read="
          /\ x = <<>> \/ (Marked(x) /\ Len(x) >= 3 /\ x[2] = NameOrder[k])
      BY <2>1, PairIs
    <2>. HIDE DEF x
    <2>5. MarksUpTo(run[k - 1] \o x, k)
      BY <2>2, <2>4, <1>3, MarksStep
    <2>. QED BY <2>3, <2>5
  <1>4. Bad \subseteq 0 .. N /\ 0 \notin Bad
    BY <1>2
  <1>5. ASSUME NEW k \in 1 .. N, k \in Bad PROVE k - 1 \in Bad
    <2>1. k - 1 \in 0 .. N
      BY <1>1
    <2>. QED BY <2>1, <1>3, <1>5
  <1>. HIDE DEF N
  <1>6. Bad = {}
    <2>. HIDE DEF Bad
    <2>. QED BY <1>1, <1>4, <1>5, NoLeast
  <1>. QED BY <1>6 DEF N

(* A key that ends in an entry of the n-th name is none of the names before. *)
LEMMA NotEarlier ==
    ASSUME NEW S, NEW a \in Seq(S), NEW b \in Seq(S), NEW x \in Seq(S),
           NEW n \in 1 .. Len(NameOrder), n \in DOMAIN NameOrder,
           Marked(x), x[2] = NameOrder[n], MarksUpTo(b, n - 1), a \o x = b
    PROVE  FALSE
  <1>1. \A k \in 1 .. Len(x) : (a \o x)[Len(a) + k] = x[k]
    BY ConcatAt
  <1>2. Len(a \o x) = Len(a) + Len(x)
    BY ConcatProperties
  <1>3. Len(a) \in Nat /\ Len(x) \in Nat /\ Len(x) > 1 /\ x[1] = "&"
    BY LenProperties DEF Marked
  <1>4. b[Len(a) + 1] = "&" /\ b[Len(a) + 2] = NameOrder[n]
    BY <1>1, <1>3
  <1>5. Len(a) + 1 \in 1 .. Len(b) /\ (Len(a) + 1) + 1 = Len(a) + 2
    BY <1>2, <1>3
  <1>6. PICK j \in 1 .. (n - 1) : b[Len(a) + 2] = NameOrder[j]
    BY <1>4, <1>5 DEF MarksUpTo
  <1>7. j \in DOMAIN NameOrder /\ j # n
    BY ReadQueryAssumption
  <1>. QED BY <1>4, <1>6, <1>7, ReadQueryAssumption

(* Two keys that are the same after a name were so before it, and the name  *)
(* added the same to both.                                                  *)
LEMMA LastPairAgrees ==
    ASSUME NEW S, HasNames(S), NEW t, HasTexts(t, S), Separable(t),
           NEW u, HasTexts(u, S), Separable(u),
           NEW run, IsKeyRun(run, t, S), NEW other, IsKeyRun(other, u, S),
           NEW n \in 1 .. Len(NameOrder), run[n] = other[n]
    PROVE  run[n - 1] = other[n - 1] /\ Pair(t, NameOrder[n]) = Pair(u, NameOrder[n])
  <1>. DEFINE x == Pair(t, NameOrder[n])
              y == Pair(u, NameOrder[n])
              a == run[n - 1]
              b == other[n - 1]
  <1>1. n \in DOMAIN NameOrder /\ n - 1 \in 0 .. Len(NameOrder)
    BY ReadQueryAssumption, LenProperties
  <1>2. a \in Seq(S) /\ b \in Seq(S)
    BY <1>1 DEF IsKeyRun
  <1>3. a \o x = b \o y
    BY <1>1 DEF IsKeyRun, RunOf, PairsOf
  <1>4. x \in Seq(S) /\ (x # <<>> => Marked(x) /\ x[2] = NameOrder[n])
    BY <1>1, PairIs
  <1>5. y \in Seq(S) /\ (y # <<>> => Marked(y) /\ y[2] = NameOrder[n])
    BY <1>1, PairIs
  <1>6. MarksUpTo(a, n - 1) /\ MarksUpTo(b, n - 1)
    BY <1>1, RunMarks
  <1>. HIDE DEF x, y, a, b
  <1>7. a \o <<>> = a /\ b \o <<>> = b
    BY <1>2, ConcatEmptySeq
  <1>8. CASE x = <<>> /\ y = <<>>
    BY <1>3, <1>7, <1>8 DEF x, y, a, b
  <1>9. CASE x # <<>> /\ y # <<>>
    <2>1. a = b /\ x = y
      BY <1>2, <1>3, <1>4, <1>5, <1>9, LastMarked
    <2>. QED BY <2>1 DEF x, y, a, b
  <1>10. CASE x # <<>> /\ y = <<>>
    <2>1. a \o x = b
      BY <1>3, <1>7, <1>10
    <2>. QED BY <2>1, <1>1, <1>2, <1>4, <1>6, <1>10, NotEarlier
  <1>11. CASE x = <<>> /\ y # <<>>
    <2>1. b \o y = a
      BY <1>3, <1>7, <1>11
    <2>. QED BY <2>1, <1>1, <1>2, <1>5, <1>6, <1>11, NotEarlier
  <1>. QED BY <1>8, <1>9, <1>10, <1>11

(* One key, one addition for every name. *)
LEMMA PairsAgree ==
    ASSUME NEW S, HasNames(S), NEW t, HasTexts(t, S), Separable(t),
           NEW u, HasTexts(u, S), Separable(u),
           FlattenSeq(PairsOf(t)) = FlattenSeq(PairsOf(u))
    PROVE  \A n \in DOMAIN NameOrder : Pair(t, NameOrder[n]) = Pair(u, NameOrder[n])
  <1>. DEFINE N == Len(NameOrder)
  <1>1. PICK run : IsKeyRun(run, t, S)
    BY KeyRun
  <1>2. PICK other : IsKeyRun(other, u, S)
    BY KeyRun
  <1>. DEFINE Bad == {k \in 0 .. N : run[N - k] # other[N - k]}
  <1>3. N \in Nat /\ DOMAIN NameOrder = 1 .. N
    BY ReadQueryAssumption, LenProperties
  <1>4. Bad \subseteq 0 .. N /\ 0 \notin Bad
    <2>1. run[N] = other[N]
      BY <1>1, <1>2 DEF IsKeyRun
    <2>2. N - 0 = N
      BY <1>3
    <2>. QED BY <2>1, <2>2
  <1>5. ASSUME NEW k \in 1 .. N, k \in Bad PROVE k - 1 \in Bad
    <2>. DEFINE n == N - (k - 1)
    <2>1. n \in 1 .. N /\ n - 1 = N - k /\ k - 1 \in 0 .. N
      BY <1>3
    <2>. HIDE DEF n
    <2>2. run[n - 1] # other[n - 1]
      BY <2>1, <1>5
    <2>3. run[n] # other[n]
      BY <1>1, <1>2, <2>1, <2>2, LastPairAgrees
    <2>. QED BY <2>1, <2>3 DEF n
  <1>6. Bad = {}
    <2>. HIDE DEF Bad, N
    <2>. QED BY <1>3, <1>4, <1>5, NoLeast
  <1>7. ASSUME NEW n \in 1 .. N PROVE Pair(t, NameOrder[n]) = Pair(u, NameOrder[n])
    <2>1. N - n \in 0 .. N /\ N - (N - n) = n
      BY <1>3
    <2>2. run[n] = other[n]
      BY <1>6, <2>1
    <2>. QED BY <1>1, <1>2, <2>2, LastPairAgrees
  <1>. QED BY <1>3, <1>7

(* The same additions come of the same texts. *)
LEMMA TextsAgree ==
    ASSUME NEW S, HasNames(S), NEW t, HasTexts(t, S), NEW u, HasTexts(u, S),
           \A n \in DOMAIN NameOrder : Pair(t, NameOrder[n]) = Pair(u, NameOrder[n])
    PROVE  DOMAIN t = DOMAIN u /\ \A m \in DOMAIN t : t[m] = u[m]
  <1>1. ASSUME NEW m \in Range(NameOrder) PROVE Pair(t, m) = Pair(u, m)
    BY <1>1 DEF Range
  <1>2. ASSUME NEW m, NEW v PROVE <<"&", m, "=">> \o CharsOf(v) # <<>>
                                  \/ CharsOf(v) \notin Seq(S) \/ m \notin S
    <2>1. SUFFICES ASSUME CharsOf(v) \in Seq(S), m \in S PROVE <<"&", m, "=">> \o CharsOf(v) # <<>>
      OBVIOUS
    <2>2. <<"&", m, "=">> \in Seq(S) /\ <<"&", m, "=">> # <<>>
      BY <2>1 DEF HasNames
    <2>. QED BY <2>1, <2>2, ConcatEqualIffEmpty
  <1>3. ASSUME NEW m \in Range(NameOrder) PROVE m \in DOMAIN t <=> m \in DOMAIN u
    BY <1>1, <1>2, <1>3 DEF Pair, HasTexts, HasNames
  <1>4. DOMAIN t = DOMAIN u
    BY <1>3 DEF HasTexts
  <1>5. ASSUME NEW m \in DOMAIN t PROVE t[m] = u[m]
    <2>. DEFINE head == <<"&", m, "=">>
    <2>1. m \in Range(NameOrder) /\ m \in DOMAIN u
      BY <1>4 DEF HasTexts
    <2>2. head \o CharsOf(t[m]) = head \o CharsOf(u[m])
      BY <2>1, <1>1 DEF Pair
    <2>3. head \in Seq(S) /\ CharsOf(t[m]) \in Seq(S) /\ CharsOf(u[m]) \in Seq(S)
      <3>1. head \in Seq(S)
        BY <2>1 DEF HasNames
      <3>. QED BY <3>1, <2>1 DEF HasTexts
    <2>. HIDE DEF head
    <2>4. CharsOf(t[m]) = CharsOf(u[m])
      BY <2>2, <2>3, ConcatSimplifications
    <2>. QED BY <2>4, CharsInjective
  <1>. QED BY <1>4, <1>5

(* What stands in the key of separable texts. *)
LEMMA CanonIs ==
    ASSUME NEW S, HasNames(S), NEW t, HasTexts(t, S), Separable(t)
    PROVE  LET p == FlattenSeq(PairsOf(t))
           IN  /\ p \in Seq(S) /\ Canon(t) = SubSeq(p, 2, Len(p)) /\ Canon(t) \in Seq(S)
               /\ p = <<>> \/ (Len(p) >= 3 /\ p[1] = "&")
               /\ \A k \in 1 .. Len(Canon(t)) : Canon(t)[k] # "admin_read="
  <1>. DEFINE N == Len(NameOrder)
              p == FlattenSeq(PairsOf(t))
              c == SubSeq(p, 2, Len(p))
  <1>1. PICK run : IsKeyRun(run, t, S)
    BY KeyRun
  <1>2. N \in 0 .. N
    BY ReadQueryAssumption, LenProperties
  <1>3. p \in Seq(S) /\ MarksUpTo(p, N)
    BY <1>1, <1>2, RunMarks DEF IsKeyRun
  <1>4. Canon(t) = c
    BY DEF Canon, PairsOf
  <1>. HIDE DEF p
  <1>5. \A i \in 2 .. Len(p) : p[i] \in S
    BY <1>3
  <1>6. /\ c \in Seq(S) /\ Len(c) = IF 2 <= Len(p) THEN Len(p) - 2 + 1 ELSE 0
        /\ \A i \in 1 .. Len(p) - 2 + 1 : c[i] = p[2 + i - 1]
    BY <1>3, <1>5, SubSeqProperties
  <1>7. ASSUME NEW k \in 1 .. Len(c) PROVE c[k] # "admin_read="
    <2>1. k \in 1 .. Len(p) - 2 + 1 /\ 2 + k - 1 \in 1 .. Len(p)
      BY <1>3, <1>6
    <2>. QED BY <2>1, <1>3, <1>6 DEF MarksUpTo
  <1>8. p = <<>> \/ (Len(p) >= 3 /\ p[1] = "&")
    BY <1>3 DEF MarksUpTo
  <1>. QED BY <1>3, <1>4, <1>6, <1>7, <1>8 DEF p

(* The canonical text tells the texts of the request (bind.rs 297-299). *)
LEMMA CanonAgrees ==
    ASSUME NEW S, HasNames(S), NEW t, HasTexts(t, S), Separable(t),
           NEW u, HasTexts(u, S), Separable(u), Canon(t) = Canon(u)
    PROVE  DOMAIN t = DOMAIN u /\ \A m \in DOMAIN t : t[m] = u[m]
  <1>. DEFINE p == FlattenSeq(PairsOf(t))
              q == FlattenSeq(PairsOf(u))
  <1>1. /\ p \in Seq(S) /\ Canon(t) = SubSeq(p, 2, Len(p))
        /\ p = <<>> \/ (Len(p) >= 3 /\ p[1] = "&")
    BY CanonIs
  <1>2. /\ q \in Seq(S) /\ Canon(u) = SubSeq(q, 2, Len(q))
        /\ q = <<>> \/ (Len(q) >= 3 /\ q[1] = "&")
    BY CanonIs
  <1>. HIDE DEF p, q
  <1>3. /\ Len(SubSeq(p, 2, Len(p))) = IF 2 <= Len(p) THEN Len(p) - 2 + 1 ELSE 0
        /\ \A i \in 1 .. Len(p) - 2 + 1 : SubSeq(p, 2, Len(p))[i] = p[2 + i - 1]
    BY <1>1, SubSeqProperties
  <1>4. /\ Len(SubSeq(q, 2, Len(q))) = IF 2 <= Len(q) THEN Len(q) - 2 + 1 ELSE 0
        /\ \A i \in 1 .. Len(q) - 2 + 1 : SubSeq(q, 2, Len(q))[i] = q[2 + i - 1]
    BY <1>2, SubSeqProperties
  <1>5. SubSeq(p, 2, Len(p)) = SubSeq(q, 2, Len(q))
    BY <1>1, <1>2
  <1>6. Len(p) \in Nat /\ Len(q) \in Nat /\ Len(<<>>) = 0
    BY <1>1, <1>2, LenProperties
  <1>7. Len(p) = Len(q)
    <2>1. Len(p) = 0 \/ Len(p) >= 3
      BY <1>1, <1>6
    <2>2. Len(q) = 0 \/ Len(q) >= 3
      BY <1>2, <1>6
    <2>. QED BY <2>1, <2>2, <1>3, <1>4, <1>5, <1>6
  <1>8. ASSUME NEW i \in 1 .. Len(p) PROVE p[i] = q[i]
    <2>1. CASE i = 1
      <3>1. p # <<>> /\ q # <<>>
        BY <1>6, <1>7
      <3>. QED BY <2>1, <3>1, <1>1, <1>2
    <2>2. CASE i # 1
      <3>. DEFINE k == i - 1
      <3>1. k \in 1 .. Len(p) - 2 + 1 /\ 2 + k - 1 = i
        BY <2>2, <1>6
      <3>. HIDE DEF k
      <3>2. SubSeq(p, 2, Len(p))[k] = p[2 + k - 1]
        BY <3>1, <1>3
      <3>3. SubSeq(q, 2, Len(q))[k] = q[2 + k - 1]
        BY <3>1, <1>4, <1>7
      <3>. QED BY <3>1, <3>2, <3>3, <1>5
    <2>. QED BY <2>1, <2>2
  <1>9. p = q
    BY <1>1, <1>2, <1>7, <1>8, SeqEqual
  <1>10. \A n \in DOMAIN NameOrder : Pair(t, NameOrder[n]) = Pair(u, NameOrder[n])
    BY <1>9, PairsAgree DEF p, q
  <1>. QED BY <1>10, TextsAgree

(* Short sequences are sequences of their members. *)
LEMMA Tuple1 ==
    ASSUME NEW S, NEW x \in S
    PROVE  <<x>> \in Seq(S)
  OBVIOUS

(* And of two. *)
LEMMA Tuple2 ==
    ASSUME NEW S, NEW x \in S, NEW y \in S
    PROVE  <<x, y>> \in Seq(S)
  OBVIOUS

(* The first sign of what is appended is in the whole. *)
LEMMA FirstStays ==
    ASSUME NEW S, NEW x \in Seq(S), NEW e \in Seq(S), e # <<>>
    PROVE  \E k \in 1 .. Len(x \o e) : (x \o e)[k] = e[1]
  <1>1. \A k \in 1 .. Len(e) : (x \o e)[Len(x) + k] = e[k]
    BY ConcatAt
  <1>2. Len(x \o e) = Len(x) + Len(e)
    BY ConcatProperties
  <1>3. Len(x) \in Nat /\ Len(e) \in Nat \ {0}
    BY LenProperties, EmptySeq
  <1>4. Len(x) + 1 \in 1 .. Len(x \o e) /\ 1 \in 1 .. Len(e)
    BY <1>2, <1>3
  <1>. QED BY <1>1, <1>4

(* The cache key of a request tells its role and its texts, when these hold *)
(* no separator: nothing else has the key (exec.rs 141-150, bind.rs         *)
(* 297-299).                                                                *)
LEMMA KeyAgrees ==
    ASSUME NEW b, NEW c, NEW r \in {"", ReadRole}, NEW s \in {"", ReadRole},
           b.canon = Canon(b.texts), c.canon = Canon(c.texts),
           DOMAIN b.texts \subseteq Range(NameOrder), DOMAIN c.texts \subseteq Range(NameOrder),
           Separable(b.texts), Separable(c.texts), CacheKey(b, r) = CacheKey(c, s)
    PROVE  /\ r = s /\ DOMAIN b.texts = DOMAIN c.texts
           /\ \A m \in DOMAIN b.texts : b.texts[m] = c.texts[m]
  <1>. DEFINE t == b.texts
              u == c.texts
              Words == (UNION {Range(CharsOf(t[n])) : n \in DOMAIN t})
                       \cup (UNION {Range(CharsOf(u[n])) : n \in DOMAIN u})
              S == {"&", "=", "admin_read=", ReadRole} \cup Range(NameOrder) \cup Words
  <1>1. ASSUME NEW v PROVE CharsOf(v) \in Seq(Range(CharsOf(v)))
    <2>1. CASE v \in DOMAIN Chars
      <3>1. CharsOf(v) \in Seq(STRING)
        BY <2>1, ReadQueryAssumption DEF CharsOf, At
      <3>. QED BY <3>1, SeqOfRange
    <2>2. CASE v \notin DOMAIN Chars
      <3>1. CharsOf(v) = <<v>>
        BY <2>2 DEF CharsOf, At
      <3>2. <<v>> \in Seq({v})
        BY Tuple1, Zenon
      <3>. QED BY <3>1, <3>2, SeqOfRange
    <2>. QED BY <2>1, <2>2
  <1>2. HasNames(S)
    BY DEF HasNames
  <1>3. HasTexts(t, S)
    <2>1. ASSUME NEW n \in DOMAIN t PROVE CharsOf(t[n]) \in Seq(S)
      <3>1. Range(CharsOf(t[n])) \subseteq S
        OBVIOUS
      <3>. HIDE DEF S
      <3>. QED BY <3>1, <1>1, SeqMonotonic
    <2>. QED BY <2>1 DEF HasTexts
  <1>4. HasTexts(u, S)
    <2>1. ASSUME NEW n \in DOMAIN u PROVE CharsOf(u[n]) \in Seq(S)
      <3>1. Range(CharsOf(u[n])) \subseteq S
        OBVIOUS
      <3>. HIDE DEF S
      <3>. QED BY <3>1, <1>1, SeqMonotonic
    <2>. QED BY <2>1 DEF HasTexts
  <1>5. "admin_read=" \in S /\ ReadRole \in S
    OBVIOUS
  <1>. HIDE DEF S, t, u
  <1>6. /\ Canon(t) \in Seq(S)
        /\ \A k \in 1 .. Len(Canon(t)) : Canon(t)[k] # "admin_read="
    BY <1>2, <1>3, CanonIs DEF t
  <1>7. /\ Canon(u) \in Seq(S)
        /\ \A k \in 1 .. Len(Canon(u)) : Canon(u)[k] # "admin_read="
    BY <1>2, <1>4, CanonIs DEF u
  <1>8. \A x, y \in Seq(S) : x \o <<"admin_read=", ReadRole>> = y =>
            \E k \in 1 .. Len(y) : y[k] = "admin_read="
    <2>1. <<"admin_read=", ReadRole>> \in Seq(S)
      BY <1>5, Tuple2
    <2>2. <<"admin_read=", ReadRole>>[1] = "admin_read=" /\ <<"admin_read=", ReadRole>> # <<>>
      OBVIOUS
    <2>. QED BY <2>1, <2>2, FirstStays
  <1>9. r = s /\ Canon(t) = Canon(u)
    <2>1. CASE r = "" /\ s = ""
      BY <2>1 DEF CacheKey, t, u
    <2>2. CASE r # "" /\ s # ""
      <3>1. Canon(t) \o <<"admin_read=", ReadRole>> = Canon(u) \o <<"admin_read=", ReadRole>>
        BY <2>2 DEF CacheKey, t, u
      <3>. DEFINE e == <<"admin_read=", ReadRole>>
      <3>2. e \in Seq(S)
        <4>1. <<"admin_read=", ReadRole>> \in Seq(S)
          BY <1>5, Tuple2
        <4>. QED BY <4>1
      <3>. HIDE DEF e
      <3>3. Canon(t) \o e = Canon(u) \o e
        BY <3>1 DEF e
      <3>4. Canon(t) = Canon(u)
        BY <3>2, <3>3, <1>6, <1>7, ConcatSimplifications
      <3>. QED BY <3>4, <2>2
    <2>3. CASE r # "" /\ s = ""
      <3>1. Canon(t) \o <<"admin_read=", ReadRole>> = Canon(u)
        BY <2>3 DEF CacheKey, t, u
      <3>. QED BY <3>1, <1>6, <1>7, <1>8
    <2>4. CASE r = "" /\ s # ""
      <3>1. Canon(u) \o <<"admin_read=", ReadRole>> = Canon(t)
        BY <2>4 DEF CacheKey, t, u
      <3>. QED BY <3>1, <1>6, <1>7, <1>8
    <2>. QED BY <2>1, <2>2, <2>3, <2>4
  <1>10. DOMAIN t = DOMAIN u /\ \A m \in DOMAIN t : t[m] = u[m]
    <2>1. Separable(t) /\ Separable(u)
      BY DEF t, u
    <2>. QED BY <2>1, <1>2, <1>3, <1>4, <1>9, CanonAgrees
  <1>. QED BY <1>9, <1>10 DEF t, u

(* The parts of resolve, by name. *)
RawsOf(e, path, query) == [i \in DOMAIN e.params |-> RawOf(e.params[i], path, query)]
ResultsOf(e, raws) == [i \in DOMAIN e.params |-> Resolved(e.params[i], raws[i])]
GivenOf(e, raws) == {i \in DOMAIN e.params : ResultsOf(e, raws)[i] # Absent}
ValuesOf(e, raws) ==
    [n \in {e.params[i].name : i \in GivenOf(e, raws)} |->
        ResultsOf(e, raws)[CHOOSE i \in GivenOf(e, raws) : e.params[i].name = n]]
LoweredOf(e, raws) ==
    LowerBinds(SubstituteFragments(e.sql, e.params, raws), ValuesOf(e, raws))

(* Resolve (bind.rs resolve), by these names. *)
LEMMA ResolveIs ==
    ASSUME NEW e, NEW path, NEW query
    PROVE  LET raws == RawsOf(e, path, query)
               res == ResultsOf(e, raws)
               bad == {i \in DOMAIN e.params : res[i].t = "err"}
               low == LoweredOf(e, raws)
               texts == Texts(e.params, raws, ValuesOf(e, raws))
           IN  Resolve(e, path, query) =
                 IF bad /= {} THEN Unresolved(res[Min(bad)].v)
                 ELSE IF low.status /= "ok" THEN Unresolved(low.status)
                 ELSE [status |-> "ok", sql |-> low.sql, values |-> low.values,
                       map |-> ValuesOf(e, raws), texts |-> texts, canon |-> Canon(texts)]
  BY DEF Resolve, RawsOf, ResultsOf, GivenOf, ValuesOf, LoweredOf

(* The types of parameters, and the tag of their values. *)
Types == {"key", "symbol", "str", "int", "float", "date", "timestamp", "bool"}
TagOf(p) == IF p.ty \in {"key", "symbol", "str"} THEN "Text" ELSE p.ty

(* A text is refused, or becomes a value of the parameter's type. *)
LEMMA CoerceIs ==
    ASSUME NEW p, NEW raw
    PROVE  \/ Coerce(p, raw) \in {Err("400"), Err("422")}
           \/ p.ty \in Types /\ \E v : Coerce(p, raw) = Value(TagOf(p), v)
  <1>2. CASE p.ty \in {"key", "symbol"}
    <2>1. TagOf(p) = "Text" /\ p.ty \in Types
      BY <1>2 DEF TagOf, Types
    <2>. QED BY <2>1, <1>2 DEF Coerce
  <1>3. CASE p.ty = "str"
    <2>1. TagOf(p) = "Text" /\ p.ty \in Types
      BY <1>3 DEF TagOf, Types
    <2>. QED BY <2>1, <1>3 DEF Coerce
  <1>4. CASE p.ty \in {"int", "float"}
    <2>1. TagOf(p) = p.ty /\ p.ty \in Types
      BY <1>4 DEF TagOf, Types
    <2>. QED BY <2>1, <1>4 DEF Coerce
  <1>5. CASE p.ty \in {"date", "timestamp"}
    <2>1. TagOf(p) = p.ty /\ p.ty \in Types
      BY <1>5 DEF TagOf, Types
    <2>. QED BY <2>1, <1>5 DEF Coerce
  <1>6. CASE p.ty = "bool"
    <2>1. TagOf(p) = p.ty /\ p.ty \in Types
      BY <1>6 DEF TagOf, Types
    <2>. QED BY <2>1, <1>6 DEF Coerce
  <1>7. CASE p.ty \notin Types
    BY <1>7 DEF Coerce, Types
  <1>. QED BY <1>2, <1>3, <1>4, <1>5, <1>6, <1>7 DEF Types

(* What the value of a parameter may be. *)
LEMMA ResolvedIs ==
    ASSUME NEW p, NEW raw
    PROVE  LET x == Resolved(p, raw)
           IN  /\ x = [t |-> x.t, v |-> x.v]
               /\ x.t = "err" => x.v \in {"400", "422"}
               /\ x.t # "err" /\ raw = NoText => x = Absent
               /\ x.t # "err" /\ raw # NoText => x # Absent
               /\ x.t # "err" /\ raw # NoText /\ IsEnum(p) =>
                    /\ Choice(p, raw) \in DOMAIN p.select
                    /\ x = EnumValue(p, raw)
               /\ x.t # "err" /\ raw # NoText /\ ~ IsEnum(p) =>
                    x.t = TagOf(p)
  <1>1. CASE raw = NoText
    BY <1>1 DEF Resolved, Absent, Err, Value
  <1>2. CASE raw # NoText /\ IsEnum(p)
    BY <1>2 DEF Resolved, EnumValue, Absent, Err, Value
  <1>3. CASE raw # NoText /\ ~ IsEnum(p)
    <2>1. Resolved(p, raw) = Coerce(p, raw)
      BY <1>3 DEF Resolved
    <2>2. CASE Coerce(p, raw) \in {Err("400"), Err("422")}
      <3>1. PICK st \in {"400", "422"} : Resolved(p, raw) = [t |-> "err", v |-> st]
        BY <2>1, <2>2 DEF Err, Value
      <3>2. Resolved(p, raw).t = "err" /\ Resolved(p, raw).v \in {"400", "422"}
        BY <3>1
      <3>3. Resolved(p, raw) = [t |-> Resolved(p, raw).t, v |-> Resolved(p, raw).v]
        BY <3>1
      <3>. QED BY <3>2, <3>3
    <2>3. CASE Coerce(p, raw) \notin {Err("400"), Err("422")}
      <3>1. PICK v : p.ty \in Types /\ Coerce(p, raw) = Value(TagOf(p), v)
        BY <2>3, CoerceIs
      <3>2. Resolved(p, raw) = Value(TagOf(p), v) /\ TagOf(p) \notin {"err", "absent"}
        BY <2>1, <3>1 DEF TagOf, Types
      <3>3. Resolved(p, raw) = [t |-> TagOf(p), v |-> v]
        BY <3>2 DEF Value
      <3>4. Resolved(p, raw).t = TagOf(p)
        BY <3>3
      <3>5. Resolved(p, raw) = [t |-> Resolved(p, raw).t, v |-> Resolved(p, raw).v]
        BY <3>3
      <3>6. Resolved(p, raw) # Absent
        <4>1. Absent.t = "absent"
          BY DEF Absent, Value
        <4>. QED BY <3>2, <3>4, <4>1
      <3>. QED BY <3>2, <3>4, <3>5, <3>6, <1>3
    <2>. QED BY <2>2, <2>3
  <1>. QED BY <1>1, <1>2, <1>3

(* Two requests that give a parameter the same text give it the same value  *)
(* and choose the same fragments.                                           *)
LEMMA ParamAgrees ==
    ASSUME NEW p, NEW raw, NEW other,
           Resolved(p, raw).t # "err", Resolved(p, other).t # "err",
           Resolved(p, raw) = Absent <=> Resolved(p, other) = Absent,
           Resolved(p, raw) # Absent =>
             IF IsEnum(p) THEN Choice(p, raw) = Choice(p, other)
             ELSE Resolved(p, raw).v = Resolved(p, other).v
    PROVE  /\ Resolved(p, raw) = Resolved(p, other)
           /\ FragmentsOf(p, raw) = FragmentsOf(p, other)
  <1>1. raw = NoText <=> other = NoText
    BY ResolvedIs
  <1>2. CASE raw = NoText
    BY <1>1, <1>2
  <1>3. CASE raw # NoText /\ IsEnum(p)
    <2>1. Choice(p, raw) = Choice(p, other)
      BY <1>3, ResolvedIs
    <2>2. Resolved(p, raw) = EnumValue(p, raw) /\ Resolved(p, other) = EnumValue(p, other)
      BY <1>1, <1>3, ResolvedIs
    <2>. QED BY <1>1, <1>3, <2>1, <2>2 DEF EnumValue, FragmentsOf
  <1>4. CASE raw # NoText /\ ~ IsEnum(p)
    <2>1. Resolved(p, raw).v = Resolved(p, other).v
      BY <1>4, ResolvedIs
    <2>2. Resolved(p, raw).t = Resolved(p, other).t
      BY <1>1, <1>4, ResolvedIs
    <2>3. Resolved(p, raw) = Resolved(p, other)
      BY <2>1, <2>2, ResolvedIs
    <2>. QED BY <1>1, <1>4, <2>3 DEF FragmentsOf
  <1>. QED BY <1>2, <1>3, <1>4

(* A parameter that has a value has it under its name, in the values and in *)
(* the texts.                                                               *)
LEMMA ValueOfParam ==
    ASSUME NEW e \in EndpointSpecs, NEW raws, NEW i \in DOMAIN e.params
    PROVE  LET n == e.params[i].name
               x == Resolved(e.params[i], raws[i])
               vals == ValuesOf(e, raws)
           IN  /\ i \in GivenOf(e, raws) <=> x # Absent
               /\ n \in DOMAIN vals <=> x # Absent
               /\ x # Absent => vals[n] = x
               /\ x # Absent => Texts(e.params, raws, vals)[n] =
                    IF IsEnum(e.params[i]) THEN Choice(e.params[i], raws[i]) ELSE x.v
  <1>. DEFINE n == e.params[i].name
              x == Resolved(e.params[i], raws[i])
              vals == ValuesOf(e, raws)
  <1>1. \A j \in DOMAIN e.params : e.params[j].name = n => j = i
    BY ReadQueryAssumption DEF IsEndpointSpec
  <1>2. \A j : j \in GivenOf(e, raws) <=>
                 j \in DOMAIN e.params /\ Resolved(e.params[j], raws[j]) # Absent
    BY DEF GivenOf, ResultsOf
  <1>3. n \in DOMAIN vals <=> x # Absent
    BY <1>1, <1>2 DEF ValuesOf
  <1>4. ASSUME x # Absent PROVE vals[n] = x
    <2>1. i \in GivenOf(e, raws)
      BY <1>2, <1>4
    <2>2. (CHOOSE j \in GivenOf(e, raws) : e.params[j].name = n) = i
      BY <1>1, <1>2, <2>1
    <2>3. vals[n] = ResultsOf(e, raws)[i]
      BY <2>1, <2>2 DEF ValuesOf
    <2>. QED BY <2>3 DEF ResultsOf
  <1>5. ASSUME x # Absent
        PROVE  Texts(e.params, raws, vals)[n] =
                 IF IsEnum(e.params[i]) THEN Choice(e.params[i], raws[i]) ELSE x.v
    <2>1. (CHOOSE j \in DOMAIN e.params : e.params[j].name = n) = i
      BY <1>1
    <2>2. n \in DOMAIN vals /\ vals[n] = x
      BY <1>3, <1>4, <1>5
    <2>. DEFINE k == CHOOSE j \in DOMAIN e.params : e.params[j].name = n
    <2>3. Texts(e.params, raws, vals)[n] =
            IF IsEnum(e.params[k]) THEN Choice(e.params[k], raws[k]) ELSE vals[n].v
      <3>. HIDE DEF vals
      <3>. QED BY <2>2 DEF Texts
    <2>. HIDE DEF vals, n, x
    <2>. QED BY <2>1, <2>2, <2>3
  <1>. QED BY <1>2, <1>3, <1>4, <1>5

(* The extreme members of a set of numbers are in it. *)
LEMMA MinIn ==
    ASSUME NEW T, T \subseteq Nat, T # {}
    PROVE  Min(T) \in T /\ \A x \in T : Min(T) <= x
  <1>1. \E x \in T : \A y \in T : x <= y
    BY LeastNat
  <1>. QED BY <1>1 DEF Min

(* And the greatest. *)
LEMMA MaxIn ==
    ASSUME NEW n \in Nat, NEW T, T \subseteq 0 .. n, T # {}
    PROVE  Max(T) \in T
  <1>. DEFINE R == {n - x : x \in T}
  <1>1. PICK r \in R : \A y \in R : r <= y
    <2>1. R \subseteq Nat
      <3>1. \A x \in T : n - x \in Nat
        OBVIOUS
      <3>. QED BY <3>1
    <2>2. R # {}
      OBVIOUS
    <2>. HIDE DEF R
    <2>. QED BY <2>1, <2>2, LeastNat
  <1>2. PICK x \in T : r = n - x
    OBVIOUS
  <1>3. \A y \in T : x >= y
    <2>1. ASSUME NEW y \in T PROVE x >= y
      <3>1. n - x <= n - y
        BY <1>1, <1>2
      <3>2. x \in 0 .. n /\ y \in 0 .. n
        OBVIOUS
      <3>. QED BY <3>1, <3>2
    <2>. QED BY <2>1
  <1>. QED BY <1>3 DEF Max

(* The parameters of an endpoint are numbered. *)
LEMMA ParamsAre ==
    ASSUME NEW e \in EndpointSpecs
    PROVE  Len(e.params) \in Nat /\ DOMAIN e.params = 1 .. Len(e.params)
  <1>1. e.params \in Seq(Range(e.params))
    BY ReadQueryAssumption DEF IsEndpointSpec
  <1>. QED BY <1>1, LenProperties

(* What a request that resolves resolves to. *)
LEMMA BoundIs ==
    ASSUME NEW e \in EndpointSpecs, NEW path, NEW query, Resolve(e, path, query).status = "ok"
    PROVE  LET b == Resolve(e, path, query)
               raws == RawsOf(e, path, query)
           IN  /\ \A i \in DOMAIN e.params : Resolved(e.params[i], raws[i]).t # "err"
               /\ b.sql = LoweredOf(e, raws).sql /\ b.values = LoweredOf(e, raws).values
               /\ b.map = ValuesOf(e, raws)
               /\ b.texts = Texts(e.params, raws, ValuesOf(e, raws))
               /\ b.canon = Canon(b.texts)
  <1>. DEFINE raws == RawsOf(e, path, query)
              bad == {i \in DOMAIN e.params : ResultsOf(e, raws)[i].t = "err"}
  <1>1. bad = {}
    <2>1. SUFFICES ASSUME bad # {} PROVE FALSE
      OBVIOUS
    <2>2. Resolve(e, path, query) = Unresolved(ResultsOf(e, raws)[Min(bad)].v)
      BY <2>1, ResolveIs
    <2>3. ResultsOf(e, raws)[Min(bad)].v # "ok"
      <3>1. Min(bad) \in bad
        <4>1. bad \subseteq Nat
          BY ParamsAre
        <4>. HIDE DEF bad
        <4>. QED BY <2>1, <4>1, MinIn
      <3>2. \A i \in bad : ResultsOf(e, raws)[i].v \in {"400", "422"}
        BY ResolvedIs DEF ResultsOf
      <3>. QED BY <3>1, <3>2
    <2>. QED BY <2>2, <2>3 DEF Unresolved
  <1>. QED BY <1>1, ResolveIs DEF Unresolved, ResultsOf

(* A placeholder is replaced by what the parameters choose for it. *)
LEMMA FragmentTextAgrees ==
    ASSUME NEW params, NEW raws, NEW others, NEW name,
           NEW n \in Nat, DOMAIN params = 1 .. n,
           \A i \in DOMAIN params : FragmentsOf(params[i], raws[i]) = FragmentsOf(params[i], others[i])
    PROVE  FragmentText(params, raws, name) = FragmentText(params, others, name)
  <1>. DEFINE makers == {i \in DOMAIN params : name \in DOMAIN FragmentsOf(params[i], raws[i])}
  <1>1. makers = {i \in DOMAIN params : name \in DOMAIN FragmentsOf(params[i], others[i])}
    OBVIOUS
  <1>2. CASE makers = {}
    BY <1>1, <1>2 DEF FragmentText
  <1>3. CASE makers # {}
    <2>1. Max(makers) \in DOMAIN params
      <3>1. makers \subseteq 0 .. n
        OBVIOUS
      <3>2. Max(makers) \in makers
        <4>. HIDE DEF makers
        <4>. QED BY <3>1, <1>3, MaxIn
      <3>. QED BY <3>2
    <2>. QED BY <1>1, <1>3, <2>1 DEF FragmentText
  <1>. QED BY <1>2, <1>3
(* Two bound requests with the same texts; with the same statement. *)
SameTexts(b, c) ==
    DOMAIN b.texts = DOMAIN c.texts /\ \A m \in DOMAIN b.texts : b.texts[m] = c.texts[m]
SameStatement(b, c) == b.sql = c.sql /\ b.values = c.values /\ b.map = c.map

(* Two requests of an endpoint with the same texts run the same statement   *)
(* with the same values, whatever else they say.                            *)
LEMMA SameBound ==
    ASSUME NEW e \in EndpointSpecs, NEW path, NEW query, NEW path2, NEW query2,
           Resolve(e, path, query).status = "ok", Resolve(e, path2, query2).status = "ok",
           SameTexts(Resolve(e, path, query), Resolve(e, path2, query2))
    PROVE  SameStatement(Resolve(e, path, query), Resolve(e, path2, query2))
  <1>. DEFINE b == Resolve(e, path, query)
              c == Resolve(e, path2, query2)
              raws == RawsOf(e, path, query)
              others == RawsOf(e, path2, query2)
              x(i) == Resolved(e.params[i], raws[i])
              y(i) == Resolved(e.params[i], others[i])
  <1>1. /\ \A i \in DOMAIN e.params : x(i).t # "err"
        /\ b.sql = LoweredOf(e, raws).sql /\ b.values = LoweredOf(e, raws).values
        /\ b.map = ValuesOf(e, raws) /\ b.texts = Texts(e.params, raws, ValuesOf(e, raws))
    BY BoundIs
  <1>2. /\ \A i \in DOMAIN e.params : y(i).t # "err"
        /\ c.sql = LoweredOf(e, others).sql /\ c.values = LoweredOf(e, others).values
        /\ c.map = ValuesOf(e, others) /\ c.texts = Texts(e.params, others, ValuesOf(e, others))
    BY BoundIs
  <1>0. DOMAIN b.texts = DOMAIN c.texts /\ \A m \in DOMAIN b.texts : b.texts[m] = c.texts[m]
    BY DEF SameTexts
  <1>. HIDE DEF raws, others, b, c
  <1>3. /\ DOMAIN b.texts = DOMAIN ValuesOf(e, raws) /\ DOMAIN c.texts = DOMAIN ValuesOf(e, others)
        /\ DOMAIN b.texts = DOMAIN c.texts /\ \A m \in DOMAIN b.texts : b.texts[m] = c.texts[m]
    BY <1>0, <1>1, <1>2 DEF Texts
  <1>4. ASSUME NEW i \in DOMAIN e.params
        PROVE  /\ x(i) = y(i)
               /\ FragmentsOf(e.params[i], raws[i]) = FragmentsOf(e.params[i], others[i])
    <2>. DEFINE n == e.params[i].name
    <2>1. /\ n \in DOMAIN ValuesOf(e, raws) <=> x(i) # Absent
          /\ x(i) # Absent => b.texts[n] =
               IF IsEnum(e.params[i]) THEN Choice(e.params[i], raws[i]) ELSE x(i).v
      BY <1>1, ValueOfParam
    <2>2. /\ n \in DOMAIN ValuesOf(e, others) <=> y(i) # Absent
          /\ y(i) # Absent => c.texts[n] =
               IF IsEnum(e.params[i]) THEN Choice(e.params[i], others[i]) ELSE y(i).v
      BY <1>2, ValueOfParam
    <2>3. x(i) = Absent <=> y(i) = Absent
      BY <2>1, <2>2, <1>3
    <2>4. x(i) # Absent => b.texts[n] = c.texts[n]
      BY <2>1, <1>3
    <2>. QED BY <2>1, <2>2, <2>3, <2>4, <1>1, <1>2, ParamAgrees
  <1>5. GivenOf(e, raws) = GivenOf(e, others)
    BY <1>4 DEF GivenOf, ResultsOf
  <1>6. ValuesOf(e, raws) = ValuesOf(e, others)
    <2>1. ResultsOf(e, raws) = ResultsOf(e, others)
      BY <1>4 DEF ResultsOf
    <2>. QED BY <2>1, <1>5 DEF ValuesOf
  <1>7. ASSUME NEW name PROVE FragmentText(e.params, raws, name) = FragmentText(e.params, others, name)
    <2>1. Len(e.params) \in Nat /\ DOMAIN e.params = 1 .. Len(e.params)
      BY ParamsAre
    <2>2. \A i \in DOMAIN e.params :
            FragmentsOf(e.params[i], raws[i]) = FragmentsOf(e.params[i], others[i])
      BY <1>4
    <2>. QED BY <2>1, <2>2, FragmentTextAgrees
  <1>8. SubstituteFragments(e.sql, e.params, raws) = SubstituteFragments(e.sql, e.params, others)
    BY <1>7 DEF SubstituteFragments
  <1>9. LoweredOf(e, raws) = LoweredOf(e, others)
    BY <1>6, <1>8 DEF LoweredOf
  <1>10. b.sql = c.sql /\ b.values = c.values /\ b.map = c.map
    BY <1>1, <1>2, <1>6, <1>9
  <1>. QED BY <1>10 DEF SameStatement, b, c

(* What the parser makes of text: nothing, or one of the forms the lowering *)
(* knows (parse.rs parse_expr, parse_predicate, parse_order_by).            *)
LEMMA ExprIs ==
    ASSUME NEW s
    PROVE  ParseExpr(s) = NoExpr \/ ParseExpr(s).e \in {"leaf", "fn", "cast"}
  BY DEF ParseExpr, ParseLevel

(* A conjunct that parses has a form the renderer knows. *)
LEMMA PredicateIs ==
    ASSUME NEW s, ParsePredicate(s) # NoPredicate
    PROVE  IsPredicate(ParsePredicate(s))
  BY ExprIs DEF ParsePredicate, IsPredicate, Range

(* An item is ordered one way or the other. *)
LEMMA OrderItemIs ==
    ASSUME NEW s
    PROVE  OrderItem(s).dir \in {Kw("asc"), Kw("desc")}
  BY DEF OrderItem

(* The clauses of a statement start at its tokens. *)
LEMMA MarkersAre ==
    ASSUME NEW s \in Tokens, NEW word
    PROVE  Markers(s) \subseteq 1 .. Len(s) /\ MarkersOf(s, word) \subseteq Markers(s)
  BY LenProperties DEF Tokens, Markers, MarkersOf, TopLevel

(* What a clause holds is tokens of the statement. *)
LEMMA BodyIs ==
    ASSUME NEW s \in Tokens, NEW i \in 1 .. Len(s)
    PROVE  BodyAt(s, i) \in Tokens
  <1>. DEFINE later == {j \in Markers(s) : j > i}
              last == (IF later = {} THEN Len(s) + 1 ELSE Min(later)) - 1
  <1>1. Len(s) \in Nat /\ i + 1 \in Int
    BY LenProperties DEF Tokens
  <1>2. last \in Int /\ last <= Len(s)
    <2>1. CASE later = {}
      BY <1>1, <2>1
    <2>2. CASE later # {}
      <3>1. later \subseteq 1 .. Len(s)
        BY MarkersAre
      <3>2. Min(later) \in later
        <4>1. later \subseteq Nat
          BY <3>1
        <4>. HIDE DEF later
        <4>. QED BY <2>2, <4>1, MinIn
      <3>3. Min(later) \in 1 .. Len(s)
        <4>. HIDE DEF later
        <4>. QED BY <3>1, <3>2
      <3>. QED BY <2>2, <3>3, <1>1
    <2>. QED BY <2>1, <2>2
  <1>. DEFINE T == [k : STRING, n : STRING]
  <1>. HIDE DEF last, T
  <1>3. s \in Seq(T)
    BY DEF Tokens, T
  <1>4. \A j \in i + 1 .. last : s[j] \in T
    <2>1. \A j \in i + 1 .. last : j \in 1 .. Len(s)
      BY <1>1, <1>2
    <2>. QED BY <2>1, <1>3, ElementOfSeq
  <1>5. SubSeq(s, i + 1, last) \in Seq(T)
    BY <1>1, <1>2, <1>4, SubSeqProperties
  <1>. QED BY <1>5 DEF BodyAt, last, T, Tokens

(* And so is a clause the statement may not have. *)
LEMMA ClauseIs ==
    ASSUME NEW s \in Tokens, NEW word
    PROVE  Clause(s, word) \in Tokens
  <1>1. CASE HasClause(s, word)
    <2>. DEFINE at == MarkersOf(s, word)
    <2>1. at \subseteq 0 .. Len(s) /\ Len(s) \in Nat /\ at # {} /\ at \subseteq 1 .. Len(s)
      BY <1>1, MarkersAre, LenProperties DEF HasClause, Tokens
    <2>. HIDE DEF at
    <2>2. Max(at) \in 1 .. Len(s)
      BY <2>1, MaxIn
    <2>. QED BY <2>2, <1>1, BodyIs DEF Clause, at
  <1>2. CASE ~ HasClause(s, word)
    BY <1>2, EmptySeq DEF Clause, Tokens
  <1>. QED BY <1>1, <1>2

(* A list of clauses or items is never empty. *)
LEMMA SplitIs ==
    ASSUME NEW s \in Tokens
    PROVE  Len(SplitTopCommas(s)) > 0
  <1>. DEFINE at == {i \in TopLevel(s) : IsComma(s[i])}
              n == Cardinality(at)
  <1>1. n \in Nat
    <2>1. at \subseteq 1 .. Len(s) /\ Len(s) \in Nat
      BY LenProperties DEF Tokens, TopLevel
    <2>2. IsFiniteSet(1 .. Len(s))
      BY <2>1, FS_Interval
    <2>. HIDE DEF at
    <2>. QED BY <2>1, <2>2, FS_Subset, FS_CardinalityType
  <1>2. Len(Ascending(at)) = n
    <2>. HIDE DEF at
    <2>. QED BY <1>1 DEF Ascending
  <1>3. SplitTopCommas(s) = Cut(s, Ascending(at))
    BY DEF SplitTopCommas, Cuts
  <1>. HIDE DEF at
  <1>. DEFINE cuts == Ascending(at)
  <1>4. Len(cuts) \in Nat
    BY <1>1, <1>2
  <1>. HIDE DEF cuts
  <1>5. Len(Cut(s, cuts)) = Len(cuts) + 1
    BY <1>4 DEF Cut
  <1>. QED BY <1>3, <1>4, <1>5 DEF cuts

(* What an endpoint loads is what the lowering is written for (ir.rs). *)
LEMMA IrIs ==
    ASSUME NEW e \in EndpointSpecs
    PROVE  IsQueryIr(Load(e).ir) /\ Load(e).served \in BOOLEAN /\ Load(e).entry = e
  <1>. SUFFICES IsQueryIr(Load(e).ir)
    BY DEF Load, Lint
  <1>1. CASE ~ Lint(e)
    <2>1. Load(e).ir = NoIr
      BY <1>1 DEF Load
    <2>. QED BY <2>1 DEF IsQueryIr
  <1>2. CASE Lint(e)
    <2>. DEFINE s == e.sql
                ir == ParseSelect(s)
                order == ParseOrderBy(Clause(s, "order by"))
    <2>1. s \in Tokens
      BY ReadQueryAssumption DEF IsEndpointSpec
    <2>2. CASE ir = NoIr
      BY <1>2, <2>2 DEF Load, IsQueryIr
    <2>3. CASE ir # NoIr
      <3>1. /\ IsTableRef(Clause(s, "from"))
            /\ HasClause(s, "where") => ParsesWhere(Clause(s, "where"))
            /\ HasClause(s, "order by") => \A o \in Range(order) : o.expr /= <<>>
            /\ HasClause(s, "limit") => ParsesLimit(Clause(s, "limit"))
        BY <2>3 DEF ParseSelect
      <3>2. ir = [fallback |-> FALSE,
                  select |-> SplitTopCommas(Clause(s, "select")),
                  from |-> Clause(s, "from"),
                  joins |-> Joins(s),
                  where |-> IF HasClause(s, "where") THEN ParseWhere(Clause(s, "where")) ELSE <<>>,
                  groupBy |-> IF HasClause(s, "group by")
                              THEN SplitTopCommas(Clause(s, "group by")) ELSE <<>>,
                  orderBy |-> IF HasClause(s, "order by") THEN order ELSE <<>>,
                  limit |-> Clause(s, "limit")]
        BY <2>3 DEF ParseSelect
      <3>. HIDE DEF ir, s, order
      <3>3. ~ ir.fallback
        BY <3>2
      <3>4. Len(ir.select) > 0
        BY <3>2, <2>1, ClauseIs, SplitIs
      <3>5. Len(ir.from) \in 1 .. 2
        <4>1. ir.from = Clause(s, "from")
          BY <3>2
        <4>2. Len(Clause(s, "from")) \in {1, 2}
          BY <3>1 DEF IsTableRef
        <4>. QED BY <4>1, <4>2
      <3>6. Len(ir.limit) <= 1
        <4>0. ir.limit = Clause(s, "limit")
          BY <3>2
        <4>1. CASE HasClause(s, "limit")
          <5>1. Len(Clause(s, "limit")) = 1
            BY <4>1, <3>1 DEF ParsesLimit
          <5>2. Len(ir.limit) = 1
            BY <5>1, <4>0, Zenon
          <5>3. \A n : n = 1 => n <= 1
            OBVIOUS
          <5>. QED BY <5>2, <5>3, Zenon
        <4>2. CASE ~ HasClause(s, "limit")
          BY <4>2, <4>0 DEF Clause
        <4>. QED BY <4>1, <4>2
      <3>7. ASSUME NEW p \in Range(ir.where) PROVE IsPredicate(p)
        <4>1. HasClause(s, "where") /\ ir.where = ParseWhere(Clause(s, "where"))
          <5>1. Range(<<>>) = {}
            BY DEF Range
          <5>. QED BY <5>1, <3>2, <3>7
        <4>2. p # NoPredicate
          BY <4>1, <3>1, <3>7 DEF ParsesWhere
        <4>3. \E x : p = ParsePredicate(x)
          BY <4>1, <3>7 DEF ParseWhere, Range
        <4>. QED BY <4>2, <4>3, PredicateIs
      <3>8. ASSUME NEW o \in Range(ir.orderBy)
            PROVE  o.expr /= <<>> /\ o.dir \in {Kw("asc"), Kw("desc")}
        <4>1. HasClause(s, "order by") /\ ir.orderBy = order
          <5>1. Range(<<>>) = {}
            BY DEF Range
          <5>. QED BY <5>1, <3>2, <3>8
        <4>2. \E x : o = OrderItem(x)
          BY <4>1, <3>8 DEF order, ParseOrderBy, Range
        <4>. QED BY <4>1, <4>2, <3>1, <3>8, OrderItemIs
      <3>9. {"joins", "groupBy"} \subseteq DOMAIN ir
        BY <3>2
      <3>10. IsQueryIr(ir)
        BY <3>3, <3>4, <3>5, <3>6, <3>7, <3>8, <3>9 DEF IsQueryIr
      <3>. QED BY <3>10, <1>2 DEF Load, ir, s
    <2>. QED BY <2>2, <2>3
  <1>. QED BY <1>1, <1>2

(* A request as the caller, its path and its query string make it: what it  *)
(* resolves to, and the role it runs under.                                 *)
BoundOf(c, path, raw) == Resolve(spec.entry, path, ScopedQuery(spec.entry, c, ParseQuery(raw)))
RoleOf(c) == AdminReadElevation(spec.entry, c)

(* The body is what a request with this key had run. *)
MadeFor(key, body) ==
    \E c \in Callers, path \in Paths, raw \in RawQueries :
        /\ BoundOf(c, path, raw).status = "ok"
        /\ key = CacheKey(BoundOf(c, path, raw), RoleOf(c))
        /\ body.q = Produce(kind, spec, BoundOf(c, path, raw), RoleOf(c))
        /\ body.texts = BoundOf(c, path, raw).texts
        /\ body.q.status = "ok"

(* What has been answered is what the caller's request ran itself, or the   *)
(* body of a request with its key; a tool call runs no self-tenant endpoint *)
(* and a caller without a subject gets none.                                *)
AnswerMade ==
    Answered =>
      /\ OwnBound.status = "ok"
      /\ IF out.via = "http" THEN out.caller \in Callers /\ Scopable(spec.entry, out.caller)
         ELSE ~spec.entry.selfTenant
      /\ \/ /\ out.body.q = Produce(kind, spec, OwnBound, OwnRole)
            /\ out.body.texts = OwnBound.texts
         \/ out.via = "http" /\ MadeFor(CacheKey(OwnBound, OwnRole), out.body)

(* The inductive invariant: every body is kept under the key of a request   *)
(* that ran it, and every answer is the request's own or such a body.       *)
QueryIInv ==
    /\ QueryTypeOK
    /\ \E e \in EndpointSpecs : spec = Load(e)
    /\ IsFiniteSet(DOMAIN cache)
    /\ \A key \in DOMAIN cache : MadeFor(key, cache[key])
    /\ AnswerMade

(* The statuses a request may end with. *)
LEMMA LowerWithIs ==
    ASSUME NEW sql, NEW vals, NEW after
    PROVE  LowerWith(sql, vals, after).status \in {"ok", "500"}
  BY DEF LowerWith, Failed, Lowered

(* A statement runs or fails as a server error. *)
LEMMA ProduceIs ==
    ASSUME NEW k, NEW sp, NEW b, NEW role
    PROVE  Produce(k, sp, b, role).status \in {"ok", "500"}
  <1>1. LowerIr(sp.ir, sp.entry.chFinal, b.map).status \in {"ok", "500"}
    BY LowerWithIs DEF LowerIr, LowerTextBinds, Failed, Lowered
  <1>. QED BY <1>1 DEF Produce, Executed

(* A request resolves, is a client's mistake or an error of the endpoint. *)
LEMMA ResolveStatus ==
    ASSUME NEW e \in EndpointSpecs, NEW path, NEW query
    PROVE  Resolve(e, path, query).status \in {"ok", "400", "422", "500"}
  <1>. DEFINE raws == RawsOf(e, path, query)
              bad == {i \in DOMAIN e.params : ResultsOf(e, raws)[i].t = "err"}
  <1>1. CASE bad # {}
    <2>1. Resolve(e, path, query) = Unresolved(ResultsOf(e, raws)[Min(bad)].v)
      BY <1>1, ResolveIs
    <2>2. Min(bad) \in bad
      <3>1. bad \subseteq Nat
        BY ParamsAre
      <3>. HIDE DEF bad
      <3>. QED BY <1>1, <3>1, MinIn
    <2>3. \A i \in bad : ResultsOf(e, raws)[i].v \in {"400", "422"}
      BY ResolvedIs DEF ResultsOf
    <2>4. Unresolved(ResultsOf(e, raws)[Min(bad)].v).status = ResultsOf(e, raws)[Min(bad)].v
      BY DEF Unresolved
    <2>. QED BY <2>1, <2>2, <2>3, <2>4
  <1>2. CASE bad = {}
    <2>1. LoweredOf(e, raws).status \in {"ok", "500"}
      BY LowerWithIs DEF LoweredOf, LowerBinds
    <2>. QED BY <1>2, <2>1, ResolveIs DEF Unresolved
  <1>. QED BY <1>1, <1>2

(* The key of a request is that of its texts, which are of parameters.      *)
LEMMA KeyIs ==
    ASSUME NEW e \in EndpointSpecs, NEW path, NEW query, Resolve(e, path, query).status = "ok"
    PROVE  /\ Resolve(e, path, query).canon = Canon(Resolve(e, path, query).texts)
           /\ DOMAIN Resolve(e, path, query).texts \subseteq Range(NameOrder)
  <1>. DEFINE raws == RawsOf(e, path, query)
              b == Resolve(e, path, query)
  <1>1. b.canon = Canon(b.texts) /\ b.texts = Texts(e.params, raws, ValuesOf(e, raws))
    BY BoundIs
  <1>2. \A i \in DOMAIN e.params : e.params[i].name \in Range(NameOrder)
    BY ReadQueryAssumption DEF IsEndpointSpec
  <1>. HIDE DEF raws, b
  <1>3. DOMAIN b.texts \subseteq Range(NameOrder)
    <2>1. DOMAIN b.texts = DOMAIN ValuesOf(e, raws)
      BY <1>1 DEF Texts
    <2>2. DOMAIN ValuesOf(e, raws) = {e.params[i].name : i \in GivenOf(e, raws)}
      BY DEF ValuesOf
    <2>3. GivenOf(e, raws) \subseteq DOMAIN e.params
      BY DEF GivenOf
    <2>. QED BY <2>1, <2>2, <2>3, <1>2
  <1>. QED BY <1>1, <1>3 DEF b

(* b is what a request of the endpoint resolved to, with texts that hold no *)
(* separator.                                                               *)
BoundHere(e, b) ==
    /\ \E path, query : b = Resolve(e, path, query)
    /\ b.status = "ok" /\ Separable(b.texts)

(* The roles a statement may run under. *)
Roles == {"", ReadRole}

(* Two requests of one endpoint with one key and texts that hold no         *)
(* separator are answered by the same statement under the same role.        *)
LEMMA OneStatement ==
    ASSUME NEW e \in EndpointSpecs, NEW k, NEW sp, NEW b, NEW c,
           NEW r \in Roles, NEW s \in Roles,
           BoundHere(e, b), BoundHere(e, c), CacheKey(b, r) = CacheKey(c, s)
    PROVE  Produce(k, sp, b, r) = Produce(k, sp, c, s)
  <1>1. b.canon = Canon(b.texts) /\ DOMAIN b.texts \subseteq Range(NameOrder)
    BY KeyIs DEF BoundHere
  <1>2. c.canon = Canon(c.texts) /\ DOMAIN c.texts \subseteq Range(NameOrder)
    BY KeyIs DEF BoundHere
  <1>3. Separable(b.texts) /\ Separable(c.texts)
    BY DEF BoundHere
  <1>4. r = s /\ SameTexts(b, c)
    BY <1>1, <1>2, <1>3, KeyAgrees DEF SameTexts, Roles
  <1>5. SameStatement(b, c)
    BY <1>4, SameBound DEF BoundHere
  <1>. QED BY <1>4, <1>5 DEF Produce, SameStatement

(* An elevation is one of them. *)
LEMMA RoleIs ==
    ASSUME NEW e, NEW c
    PROVE  AdminReadElevation(e, c) \in {"", ReadRole}
  BY DEF AdminReadElevation

(* The invariant gives each caller its own answer. *)
LEMMA MadeIsOwn ==
    ASSUME QueryIInv
    PROVE  QueryInv
  <1>1. PICK e \in EndpointSpecs : spec = Load(e)
    BY DEF QueryIInv
  <1>2. spec.entry = e
    BY <1>1, IrIs
  <1>3. ASSUME Answered, Separable(OwnBound.texts), Separable(out.body.texts)
        PROVE  out.body.q = Produce(kind, spec, OwnBound, OwnRole)
    <2>1. CASE out.body.q = Produce(kind, spec, OwnBound, OwnRole)
      BY <2>1
    <2>2. CASE out.via = "http" /\ MadeFor(CacheKey(OwnBound, OwnRole), out.body)
      <3>1. PICK c \in Callers, path \in Paths, raw \in RawQueries :
              /\ BoundOf(c, path, raw).status = "ok"
              /\ CacheKey(OwnBound, OwnRole) = CacheKey(BoundOf(c, path, raw), RoleOf(c))
              /\ out.body.q = Produce(kind, spec, BoundOf(c, path, raw), RoleOf(c))
              /\ out.body.texts = BoundOf(c, path, raw).texts
        BY <2>2 DEF MadeFor
      <3>2. OwnBound.status = "ok"
        BY <1>3 DEF QueryIInv, AnswerMade
      <3>3. OwnBound = Resolve(e, out.path, OwnQuery)
        BY <1>2 DEF OwnBound
      <3>4. BoundOf(c, path, raw) = Resolve(e, path, ScopedQuery(e, c, ParseQuery(raw)))
        BY <1>2 DEF BoundOf
      <3>5. OwnRole \in {"", ReadRole} /\ RoleOf(c) \in {"", ReadRole}
        BY RoleIs DEF OwnRole, RoleOf
      <3>6. PICK own, other, r, t :
              /\ own = OwnBound /\ other = BoundOf(c, path, raw)
              /\ r = OwnRole /\ t = RoleOf(c)
        OBVIOUS
      <3>7. BoundHere(e, own) /\ BoundHere(e, other)
        BY <1>3, <3>1, <3>2, <3>3, <3>4, <3>6 DEF BoundHere
      <3>8. CacheKey(own, r) = CacheKey(other, t)
        BY <3>1, <3>6
      <3>9. r \in Roles /\ t \in Roles
        BY <3>5, <3>6 DEF Roles
      <3>10. PICK k, sp : k = kind /\ sp = spec
        OBVIOUS
      <3>11. Produce(k, sp, own, r) = Produce(k, sp, other, t)
        BY <3>7, <3>8, <3>9, OneStatement
      <3>. QED BY <3>1, <3>6, <3>10, <3>11
    <2>. QED BY <1>3, <2>1, <2>2 DEF QueryIInv, AnswerMade
  <1>. QED BY <1>3 DEF QueryIInv, QueryInv, ServedOwn

(* What the cache holds and what is answered, after a step.                 *)
CacheOf(entries) ==
    /\ IsFiniteSet(DOMAIN entries) /\ Cardinality(DOMAIN entries) <= CacheCapacity
    /\ \A key \in DOMAIN entries : MadeFor(key, entries[key])

(* The endpoint and its backend stay as they were loaded. *)
LEMMA MadeStays ==
    ASSUME kind' = kind, spec' = spec, NEW CONSTANT key, NEW CONSTANT body
    PROVE  MadeFor(key, body)' = MadeFor(key, body)
  BY DEF MadeFor, BoundOf, RoleOf

(* A step that leaves the cache alone leaves it so. *)
LEMMA CacheStays == QueryIInv => CacheOf(cache)
  BY DEF QueryIInv, QueryTypeOK, CacheOf

(* What a step has to keep. *)
LEMMA Assembled ==
    ASSUME QueryIInv, kind' = kind, spec' = spec, CacheOf(cache'), out'.status \in Statuses, AnswerMade'
    PROVE  QueryIInv'
  <1>1. \A key \in DOMAIN cache' : MadeFor(key, cache[key])'
    <2>. TAKE key \in DOMAIN cache'
    <2>1. PICK k, body : k = key /\ body = cache'[key]
      OBVIOUS
    <2>2. MadeFor(k, body)
      BY <2>1 DEF CacheOf
    <2>3. MadeFor(k, body)'
      BY <2>2, MadeStays
    <2>. QED BY <2>1, <2>3 DEF MadeFor
  <1>2. \A key \in DOMAIN cache' : cache'[key].q.status = "ok"
    BY DEF CacheOf, MadeFor
  <1>3. QueryTypeOK'
    BY <1>2 DEF QueryIInv, QueryTypeOK, CacheOf
  <1>4. (\E e \in EndpointSpecs : spec = Load(e))'
    BY DEF QueryIInv
  <1>5. IsFiniteSet(DOMAIN cache')
    BY DEF CacheOf
  <1>. QED BY <1>1, <1>3, <1>4, <1>5 DEF QueryIInv

(* A request that got no statement to run, or whose statement failed. *)
LEMMA EndsWithout ==
    ASSUME NEW st, out'.status = st, st \notin {"200", "304"}
    PROVE  AnswerMade'
  BY DEF AnswerMade, Answered

(* Nothing is cached or answered at first. *)
LEMMA InitHolds == QueryInit => QueryIInv
  <1>. SUFFICES ASSUME QueryInit PROVE QueryIInv
    OBVIOUS
  <1>1. PICK e \in EndpointSpecs : spec = Load(e)
    BY DEF QueryInit
  <1>2. DOMAIN cache = {}
    BY DEF QueryInit
  <1>3. out.status = "none"
    BY DEF QueryInit, NoAnswer, Answer
  <1>4. IsFiniteSet(DOMAIN cache) /\ Cardinality(DOMAIN cache) = 0
    BY <1>2, FS_EmptySet
  <1>5. 0 <= CacheCapacity
    BY ReadQueryAssumption
  <1>6. QueryTypeOK
    BY <1>1, <1>2, <1>3, <1>4, <1>5, IrIs DEF QueryTypeOK, QueryInit, Statuses
  <1>7. AnswerMade
    BY <1>3 DEF AnswerMade, Answered
  <1>. QED BY <1>1, <1>2, <1>4, <1>6, <1>7 DEF QueryIInv

(* get_or_compute stores a body under the key of the request it was made for. *)
LEMMA StoreKeeps ==
    ASSUME QueryIInv, NEW key, NEW body, MadeFor(key, body), Store(key, body)
    PROVE  CacheOf(cache')
  <1>1. PICK kept \in SUBSET DOMAIN cache :
          /\ Cardinality(kept) < CacheCapacity
          /\ cache' = [k \in kept \cup {key} |-> IF k = key THEN body ELSE cache[k]]
    BY DEF Store
  <1>2. IsFiniteSet(kept) /\ Cardinality(kept) \in Nat
    BY FS_Subset, FS_CardinalityType DEF QueryIInv
  <1>3. IsFiniteSet(kept \cup {key}) /\ Cardinality(kept \cup {key}) <= Cardinality(kept) + 1
    BY <1>2, FS_AddElement
  <1>4. DOMAIN cache' = kept \cup {key}
    BY <1>1
  <1>5. Cardinality(DOMAIN cache') <= CacheCapacity
    <2>1. Cardinality(kept \cup {key}) \in Nat
      BY <1>3, FS_CardinalityType
    <2>. QED BY <1>1, <1>2, <1>3, <1>4, <2>1, ReadQueryAssumption
  <1>6. \A k \in DOMAIN cache' : MadeFor(k, cache'[k])
    BY <1>1, <1>4 DEF QueryIInv
  <1>. QED BY <1>3, <1>4, <1>5, <1>6 DEF CacheOf

(* An entry that goes takes nothing else with it. *)
LEMMA ForgetKeeps ==
    ASSUME QueryIInv, NEW key, Forget(key)
    PROVE  CacheOf(cache')
  <1>1. DOMAIN cache' = DOMAIN cache \ {key}
    BY DEF Forget
  <1>2. IsFiniteSet(DOMAIN cache)
    BY DEF QueryIInv
  <1>3. IsFiniteSet(DOMAIN cache') /\ Cardinality(DOMAIN cache') <= Cardinality(DOMAIN cache)
    BY <1>1, <1>2, FS_Subset
  <1>4. Cardinality(DOMAIN cache') \in Nat /\ Cardinality(DOMAIN cache) \in Nat
    BY <1>2, <1>3, FS_CardinalityType
  <1>5. Cardinality(DOMAIN cache') <= CacheCapacity
    BY <1>3, <1>4, ReadQueryAssumption DEF QueryIInv, QueryTypeOK
  <1>6. \A k \in DOMAIN cache' : MadeFor(k, cache'[k])
    BY DEF QueryIInv, Forget
  <1>. QED BY <1>3, <1>5, <1>6 DEF CacheOf

(* What a request over HTTP leaves in out. *)
LEMMA HttpOut ==
    ASSUME NEW CONSTANT c, NEW CONSTANT path, NEW CONSTANT raw, NEW st, NEW body, spec' = spec,
           out' = Answer("http", c, path, raw, st, body)
    PROVE  /\ OwnBound' = BoundOf(c, path, raw) /\ OwnRole' = RoleOf(c)
           /\ out'.via = "http" /\ out'.caller = c /\ out'.status = st /\ out'.body = body
  <1>1. /\ out'.via = "http" /\ out'.caller = c /\ out'.path = path /\ out'.raw = raw
        /\ out'.status = st /\ out'.body = body
    BY DEF Answer
  <1>. QED BY <1>1 DEF OwnBound, OwnRole, OwnQuery, BoundOf, RoleOf

(* It is answered from the cache, or by the statement it ran. *)
LEMMA HttpAnswers ==
    ASSUME NEW CONSTANT c, NEW CONSTANT path, NEW CONSTANT raw, NEW st, NEW body,
           kind' = kind, spec' = spec, c \in Callers, Scopable(spec.entry, c),
           out' = Answer("http", c, path, raw, st, body), BoundOf(c, path, raw).status = "ok",
           \/ /\ body.q = Produce(kind, spec, BoundOf(c, path, raw), RoleOf(c))
              /\ body.texts = BoundOf(c, path, raw).texts
           \/ MadeFor(CacheKey(BoundOf(c, path, raw), RoleOf(c)), body)
    PROVE  AnswerMade'
  <1>1. PICK b, r, x : b = BoundOf(c, path, raw) /\ r = RoleOf(c) /\ x = body
    OBVIOUS
  <1>2. OwnBound' = b /\ OwnRole' = r /\ out'.via = "http" /\ out'.body = x
    BY <1>1, HttpOut
  <1>3. IF (out.via = "http")' THEN (out.caller \in Callers)' /\ Scopable(spec.entry, out.caller)'
        ELSE (~spec.entry.selfTenant)'
    <2>1. out'.caller = c
      BY HttpOut
    <2>. QED BY <1>2, <2>1 DEF Scopable
  <1>5. CASE x.q = Produce(kind, spec, b, r) /\ x.texts = b.texts
    BY <1>1, <1>2, <1>3, <1>5 DEF AnswerMade
  <1>4. CASE MadeFor(CacheKey(b, r), x)
    <2>1. PICK key : key = CacheKey(b, r)
      OBVIOUS
    <2>2. MadeFor(key, x)'
      BY <1>4, <2>1, MadeStays
    <2>3. MadeFor(CacheKey(OwnBound, OwnRole), out.body)'
      BY <1>2, <2>1, <2>2 DEF MadeFor
    <2>. QED BY <1>1, <1>2, <1>3, <2>3 DEF AnswerMade
  <1>. QED BY <1>1, <1>4, <1>5

(* A request over HTTP (run_spec). *)
LEMMA RunKeeps ==
    ASSUME QueryIInv, NEW c \in Callers, NEW path \in Paths, NEW raw \in RawQueries,
           RunSpec(c, path, raw)
    PROVE  QueryIInv'
  <1>1. PICK e \in EndpointSpecs : spec = Load(e)
    BY DEF QueryIInv
  <1>2. spec.entry = e
    BY <1>1, IrIs
  <1>3. PICK b, role, key, q : /\ b = BoundOf(c, path, raw) /\ role = RoleOf(c)
                               /\ key = CacheKey(b, role) /\ q = Produce(kind, spec, b, role)
    OBVIOUS
  <1>4. kind' = kind /\ spec' = spec
    BY DEF RunSpec
  <1>5. b.status \in {"ok", "400", "422", "500"}
    BY <1>2, <1>3, ResolveStatus DEF BoundOf
  <1>6. q.status \in {"ok", "500"}
    BY <1>3, ProduceIs
  <1>. DEFINE Ends == \E st \in {"400", "403", "404", "422", "500"} :
                        out' = Answer("http", c, path, raw, st, NoBody) /\ cache' = cache
              Hit == /\ b.status = "ok" /\ Scopable(e, c) /\ key \in DOMAIN cache /\ cache' = cache
                     /\ \E inm \in BOOLEAN :
                            out' = Answer("http", c, path, raw, RespondStatus(inm), cache[key])
              Ran == /\ b.status = "ok" /\ Scopable(e, c) /\ q.status = "ok"
                     /\ \E inm \in BOOLEAN :
                            out' = Answer("http", c, path, raw, RespondStatus(inm), Body(q, b, path))
                     /\ Store(key, Body(q, b, path)) \/ cache' = cache
  <1>7. Ends \/ Hit \/ Ran
    <2>. DEFINE status == CASE ~spec.served -> "404"
                            [] spec.served /\ ~Scopable(e, c) -> "403"
                            [] OTHER -> b.status
                hit == e.cache /\ key \in DOMAIN cache
    <2>1. /\ b = Resolve(spec.entry, path, ScopedQuery(spec.entry, c, ParseQuery(raw)))
          /\ role = AdminReadElevation(spec.entry, c)
      BY <1>3 DEF BoundOf, RoleOf
    <2>2. \/ /\ status /= "ok"
             /\ out' = Answer("http", c, path, raw, status, NoBody)
             /\ UNCHANGED cache
          \/ /\ status = "ok" /\ hit
             /\ \E inm \in BOOLEAN :
                    out' = Answer("http", c, path, raw, RespondStatus(inm), cache[key])
             /\ UNCHANGED cache
          \/ /\ status = "ok" /\ ~hit /\ q.status /= "ok"
             /\ out' = Answer("http", c, path, raw, q.status, NoBody)
             /\ UNCHANGED cache
          \/ \E rows \in 0..1 :
             /\ status = "ok" /\ ~hit /\ q.status = "ok"
             /\ IF NotFound(e, rows)
                THEN out' = Answer("http", c, path, raw, "404", NoBody) /\ UNCHANGED cache
                ELSE /\ \E inm \in BOOLEAN :
                            out' = Answer("http", c, path, raw, RespondStatus(inm), Body(q, b, path))
                     /\ IF e.cache THEN Store(key, Body(q, b, path)) ELSE UNCHANGED cache
      BY <1>2, <1>3, <2>1 DEF RunSpec
    <2>3. status = "ok" => b.status = "ok" /\ Scopable(e, c)
      OBVIOUS
    <2>4. status /= "ok" => status \in {"400", "403", "404", "422", "500"}
      BY <1>5
    <2>. HIDE DEF status, hit
    <2>5. CASE /\ status /= "ok" /\ cache' = cache
               /\ out' = Answer("http", c, path, raw, status, NoBody)
      BY <2>4, <2>5
    <2>6. hit => key \in DOMAIN cache
      BY DEF hit
    <2>7. CASE /\ status = "ok" /\ hit /\ cache' = cache
               /\ \E inm \in BOOLEAN :
                      out' = Answer("http", c, path, raw, RespondStatus(inm), cache[key])
      BY <2>3, <2>6, <2>7
    <2>8. CASE /\ q.status /= "ok" /\ cache' = cache
               /\ out' = Answer("http", c, path, raw, q.status, NoBody)
      BY <1>6, <2>8
    <2>9. CASE out' = Answer("http", c, path, raw, "404", NoBody) /\ cache' = cache
      BY <2>9
    <2>10. CASE /\ status = "ok" /\ q.status = "ok"
                /\ \E inm \in BOOLEAN :
                       out' = Answer("http", c, path, raw, RespondStatus(inm), Body(q, b, path))
                /\ Store(key, Body(q, b, path)) \/ cache' = cache
      BY <2>3, <2>10
    <2>. QED BY <2>2, <2>5, <2>7, <2>8, <2>9, <2>10
  <1>8. CASE Ends
    <2>1. PICK st \in {"400", "403", "404", "422", "500"} :
            out' = Answer("http", c, path, raw, st, NoBody) /\ cache' = cache
      BY <1>8
    <2>2. out'.status = st
      BY <2>1 DEF Answer
    <2>3. AnswerMade'
      BY <2>2, EndsWithout
    <2>4. CacheOf(cache')
      BY <2>1, CacheStays
    <2>. QED BY <1>4, <2>2, <2>3, <2>4, Assembled DEF Statuses
  <1>9. CASE Hit
    <2>1. PICK inm \in BOOLEAN :
            out' = Answer("http", c, path, raw, RespondStatus(inm), cache[key])
      BY <1>9
    <2>2. MadeFor(key, cache[key])
      BY <1>9 DEF QueryIInv
    <2>3. AnswerMade'
      BY <1>2, <1>3, <1>4, <1>9, <2>1, <2>2, HttpAnswers
    <2>4. out'.status \in Statuses
      BY <2>1 DEF Answer, RespondStatus, Statuses
    <2>5. CacheOf(cache')
      BY <1>9, CacheStays
    <2>. QED BY <1>4, <2>3, <2>4, <2>5, Assembled
  <1>10. CASE Ran
    <2>1. PICK inm \in BOOLEAN :
            out' = Answer("http", c, path, raw, RespondStatus(inm), Body(q, b, path))
      BY <1>10
    <2>2. Body(q, b, path).q = q /\ Body(q, b, path).texts = b.texts
      BY DEF Body
    <2>3. AnswerMade'
      BY <1>2, <1>3, <1>4, <1>10, <2>1, <2>2, HttpAnswers
    <2>4. out'.status \in Statuses
      BY <2>1 DEF Answer, RespondStatus, Statuses
    <2>5. MadeFor(key, Body(q, b, path))
      BY <1>3, <1>10, <2>2 DEF MadeFor
    <2>6. CacheOf(cache')
      BY <1>10, <2>5, StoreKeeps, CacheStays
    <2>. QED BY <1>4, <2>3, <2>4, <2>6, Assembled
  <1>. HIDE DEF Ends, Hit, Ran
  <1>. QED BY <1>7, <1>8, <1>9, <1>10

(* A tool call (execute_to_value): no caller, no elevation, no cache. *)
LEMMA ToolKeeps ==
    ASSUME QueryIInv, NEW path \in Paths, NEW raw \in RawQueries, NEW rows \in 0..1,
           ExecuteToValue(path, raw, rows)
    PROVE  QueryIInv'
  <1>1. PICK e \in EndpointSpecs : spec = Load(e)
    BY DEF QueryIInv
  <1>2. spec.entry = e
    BY <1>1, IrIs
  <1>3. PICK b, q, caller : /\ b = Resolve(e, path, ParseQuery(raw))
                            /\ q = Produce(kind, spec, b, "") /\ caller = NoAnswer.caller
    OBVIOUS
  <1>4. kind' = kind /\ spec' = spec /\ cache' = cache
    BY DEF ExecuteToValue
  <1>5. b.status \in {"ok", "400", "422", "500"}
    BY <1>3, ResolveStatus
  <1>6. q.status \in {"ok", "500"}
    BY <1>3, ProduceIs
  <1>7. PICK status : /\ status \in {"200", "400", "403", "404", "422", "500"}
                      /\ status = "200" => b.status = "ok" /\ ~e.selfTenant
                      /\ out' = Answer("mcp", caller, path, raw, status,
                                       IF status = "200" THEN Body(q, b, path) ELSE NoBody)
    <2>. DEFINE st == CASE e.selfTenant -> "403"
                        [] ~e.selfTenant /\ b.status /= "ok" -> b.status
                        [] ~e.selfTenant /\ b.status = "ok" /\ q.status /= "ok" -> q.status
                        [] OTHER -> IF NotFound(e, rows) THEN "404" ELSE "200"
    <2>1. out' = Answer("mcp", caller, path, raw, st,
                        IF st = "200" THEN Body(q, b, path) ELSE NoBody)
      BY <1>2, <1>3 DEF ExecuteToValue
    <2>2. /\ st \in {"200", "400", "403", "404", "422", "500"}
          /\ st = "200" => b.status = "ok" /\ ~e.selfTenant
      BY <1>5, <1>6, ReadQueryAssumption DEF IsEndpointSpec
    <2>. HIDE DEF st
    <2>. QED BY <2>1, <2>2
  <1>8. /\ out'.via = "mcp" /\ out'.path = path /\ out'.raw = raw /\ out'.status = status
        /\ status = "200" => out'.body = Body(q, b, path)
    BY <1>7 DEF Answer
  <1>9. AnswerMade'
    <2>1. CASE status = "200"
      <3>1. OwnBound' = b /\ OwnRole' = ""
        BY <1>2, <1>3, <1>4, <1>8 DEF OwnBound, OwnRole, OwnQuery
      <3>2. out'.body.q = q /\ out'.body.texts = b.texts
        BY <1>8, <2>1 DEF Body
      <3>3. (~spec.entry.selfTenant)' /\ out'.via = "mcp"
        BY <1>2, <1>4, <1>7, <1>8, <2>1
      <3>. QED BY <1>3, <1>4, <1>7, <2>1, <3>1, <3>2, <3>3 DEF AnswerMade
    <2>2. CASE status # "200"
      BY <1>7, <1>8, <2>2, EndsWithout
    <2>. QED BY <2>1, <2>2
  <1>10. CacheOf(cache')
    BY <1>4, CacheStays
  <1>. QED BY <1>4, <1>7, <1>8, <1>9, <1>10, Assembled DEF Statuses

(* Every step. *)
LEMMA QueryStep == QueryIInv /\ [QueryNext]_queryVars => QueryIInv'
  <1>. SUFFICES ASSUME QueryIInv, [QueryNext]_queryVars PROVE QueryIInv'
    OBVIOUS
  <1>1. CASE \E path \in Paths, raw \in RawQueries : \E c \in Callers : RunSpec(c, path, raw)
    BY <1>1, RunKeeps
  <1>2. CASE \E path \in Paths, raw \in RawQueries : \E rows \in 0..1 :
                 ExecuteToValue(path, raw, rows)
    BY <1>2, ToolKeeps
  <1>3. CASE DeliverAnswer
    <2>1. out'.status = "none" /\ kind' = kind /\ spec' = spec /\ cache' = cache
      BY <1>3 DEF DeliverAnswer, NoAnswer, Answer
    <2>2. AnswerMade'
      BY <2>1, EndsWithout
    <2>3. CacheOf(cache')
      BY <2>1, CacheStays
    <2>. QED BY <2>1, <2>2, <2>3, Assembled DEF Statuses
  <1>. DEFINE Same == kind' = kind /\ spec' = spec /\ out' = out
  <1>4. ASSUME Same, CacheOf(cache') PROVE QueryIInv'
    <2>1. out'.status \in Statuses
      BY <1>4 DEF QueryIInv, QueryTypeOK
    <2>2. AnswerMade'
      <3>1. /\ OwnBound' = OwnBound /\ OwnRole' = OwnRole /\ Answered' = Answered
        BY <1>4 DEF OwnBound, OwnRole, OwnQuery, Answered
      <3>2. PICK k, r, x : k = CacheKey(OwnBound, OwnRole) /\ x = out.body /\ r = OwnRole
        OBVIOUS
      <3>3. MadeFor(k, x)' = MadeFor(k, x)
        BY <1>4, MadeStays
      <3>4. MadeFor(CacheKey(OwnBound, OwnRole), out.body) =>
            MadeFor(CacheKey(OwnBound, OwnRole), out.body)'
        BY <1>4, <3>1, <3>2, <3>3 DEF MadeFor
      <3>5. Scopable(spec.entry, out.caller)' = Scopable(spec.entry, out.caller)
        BY <1>4 DEF Scopable
      <3>. QED BY <1>4, <3>1, <3>4, <3>5 DEF AnswerMade, QueryIInv
    <2>. QED BY <1>4, <2>1, <2>2, Assembled
  <1>5. CASE \E key \in DOMAIN cache : Forget(key)
    <2>1. CacheOf(cache')
      BY <1>5, ForgetKeeps
    <2>2. Same
      BY <1>5 DEF Forget
    <2>. QED BY <1>4, <2>1, <2>2
  <1>6. CASE UNCHANGED queryVars
    BY <1>4, <1>6, CacheStays DEF queryVars
  <1>. QED BY <1>1, <1>2, <1>3, <1>5, <1>6 DEF QueryNext

(* A caller ends up with the answer to its own request, run under its own   *)
(* role, whatever the cache holds (exec.rs run_spec, bind.rs canon): the    *)
(* key of the cache tells apart all that the statement depends on.          *)
THEOREM AnswersAreOwn == QuerySpec => []QueryInv
  <1>1. QueryIInv => QueryInv
    BY MadeIsOwn
  <1>. QED BY InitHolds, QueryStep, <1>1, PTL DEF QuerySpec

(* Self-tenant scoping (exec.rs run_spec): somebody who is not elevated     *)
(* gets an answer of a self-tenant endpoint over HTTP and with a subject    *)
(* only; the tenant its statement is bound to is that subject, whatever the *)
(* request says, and so is that of the request whose cached body it gets.   *)
TenantScoped ==
    Answered /\ spec.entry.selfTenant /\ OwnRole = "" =>
      /\ out.via = "http" /\ out.caller.sub # ""
      /\ \A p \in Range(spec.entry.params) :
           p.name = "tenant" /\ p.kind = "query" =>
             /\ OwnBound.map["tenant"] = Resolved(p, out.caller.sub)
             /\ ~IsEnum(p) /\ Separable(OwnBound.texts) /\ Separable(out.body.texts) =>
                  out.body.texts["tenant"] = Resolved(p, out.caller.sub).v

(* The tenant parameter p of the bound request b has the value of sub. *)
BoundTo(b, p, sub) ==
    /\ b.map["tenant"] = Resolved(p, sub)
    /\ "tenant" \in DOMAIN b.texts
    /\ ~IsEnum(p) => b.texts["tenant"] = Resolved(p, sub).v

(* The tenant of a request that is scoped is the caller's subject. *)
LEMMA TenantOf ==
    ASSUME NEW e \in EndpointSpecs, NEW c \in Callers, NEW path, NEW query,
           e.selfTenant, AdminReadElevation(e, c) = "",
           NEW i \in DOMAIN e.params, e.params[i].name = "tenant", e.params[i].kind = "query",
           Resolve(e, path, ScopedQuery(e, c, query)).status = "ok"
    PROVE  BoundTo(Resolve(e, path, ScopedQuery(e, c, query)), e.params[i], c.sub)
  <1>1. PICK scoped : scoped = ScopedQuery(e, c, query)
    OBVIOUS
  <1>2. PICK b, raws, p : /\ b = Resolve(e, path, scoped) /\ raws = RawsOf(e, path, scoped)
                          /\ p = e.params[i]
    OBVIOUS
  <1>3. "tenant" \in DOMAIN scoped /\ scoped["tenant"] = c.sub
    BY <1>1 DEF ScopedQuery
  <1>4. raws[i] = c.sub
    BY <1>2, <1>3 DEF RawsOf, RawOf, At
  <1>5. c.sub # NoText
    BY ReadQueryAssumption
  <1>6. /\ Resolved(p, c.sub).t # "err" /\ b.map = ValuesOf(e, raws)
        /\ b.texts = Texts(e.params, raws, ValuesOf(e, raws))
    <2>1. Resolve(e, path, scoped).status = "ok"
      BY <1>1
    <2>2. \A j \in DOMAIN e.params :
            Resolved(e.params[j], RawsOf(e, path, scoped)[j]).t # "err"
      BY <2>1, BoundIs
    <2>3. Resolve(e, path, scoped).map = ValuesOf(e, RawsOf(e, path, scoped))
      BY <2>1, BoundIs
    <2>4. Resolve(e, path, scoped).texts =
          Texts(e.params, RawsOf(e, path, scoped), ValuesOf(e, RawsOf(e, path, scoped)))
      BY <2>1, BoundIs
    <2>5. Resolved(e.params[i], raws[i]).t # "err"
      BY <1>2, <2>2
    <2>. QED BY <1>2, <1>4, <2>3, <2>4, <2>5
  <1>7. Resolved(p, c.sub) # Absent
    BY <1>5, <1>6, ResolvedIs
  <1>8. /\ "tenant" \in DOMAIN ValuesOf(e, raws)
        /\ ValuesOf(e, raws)["tenant"] = Resolved(p, c.sub)
        /\ ~IsEnum(p) => Texts(e.params, raws, ValuesOf(e, raws))["tenant"] = Resolved(p, c.sub).v
    <2>. DEFINE n == e.params[i].name
                x == Resolved(e.params[i], raws[i])
    <2>1. n \in DOMAIN ValuesOf(e, raws) <=> x # Absent
      BY ValueOfParam
    <2>2. x # Absent => ValuesOf(e, raws)[n] = x
      BY ValueOfParam
    <2>3. x # Absent => Texts(e.params, raws, ValuesOf(e, raws))[n] =
             IF IsEnum(e.params[i]) THEN Choice(e.params[i], raws[i]) ELSE x.v
      BY ValueOfParam
    <2>4. n = "tenant" /\ x = Resolved(p, c.sub)
      BY <1>2, <1>4
    <2>. QED BY <1>2, <1>7, <2>1, <2>2, <2>3, <2>4
  <1>9. DOMAIN b.texts = DOMAIN ValuesOf(e, raws)
    BY <1>6 DEF Texts
  <1>10. BoundTo(b, p, c.sub)
    BY <1>6, <1>8, <1>9 DEF BoundTo
  <1>. QED BY <1>1, <1>2, <1>10

(* A body of a request with the same key was made for the same texts. *)
LEMMA BodyTexts ==
    ASSUME QueryIInv, Answered, Separable(OwnBound.texts), Separable(out.body.texts)
    PROVE  SameTexts(OwnBound, out.body)
  <1>1. PICK e \in EndpointSpecs : spec = Load(e)
    BY DEF QueryIInv
  <1>2. spec.entry = e
    BY <1>1, IrIs
  <1>3. CASE out.body.texts = OwnBound.texts
    BY <1>3 DEF SameTexts
  <1>4. CASE MadeFor(CacheKey(OwnBound, OwnRole), out.body)
    <2>1. PICK c \in Callers, path \in Paths, raw \in RawQueries :
            /\ BoundOf(c, path, raw).status = "ok"
            /\ CacheKey(OwnBound, OwnRole) = CacheKey(BoundOf(c, path, raw), RoleOf(c))
            /\ out.body.texts = BoundOf(c, path, raw).texts
      BY <1>4 DEF MadeFor
    <2>2. PICK own, other, r, t :
            /\ own = OwnBound /\ other = BoundOf(c, path, raw)
            /\ r = OwnRole /\ t = RoleOf(c)
      OBVIOUS
    <2>3. r \in Roles /\ t \in Roles
      BY <2>2, RoleIs DEF OwnRole, RoleOf, Roles
    <2>4. /\ own.canon = Canon(own.texts) /\ DOMAIN own.texts \subseteq Range(NameOrder)
      <3>1. own.status = "ok"
        BY <2>2 DEF QueryIInv, AnswerMade
      <3>. QED BY <1>2, <2>2, <3>1, KeyIs DEF OwnBound
    <2>5. /\ other.canon = Canon(other.texts) /\ DOMAIN other.texts \subseteq Range(NameOrder)
      BY <1>2, <2>1, <2>2, KeyIs DEF BoundOf
    <2>6. Separable(own.texts) /\ Separable(other.texts)
      BY <2>1, <2>2
    <2>7. CacheKey(own, r) = CacheKey(other, t)
      BY <2>1, <2>2
    <2>8. SameTexts(own, other)
      BY <2>3, <2>4, <2>5, <2>6, <2>7, KeyAgrees DEF SameTexts, Roles
    <2>. QED BY <2>1, <2>2, <2>8 DEF SameTexts
  <1>. QED BY <1>3, <1>4 DEF QueryIInv, AnswerMade

(* Nobody reads a self-tenant endpoint as another tenant (exec.rs 67-91),   *)
(* in either dialect, from the database or from the cache.                  *)
THEOREM TenantIsTheCaller == QuerySpec => []TenantScoped
  <1>1. ASSUME QueryIInv, Answered, spec.entry.selfTenant, OwnRole = ""
        PROVE  /\ out.via = "http" /\ out.caller.sub # ""
               /\ \A p \in Range(spec.entry.params) :
                    p.name = "tenant" /\ p.kind = "query" =>
                      /\ OwnBound.map["tenant"] = Resolved(p, out.caller.sub)
                      /\ ~IsEnum(p) /\ Separable(OwnBound.texts) /\ Separable(out.body.texts) =>
                           out.body.texts["tenant"] = Resolved(p, out.caller.sub).v
    <2>1. PICK e \in EndpointSpecs : spec = Load(e)
      BY <1>1 DEF QueryIInv
    <2>2. spec.entry = e
      BY <2>1, IrIs
    <2>3. OwnBound.status = "ok" /\ out.via = "http" /\ out.caller \in Callers
      BY <1>1 DEF QueryIInv, AnswerMade
    <2>4. Scopable(spec.entry, out.caller)
      BY <1>1, <2>3 DEF QueryIInv, AnswerMade
    <2>5. AdminReadElevation(e, out.caller) = ""
      BY <1>1, <2>2, <2>3 DEF OwnRole
    <2>6. out.caller.sub # ""
      BY <1>1, <2>2, <2>4, <2>5 DEF Scopable
    <2>7. ASSUME NEW p \in Range(e.params), p.name = "tenant", p.kind = "query"
          PROVE  /\ OwnBound.map["tenant"] = Resolved(p, out.caller.sub)
                 /\ ~IsEnum(p) /\ Separable(OwnBound.texts) /\ Separable(out.body.texts) =>
                      out.body.texts["tenant"] = Resolved(p, out.caller.sub).v
      <3>1. PICK i \in DOMAIN e.params : e.params[i] = p
        BY DEF Range
      <3>2. PICK c \in Callers : c = out.caller
        BY <2>3
      <3>3. PICK path, query, own : /\ path = out.path /\ query = ParseQuery(out.raw)
                                    /\ own = OwnBound
        OBVIOUS
      <3>4. own = Resolve(e, path, ScopedQuery(e, c, query)) /\ own.status = "ok"
        BY <2>2, <2>3, <3>2, <3>3 DEF OwnBound, OwnQuery
      <3>5. /\ own.map["tenant"] = Resolved(p, c.sub) /\ "tenant" \in DOMAIN own.texts
            /\ ~IsEnum(p) => own.texts["tenant"] = Resolved(p, c.sub).v
        <4>1. e.selfTenant /\ AdminReadElevation(e, c) = ""
          BY <1>1, <2>2, <2>5, <3>2
        <4>2. e.params[i].name = "tenant" /\ e.params[i].kind = "query"
          BY <2>7, <3>1
        <4>3. Resolve(e, path, ScopedQuery(e, c, query)).status = "ok"
          BY <3>4
        <4>4. BoundTo(Resolve(e, path, ScopedQuery(e, c, query)), e.params[i], c.sub)
          BY <4>1, <4>2, <4>3, TenantOf
        <4>5. BoundTo(own, p, c.sub)
          BY <3>1, <3>4, <4>4
        <4>. QED BY <4>5 DEF BoundTo
      <3>6. ASSUME ~IsEnum(p), Separable(OwnBound.texts), Separable(out.body.texts)
            PROVE  out.body.texts["tenant"] = Resolved(p, out.caller.sub).v
        BY <1>1, <3>2, <3>3, <3>5, <3>6, BodyTexts DEF SameTexts
      <3>. QED BY <3>2, <3>3, <3>5, <3>6
    <2>. QED BY <2>2, <2>3, <2>6, <2>7
  <1>2. QueryIInv => TenantScoped
    BY <1>1 DEF TenantScoped
  <1>. QED BY InitHolds, QueryStep, <1>2, PTL DEF QuerySpec
=============================================================================
