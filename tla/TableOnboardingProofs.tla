----------------------- MODULE TableOnboardingProofs -----------------------
(***************************************************************************)
(* Whatever approvals, rejections, allowlist changes and ingests race, for *)
(* any number of callers, administrators and proposals: the recorded       *)
(* backend holds the table, an applied proposal stays as it is, and no     *)
(* write passes the gate without a scope on a grant whose withdrawal has   *)
(* reached the snapshot.                                                   *)
(***************************************************************************)
EXTENDS TableOnboarding, TLAPS

(* A handler that goes on to record or to cache ClickHouse has created the *)
(* table there, and a lookup that found ClickHouse on record found it      *)
(* after that.                                                             *)
ClickHouseFirst ==
    /\ \A a \in Admins :
          admin[a].pc \in {"commit", "note"} /\ admin[a].chosen = "clickhouse"
            => "clickhouse" \in exists
    /\ \A c \in Callers :
          task[c].pc = "resolving" /\ task[c].via = "clickhouse" => "clickhouse" \in exists

(* No change of the allowlist waits for its invalidation. *)
Settled == \A a \in Admins : admin[a].pc \notin {"note", "granted", "invalidate"}

(* A snapshot, or a load under way, that no change overtook is the table.  *)
SnapshotIsCurrent ==
    /\ snap.fresh /\ ~snap.late /\ Settled => snap.map = acl
    /\ \A c \in Callers : task[c].pc = "loading" /\ ~task[c].late => task[c].map = acl

IInv == TypeOK /\ RecordedTableExists /\ ClickHouseFirst /\ SnapshotIsCurrent

(* A snapshot that was dropped is one, and is not used. *)
LEMMA DroppedIsSnapshot ==
    NoSnapshot \in [map : Maps, fresh : BOOLEAN, late : BOOLEAN] /\ ~NoSnapshot.fresh
  BY DEF NoSnapshot, NoRows, Maps

(* A change of the allowlist leaves it, and the loads it overtakes, of     *)
(* their types.                                                            *)
LEMMA ChangeType ==
    ASSUME TypeOK, NEW new \in Maps, ChangeAcl(new)
    PROVE  acl' \in Maps /\ task' \in [Callers -> Task]
  BY DEF ChangeAcl, TypeOK, Task

(* One row of the allowlist set to something keeps it an allowlist. *)
LEMMA RowType ==
    ASSUME TypeOK, NEW g, NEW can \in {"none", "yes", "no"}
    PROVE  [acl EXCEPT ![g] = can] \in Maps
  BY DEF TypeOK, Maps

(* The steps of an administrator keep every variable's kind. *)
LEMMA AdminType ==
    ASSUME TypeOK, NEW a \in Admins,
           \/ \E g \in Rows : RevokeAcl(a, g) \/ \E can \in {"yes", "no"} : GrantAcl(a, g, can)
           \/ \E p \in Props, override \in Backends \cup {"none"} : ReadPending(a, p, override)
           \/ CreateClickHouse(a) \/ RecordBackendAclStatus(a) \/ NoteBackendCached(a)
           \/ InvalidateAcl(a) \/ AdminStops(a)
    PROVE  TypeOK'
  <1>0. Idle \in Handler
    BY DEF Idle, Backends, Handler
  <1>a. admin \in [Admins -> Handler] /\ prop \in [Props -> Proposal]
    BY DEF TypeOK
  <1>1. ASSUME NEW g \in Rows, NEW can \in {"none", "yes", "no"},
               ChangeAcl([acl EXCEPT ![g] = can]), changes' = changes + 1,
               admin' = [admin EXCEPT ![a].pc = "granted"],
               UNCHANGED <<clickhouse, exists, row, cache, snap, prop>>
        PROVE  TypeOK'
    <2>1. [acl EXCEPT ![g] = can] \in Maps
      BY RowType
    <2>2. acl' \in Maps /\ task' \in [Callers -> Task]
      BY <1>1, <2>1, ChangeType
    <2>3. admin' \in [Admins -> Handler]
      BY <1>a, <1>1 DEF Handler
    <2>. QED BY <1>1, <2>2, <2>3 DEF TypeOK
  <1>2. CASE \E g \in Rows : RevokeAcl(a, g)
    BY <1>1, <1>2 DEF RevokeAcl
  <1>3. CASE \E g \in Rows : \E can \in {"yes", "no"} : GrantAcl(a, g, can)
    BY <1>1, <1>3 DEF GrantAcl
  <1>4. ASSUME NEW p \in Props, NEW override \in Backends \cup {"none"},
               ReadPending(a, p, override)
        PROVE  TypeOK'
    <2>1. Chosen(p, override) \in Backends
      BY <1>a DEF Chosen, Proposal
    <2>2. admin' \in [Admins -> Handler]
      BY <1>a, <1>4, <2>1 DEF ReadPending, Handler
    <2>. QED BY <1>4, <2>2 DEF ReadPending, TypeOK
  <1>5. CASE CreateClickHouse(a)
    <2>1. admin' \in [Admins -> Handler]
      BY <1>a, <1>5 DEF CreateClickHouse, Handler
    <2>2. exists' \subseteq Backends
      BY <1>5 DEF CreateClickHouse, Backends, TypeOK
    <2>. QED BY <1>5, <2>1, <2>2 DEF CreateClickHouse, TypeOK
  <1>6. CASE RecordBackendAclStatus(a)
    <2>1. [acl EXCEPT ![<<prop[admin[a].p].by, "table">>] = "yes"] \in Maps
      BY RowType
    <2>2. acl' \in Maps /\ task' \in [Callers -> Task]
      BY <1>6, <2>1, ChangeType DEF RecordBackendAclStatus
    <2>3. prop' \in [Props -> Proposal]
      <3>1. prop' = [prop EXCEPT ![admin[a].p].status = "applied"]
        BY <1>6 DEF RecordBackendAclStatus
      <3>. QED BY <1>a, <3>1 DEF Proposal
    <2>4. exists' \subseteq Backends /\ row' \in Backends /\ admin' \in [Admins -> Handler]
      BY <1>a, <1>6 DEF RecordBackendAclStatus, TypeOK, Backends, Handler
    <2>. QED BY <1>6, <2>2, <2>3, <2>4 DEF RecordBackendAclStatus, TypeOK
  <1>7. CASE NoteBackendCached(a)
    <2>1. admin' \in [Admins -> Handler] /\ cache' \in Backends
      BY <1>a, <1>7 DEF NoteBackendCached, Handler
    <2>. QED BY <1>7, <2>1 DEF NoteBackendCached, TypeOK
  <1>8. CASE InvalidateAcl(a)
    <2>1. admin' \in [Admins -> Handler] /\ snap' \in [map : Maps, fresh : BOOLEAN, late : BOOLEAN]
      BY <1>a, <1>0, <1>8, DroppedIsSnapshot DEF InvalidateAcl, Invalidate
    <2>. QED BY <1>8, <2>1 DEF InvalidateAcl, TypeOK
  <1>9. CASE AdminStops(a)
    <2>1. admin' \in [Admins -> Handler] /\ snap' \in [map : Maps, fresh : BOOLEAN, late : BOOLEAN]
      <3>. DEFINE b == snap.late \/ (snap.fresh /\ admin[a].pc \in {"note", "granted"} /\ snap.map # acl)
      <3>1. b \in BOOLEAN
        OBVIOUS
      <3>2. snap' = [snap EXCEPT !.late = b]
        BY <1>9 DEF AdminStops
      <3>3. snap \in [map : Maps, fresh : BOOLEAN, late : BOOLEAN]
        BY DEF TypeOK
      <3>. HIDE DEF b
      <3>4. snap' \in [map : Maps, fresh : BOOLEAN, late : BOOLEAN]
        BY <3>1, <3>2, <3>3
      <3>. QED BY <1>a, <1>0, <1>9, <3>4 DEF AdminStops
    <2>. QED BY <1>9, <2>1 DEF AdminStops, TypeOK
  <1>. QED BY <1>2, <1>3, <1>4, <1>5, <1>6, <1>7, <1>8, <1>9

(* A caller's record, with the sets of its fields by name. *)
Flags == BOOLEAN
Marked == [pc : Places, via : Backends, exists : Flags, scoped : Flags, map : Maps,
           late : Flags, verdict : Verdicts]
LEMMA MarkedIsTask == Task = Marked
  BY DEF Task, Marked, Flags

(* A gate that has answered leaves a caller's record. *)
LEMMA AnsweredType ==
    ASSUME NEW v \in Verdicts, NEW late \in Flags
    PROVE  /\ Answered(v, late) \in Marked
           /\ Answered(v, late).pc \in {"propose", "start"}
           /\ Answered(v, late).late = late /\ Answered(v, late).verdict = v
  <1>. DEFINE q == IF v = "propose" THEN "propose" ELSE "start"
  <1>1. q \in {"propose", "start"} /\ q \in Places
    BY DEF Places
  <1>2. NoRows \in Maps /\ "postgres" \in Backends /\ FALSE \in Flags
    BY DEF NoRows, Maps, Backends, Flags
  <1>. DEFINE no == FALSE
  <1>3. Answered(v, late) = [pc |-> q, via |-> "postgres", exists |-> no, scoped |-> no,
                             map |-> NoRows, late |-> late, verdict |-> v]
    BY DEF Answered
  <1>4. no \in Flags
    BY <1>2
  <1>. HIDE DEF q, no
  <1>5. Answered(v, late) \in Marked
    BY <1>1, <1>2, <1>3, <1>4 DEF Marked
  <1>. QED BY <1>1, <1>3, <1>5

(* A request that enters the gate has no verdict yet. *)
LEMMA AsksSays ==
    ASSUME TypeOK, NEW c \in Callers, NEW place \in Places, NEW via \in Backends,
           Asks(c, place, via)
    PROVE  /\ task' \in [Callers -> Marked]
           /\ task'[c].pc = place /\ task'[c].via = via /\ task'[c].verdict = "none"
           /\ \A x \in Callers \ {c} : task'[x] = task[x]
  <1>1. task \in [Callers -> Marked]
    BY MarkedIsTask DEF TypeOK
  <1>. DEFINE none == Answered("none", FALSE)
  <1>2. none \in Marked /\ none.verdict = "none"
    BY AnsweredType DEF Verdicts, Flags
  <1>. HIDE DEF none
  <1>3. PICK scoped \in {FALSE, Capability} :
           task' = [task EXCEPT ![c] = [none EXCEPT !.pc = place, !.via = via, !.scoped = scoped]]
    BY DEF Asks, none
  <1>4. scoped \in Flags
    BY OnboardingConstants DEF Flags
  <1>. DEFINE q == [none EXCEPT !.pc = place, !.via = via, !.scoped = scoped]
  <1>5. q \in Marked /\ q.pc = place /\ q.via = via /\ q.verdict = "none"
    BY <1>2, <1>4 DEF Marked
  <1>. HIDE DEF q
  <1>6. task' = [task EXCEPT ![c] = q]
    BY <1>3 DEF q
  <1>. QED BY <1>1, <1>5, <1>6

(* So do the steps of a caller. *)
LEMMA CallerType ==
    ASSUME TypeOK, NEW c \in Callers,
           \/ ResolveCached(c) \/ ResolveRead(c) \/ ResolveInsert(c) \/ TableMeta(c)
           \/ ScopeDecides(c) \/ SnapshotCached(c) \/ Load(c) \/ StoreSnapshot(c)
           \/ GateStops(c) \/ Create(c)
    PROVE  TypeOK'
  <1>0. \A k \in Backends : Handle(k) \in Backends
    BY DEF Handle, Backends
  <1>a. task \in [Callers -> Marked] /\ acl \in Maps /\ prop \in [Props -> Proposal]
    BY MarkedIsTask DEF TypeOK
  <1>p. /\ "start" \in Places /\ "resolving" \in Places /\ "found" \in Places
        /\ "gate" \in Places /\ "loading" \in Places /\ "propose" \in Places
        /\ "none" \in Verdicts /\ FALSE \in Flags
    BY DEF Places, Verdicts, Flags
  <1>1. ASSUME NEW map, NEW late \in Flags, Decides(c, map, late)
        PROVE  task' \in [Callers -> Marked]
    <2>1. Verdict(c, map) \in Verdicts
      BY DEF Verdict, Verdicts
    <2>2. Answered(Verdict(c, map), late) \in Marked
      BY <2>1, AnsweredType
    <2>. QED BY <1>a, <1>1, <2>2 DEF Decides
  <1>2. CASE ResolveCached(c)
    <2>1. Handle(cache) \in Backends
      BY <1>0, <1>2 DEF ResolveCached, TypeOK
    <2>2. task' \in [Callers -> Marked]
      BY <1>2, <1>p, <2>1, AsksSays DEF ResolveCached
    <2>. QED BY <1>2, <2>2, MarkedIsTask DEF ResolveCached, TypeOK
  <1>3. CASE ResolveRead(c)
    <2>1. (IF row = "none" THEN "postgres" ELSE row) \in Backends
      BY DEF TypeOK, Backends
    <2>2. task' \in [Callers -> Marked]
      BY <1>3, <1>p, <2>1, AsksSays DEF ResolveRead
    <2>. QED BY <1>3, <2>2, MarkedIsTask DEF ResolveRead, TypeOK
  <1>4. CASE ResolveInsert(c)
    <2>1. task[c].via \in Backends /\ Handle(task[c].via) \in Backends
      BY <1>0, <1>a DEF Marked
    <2>2. task' \in [Callers -> Marked]
      <3>1. task' = [task EXCEPT ![c].pc = "found", ![c].via = Handle(task[c].via)]
        BY <1>4 DEF ResolveInsert
      <3>. QED BY <1>a, <2>1, <3>1, <1>p DEF Marked
    <2>. QED BY <1>4, <2>1, <2>2, MarkedIsTask DEF ResolveInsert, TypeOK
  <1>5. CASE TableMeta(c)
    <2>1. task' \in [Callers -> Marked]
      <3>1. task' = [task EXCEPT ![c].pc = "gate", ![c].exists = (task[c].via \in exists)]
        BY <1>5 DEF TableMeta
      <3>2. (task[c].via \in exists) \in Flags
        BY DEF Flags
      <3>. QED BY <1>a, <3>1, <3>2, <1>p DEF Marked
    <2>. QED BY <1>5, <2>1, MarkedIsTask DEF TableMeta, TypeOK
  <1>6. CASE SnapshotCached(c)
    <2>1. snap.late \in Flags
      BY DEF TypeOK, Flags
    <2>2. task' \in [Callers -> Marked]
      BY <1>1, <1>6, <2>1 DEF SnapshotCached
    <2>. QED BY <1>6, <2>2, MarkedIsTask DEF SnapshotCached, TypeOK
  <1>7. CASE Load(c)
    <2>1. task' \in [Callers -> Marked]
      <3>1. task' = [task EXCEPT ![c].pc = "loading", ![c].map = acl, ![c].late = FALSE]
        BY <1>7 DEF Load
      <3>. QED BY <1>a, <3>1, <1>p DEF Marked
    <2>. QED BY <1>7, <2>1, MarkedIsTask DEF Load, TypeOK
  <1>8. CASE StoreSnapshot(c)
    <2>1. task[c].late \in Flags /\ task[c].map \in Maps
      BY <1>a DEF Marked
    <2>2. task' \in [Callers -> Marked]
      BY <1>1, <1>8, <2>1 DEF StoreSnapshot
    <2>3. snap' = [map |-> task[c].map, fresh |-> TRUE, late |-> task[c].late]
      BY <1>8 DEF StoreSnapshot
    <2>4. snap' \in [map : Maps, fresh : BOOLEAN, late : BOOLEAN]
      BY <2>1, <2>3 DEF Flags
    <2>. QED BY <1>8, <2>2, <2>4, MarkedIsTask DEF StoreSnapshot, TypeOK
  <1>9. CASE Create(c)
    <2>1. prop' \in [Props -> Proposal]
      BY <1>a, <1>9 DEF Create, Proposal
    <2>2. task' = [task EXCEPT ![c].pc = "start"]
      BY <1>9 DEF Create
    <2>3. task' \in [Callers -> Marked]
      BY <1>a, <1>p, <2>2 DEF Marked
    <2>. QED BY <1>9, <2>1, <2>3, MarkedIsTask DEF Create, TypeOK
  <1>10. CASE ScopeDecides(c)
    <2>1. task' \in [Callers -> Marked]
      BY <1>1, <1>p, <1>10 DEF ScopeDecides
    <2>. QED BY <1>10, <2>1, MarkedIsTask DEF ScopeDecides, TypeOK
  <1>11. CASE GateStops(c)
    <2>1. Answered("none", FALSE) \in Marked
      BY <1>p, AnsweredType
    <2>2. task' \in [Callers -> Marked]
      BY <1>a, <1>11, <2>1 DEF GateStops
    <2>. QED BY <1>11, <2>2, MarkedIsTask DEF GateStops, TypeOK
  <1>. QED BY <1>2, <1>3, <1>4, <1>5, <1>6, <1>7, <1>8, <1>9, <1>10, <1>11

(* What a step leaves alone keeps its conjunct: the parts of IInv read      *)
(* these variables and no others.                                          *)
LEMMA Untouched ==
    ASSUME IInv
    PROVE  /\ UNCHANGED <<exists, row, cache>>
                 /\ (\A p \in Props : prop'[p].status = "applied" => prop[p].status = "applied")
              => RecordedTableExists'
           /\ UNCHANGED <<exists, admin, task>> => ClickHouseFirst'
           /\ UNCHANGED <<acl, snap, admin, task>> => SnapshotIsCurrent'
  <1>1. ASSUME UNCHANGED <<exists, row, cache>>,
               \A p \in Props : prop'[p].status = "applied" => prop[p].status = "applied"
        PROVE  RecordedTableExists'
    BY <1>1 DEF IInv, RecordedTableExists
  <1>2. ASSUME UNCHANGED <<exists, admin, task>> PROVE ClickHouseFirst'
    BY <1>2 DEF IInv, ClickHouseFirst
  <1>3. ASSUME UNCHANGED <<acl, snap, admin, task>> PROVE SnapshotIsCurrent'
    BY <1>3 DEF IInv, SnapshotIsCurrent, Settled
  <1>. QED BY <1>1, <1>2, <1>3

(* The steps of an administrator keep record, tables and snapshots in      *)
(* agreement: ClickHouse is recorded after it holds the table, and every   *)
(* change of the allowlist is announced until it is settled.               *)
LEMMA AdminKeeps ==
    ASSUME IInv, NEW a \in Admins,
           \/ \E g \in Rows : RevokeAcl(a, g) \/ \E can \in {"yes", "no"} : GrantAcl(a, g, can)
           \/ \E p \in Props, override \in Backends \cup {"none"} : ReadPending(a, p, override)
           \/ CreateClickHouse(a) \/ RecordBackendAclStatus(a) \/ NoteBackendCached(a)
           \/ InvalidateAcl(a) \/ AdminStops(a)
    PROVE  RecordedTableExists' /\ ClickHouseFirst' /\ SnapshotIsCurrent'
  <1>a. admin \in [Admins -> Handler] /\ prop \in [Props -> Proposal]
        /\ task \in [Callers -> Task] /\ exists \subseteq Backends
    BY DEF IInv, TypeOK
  <1>b. \A x \in Admins : admin[x].pc \in {"idle", "create", "commit", "note", "granted", "invalidate"}
                          /\ admin[x].chosen \in Backends
    BY <1>a DEF Handler
  <1>l. ASSUME NEW new, ChangeAcl(new)
        PROVE  \A c \in Callers : /\ task'[c].pc = task[c].pc /\ task'[c].via = task[c].via
                                  /\ task'[c].pc = "loading" => task'[c].late
    BY <1>a, <1>l DEF ChangeAcl, Task
  <1>1. ASSUME NEW new, ChangeAcl(new), admin' = [admin EXCEPT ![a].pc = "granted"],
               UNCHANGED <<exists, row, cache, snap, prop>>
        PROVE  RecordedTableExists' /\ ClickHouseFirst' /\ SnapshotIsCurrent'
    <2>1. admin'[a].pc = "granted" /\ \A x \in Admins \ {a} : admin'[x] = admin[x]
      BY <1>a, <1>1 DEF Handler
    <2>2. RecordedTableExists'
      BY <1>1, Untouched
    <2>3. ClickHouseFirst'
      BY <1>1, <1>l, <2>1 DEF IInv, ClickHouseFirst
    <2>4. SnapshotIsCurrent'
      BY <1>1, <1>l, <2>1 DEF SnapshotIsCurrent, Settled
    <2>. QED BY <2>2, <2>3, <2>4
  <1>2. CASE \E g \in Rows : RevokeAcl(a, g)
    BY <1>1, <1>2 DEF RevokeAcl
  <1>3. CASE \E g \in Rows : \E can \in {"yes", "no"} : GrantAcl(a, g, can)
    BY <1>1, <1>3 DEF GrantAcl
  <1>4. ASSUME NEW p \in Props, NEW override \in Backends \cup {"none"},
               ReadPending(a, p, override)
        PROVE  RecordedTableExists' /\ ClickHouseFirst' /\ SnapshotIsCurrent'
    <2>. DEFINE chosen == Chosen(p, override)
    <2>0. admin' = [admin EXCEPT ![a] = [pc |-> IF chosen = "clickhouse" THEN "create" ELSE "commit",
                                        p |-> p, chosen |-> chosen]]
      BY <1>4 DEF ReadPending
    <2>. HIDE DEF chosen
    <2>1. /\ admin'[a].pc = (IF chosen = "clickhouse" THEN "create" ELSE "commit")
          /\ admin'[a].chosen = chosen
          /\ \A x \in Admins \ {a} : admin'[x] = admin[x]
      BY <1>a, <2>0
    <2>2. admin[a].pc = "idle" /\ UNCHANGED <<exists, row, cache, acl, snap, prop, task>>
      BY <1>4 DEF ReadPending
    <2>3. RecordedTableExists'
      BY <2>2, Untouched
    <2>4. ClickHouseFirst'
      BY <2>1, <2>2 DEF IInv, ClickHouseFirst
    <2>5. SnapshotIsCurrent'
      BY <2>1, <2>2 DEF IInv, SnapshotIsCurrent, Settled
    <2>. QED BY <2>3, <2>4, <2>5
  <1>5. CASE CreateClickHouse(a)
    <2>1. admin'[a].pc = "commit" /\ \A x \in Admins \ {a} : admin'[x] = admin[x]
      BY <1>a, <1>5 DEF CreateClickHouse, Handler
    <2>2. /\ admin[a].pc = "create" /\ exists' = exists \cup {"clickhouse"}
          /\ UNCHANGED <<row, cache, acl, snap, prop, task>>
      BY <1>5 DEF CreateClickHouse
    <2>3. RecordedTableExists'
      BY <2>2 DEF IInv, RecordedTableExists
    <2>4. ClickHouseFirst'
      BY <2>1, <2>2 DEF IInv, ClickHouseFirst
    <2>5. SnapshotIsCurrent'
      BY <2>1, <2>2 DEF IInv, SnapshotIsCurrent, Settled
    <2>. QED BY <2>3, <2>4, <2>5
  <1>6. CASE RecordBackendAclStatus(a)
    <2>1. /\ admin'[a].pc = "note" /\ admin'[a].chosen = admin[a].chosen
          /\ \A x \in Admins \ {a} : admin'[x] = admin[x]
      BY <1>a, <1>6 DEF RecordBackendAclStatus, Handler
    <2>2. /\ admin[a].pc = "commit" /\ row' = admin[a].chosen
          /\ exists' = IF admin[a].chosen = "postgres" THEN exists \cup {"postgres"} ELSE exists
          /\ UNCHANGED <<cache, snap>>
      BY <1>6 DEF RecordBackendAclStatus
    <2>3. \A c \in Callers : /\ task'[c].pc = task[c].pc /\ task'[c].via = task[c].via
                             /\ task'[c].pc = "loading" => task'[c].late
      BY <1>6, <1>l DEF RecordBackendAclStatus
    <2>4. row' \in Backends /\ row' \in exists' /\ exists \subseteq exists'
      BY <1>b, <2>2 DEF IInv, ClickHouseFirst, Backends
    <2>5. RecordedTableExists'
      BY <2>2, <2>4 DEF IInv, RecordedTableExists, Backends
    <2>6. ClickHouseFirst'
      BY <2>1, <2>2, <2>3, <2>4 DEF IInv, ClickHouseFirst
    <2>7. SnapshotIsCurrent'
      BY <2>1, <2>3 DEF SnapshotIsCurrent, Settled
    <2>. QED BY <2>5, <2>6, <2>7
  <1>7. CASE NoteBackendCached(a)
    <2>1. /\ admin'[a].pc = "invalidate" /\ \A x \in Admins \ {a} : admin'[x] = admin[x]
      BY <1>a, <1>7 DEF NoteBackendCached, Handler
    <2>2. /\ admin[a].pc = "note" /\ cache' = admin[a].chosen
          /\ UNCHANGED <<exists, row, acl, snap, prop, task>>
      BY <1>7 DEF NoteBackendCached
    <2>3. RecordedTableExists'
      BY <2>2 DEF IInv, RecordedTableExists, ClickHouseFirst
    <2>4. ClickHouseFirst'
      BY <2>1, <2>2 DEF IInv, ClickHouseFirst
    <2>5. SnapshotIsCurrent'
      BY <2>1, <2>2 DEF IInv, SnapshotIsCurrent, Settled
    <2>. QED BY <2>3, <2>4, <2>5
  <1>8. CASE InvalidateAcl(a)
    <2>1. /\ admin'[a].pc = "idle" /\ \A x \in Admins \ {a} : admin'[x] = admin[x]
          /\ ~snap'.fresh
          /\ UNCHANGED <<exists, row, cache, acl, prop, task>>
      BY <1>a, <1>8, DroppedIsSnapshot DEF InvalidateAcl, Invalidate, Idle
    <2>2. RecordedTableExists'
      BY <2>1, Untouched
    <2>3. ClickHouseFirst'
      BY <2>1 DEF IInv, ClickHouseFirst
    <2>4. SnapshotIsCurrent'
      BY <2>1 DEF IInv, SnapshotIsCurrent, Settled
    <2>. QED BY <2>2, <2>3, <2>4
  <1>9. CASE AdminStops(a)
    <2>1. /\ admin'[a].pc = "idle" /\ \A x \in Admins \ {a} : admin'[x] = admin[x]
          /\ UNCHANGED <<exists, row, cache, acl, prop, task>>
      BY <1>a, <1>9 DEF AdminStops, Idle
    <2>2. /\ snap'.map = snap.map /\ snap'.fresh = snap.fresh
          /\ snap.late => snap'.late
          /\ snap.fresh /\ admin[a].pc \in {"note", "granted"} /\ snap.map # acl => snap'.late
      <3>1. snap \in [map : Maps, fresh : BOOLEAN, late : BOOLEAN]
        BY DEF IInv, TypeOK
      <3>. DEFINE b == snap.late \/ (snap.fresh /\ admin[a].pc \in {"note", "granted"} /\ snap.map # acl)
      <3>2. snap' = [snap EXCEPT !.late = b]
        BY <1>9 DEF AdminStops
      <3>3. /\ snap.late => b
            /\ snap.fresh /\ admin[a].pc \in {"note", "granted"} /\ snap.map # acl => b
        OBVIOUS
      <3>. HIDE DEF b
      <3>4. snap'.map = snap.map /\ snap'.fresh = snap.fresh /\ snap'.late = b
        BY <3>1, <3>2
      <3>. QED BY <3>3, <3>4
    <2>3. admin[a].pc # "invalidate"
      BY <1>9 DEF AdminStops
    <2>4. RecordedTableExists'
      BY <2>1, Untouched
    <2>5. ClickHouseFirst'
      BY <2>1 DEF IInv, ClickHouseFirst
    <2>6. SnapshotIsCurrent'
      BY <2>1, <2>2, <2>3 DEF IInv, SnapshotIsCurrent, Settled
    <2>. QED BY <2>4, <2>5, <2>6
  <1>. QED BY <1>2, <1>3, <1>4, <1>5, <1>6, <1>7, <1>8, <1>9

(* A decision: the caller leaves the gate with the verdict on the map and  *)
(* the mark it was given.                                                  *)
LEMMA DecidesSays ==
    ASSUME TypeOK, NEW c \in Callers, NEW map, NEW late \in Flags,
           Decides(c, map, late)
    PROVE  /\ task'[c].pc \in {"propose", "start"}
           /\ task'[c].late = late
           /\ task'[c].verdict = Verdict(c, map)
           /\ \A x \in Callers \ {c} : task'[x] = task[x]
  <1>1. task \in [Callers -> Marked]
    BY MarkedIsTask DEF TypeOK
  <1>. DEFINE q == Answered(Verdict(c, map), late)
  <1>2. q.pc \in {"propose", "start"} /\ q.late = late /\ q.verdict = Verdict(c, map)
    <2>1. Verdict(c, map) \in Verdicts
      BY DEF Verdict, Verdicts
    <2>. QED BY <2>1, AnsweredType
  <1>. HIDE DEF q
  <1>3. task' = [task EXCEPT ![c] = q]
    BY DEF Decides, q
  <1>. QED BY <1>1, <1>2, <1>3

(* So do the steps of a caller: it caches what it read from the record, and *)
(* it stores what it loaded with the mark of what overtook the load.        *)
LEMMA CallerKeeps ==
    ASSUME IInv, NEW c \in Callers,
           \/ ResolveCached(c) \/ ResolveRead(c) \/ ResolveInsert(c) \/ TableMeta(c)
           \/ ScopeDecides(c) \/ SnapshotCached(c) \/ Load(c) \/ StoreSnapshot(c)
           \/ GateStops(c) \/ Create(c)
    PROVE  RecordedTableExists' /\ ClickHouseFirst' /\ SnapshotIsCurrent'
  <1>a. task \in [Callers -> Marked] /\ prop \in [Props -> Proposal] /\ TypeOK
    BY MarkedIsTask DEF IInv, TypeOK
  <1>1. ASSUME UNCHANGED <<exists, admin>>, task'[c].pc # "resolving",
               \A x \in Callers \ {c} : task'[x] = task[x]
        PROVE  ClickHouseFirst'
    BY <1>1 DEF IInv, ClickHouseFirst
  <1>2. ASSUME UNCHANGED <<acl, snap, admin>>, task'[c].pc # "loading",
               \A x \in Callers \ {c} : task'[x] = task[x]
        PROVE  SnapshotIsCurrent'
    BY <1>2 DEF IInv, SnapshotIsCurrent, Settled
  <1>3. CASE ResolveCached(c)
    <2>1. Handle(cache) \in Backends /\ "found" \in Places
      BY <1>a, <1>3 DEF ResolveCached, TypeOK, Handle, Backends, Places
    <2>2. task'[c].pc = "found" /\ \A x \in Callers \ {c} : task'[x] = task[x]
      BY <1>a, <1>3, <2>1, AsksSays DEF ResolveCached
    <2>. QED BY <1>1, <1>2, <1>3, <2>2, Untouched DEF ResolveCached
  <1>4. CASE ResolveRead(c)
    <2>. DEFINE k == IF row = "none" THEN "postgres" ELSE row
    <2>1. k \in Backends /\ "resolving" \in Places /\ Asks(c, "resolving", k)
      BY <1>a, <1>4 DEF ResolveRead, TypeOK, Backends, Places
    <2>2. k = "clickhouse" => "clickhouse" \in exists
      BY DEF IInv, RecordedTableExists
    <2>. HIDE DEF k
    <2>3. /\ task'[c].pc = "resolving" /\ task'[c].via = k
          /\ \A x \in Callers \ {c} : task'[x] = task[x]
      BY <1>a, <2>1, AsksSays
    <2>4. ClickHouseFirst'
      BY <1>4, <2>2, <2>3 DEF ResolveRead, IInv, ClickHouseFirst
    <2>. QED BY <1>2, <1>4, <2>3, <2>4, Untouched DEF ResolveRead
  <1>5. CASE ResolveInsert(c)
    <2>1. task'[c].pc = "found" /\ \A x \in Callers \ {c} : task'[x] = task[x]
      BY <1>a, <1>5 DEF ResolveInsert, Marked
    <2>2. task[c].via = "clickhouse" => "clickhouse" \in exists
      BY <1>5 DEF ResolveInsert, IInv, ClickHouseFirst
    <2>3. RecordedTableExists'
      BY <1>5, <2>2 DEF ResolveInsert, IInv, RecordedTableExists
    <2>. QED BY <1>1, <1>2, <1>5, <2>1, <2>3 DEF ResolveInsert
  <1>6. CASE TableMeta(c)
    <2>1. task'[c].pc = "gate" /\ \A x \in Callers \ {c} : task'[x] = task[x]
      BY <1>a, <1>6 DEF TableMeta, Marked
    <2>. QED BY <1>1, <1>2, <1>6, <2>1, Untouched DEF TableMeta
  <1>7. CASE SnapshotCached(c)
    <2>1. /\ task'[c].pc \in {"propose", "start"}
          /\ \A x \in Callers \ {c} : task'[x] = task[x]
      BY <1>a, <1>7, DecidesSays DEF SnapshotCached, TypeOK, Flags
    <2>. QED BY <1>1, <1>2, <1>7, <2>1, Untouched DEF SnapshotCached
  <1>8. CASE Load(c)
    <2>1. /\ task'[c].pc = "loading" /\ task'[c].map = acl
          /\ \A x \in Callers \ {c} : task'[x] = task[x]
      BY <1>a, <1>8 DEF Load, Marked
    <2>2. SnapshotIsCurrent'
      BY <1>8, <2>1 DEF Load, IInv, SnapshotIsCurrent, Settled
    <2>. QED BY <1>1, <1>8, <2>1, <2>2, Untouched DEF Load
  <1>9. CASE StoreSnapshot(c)
    <2>1. /\ task'[c].pc \in {"propose", "start"}
          /\ \A x \in Callers \ {c} : task'[x] = task[x]
      BY <1>a, <1>9, DecidesSays DEF StoreSnapshot, Marked
    <2>2. snap'.map = task[c].map /\ snap'.late = task[c].late /\ task[c].pc = "loading"
      BY <1>9 DEF StoreSnapshot
    <2>3. SnapshotIsCurrent'
      BY <1>9, <2>1, <2>2 DEF StoreSnapshot, IInv, SnapshotIsCurrent, Settled
    <2>. QED BY <1>1, <1>9, <2>1, <2>3, Untouched DEF StoreSnapshot
  <1>10. CASE Create(c)
    <2>1. task' = [task EXCEPT ![c].pc = "start"]
      BY <1>10 DEF Create
    <2>2. task'[c].pc = "start" /\ \A x \in Callers \ {c} : task'[x] = task[x]
      BY <1>a, <2>1 DEF Marked
    <2>3. \A p \in Props : prop'[p].status = "applied" => prop[p].status = "applied"
      BY <1>a, <1>10 DEF Create, Proposal
    <2>. QED BY <1>1, <1>2, <1>10, <2>2, <2>3, Untouched DEF Create
  <1>11. CASE ScopeDecides(c)
    <2>1. /\ task'[c].pc \in {"propose", "start"}
          /\ \A x \in Callers \ {c} : task'[x] = task[x]
      BY <1>a, <1>11, DecidesSays DEF ScopeDecides, Flags
    <2>. QED BY <1>1, <1>2, <1>11, <2>1, Untouched DEF ScopeDecides
  <1>12. CASE GateStops(c)
    <2>. DEFINE q == Answered("none", FALSE)
    <2>1. q.pc \in {"propose", "start"}
      BY AnsweredType DEF Verdicts, Flags
    <2>2. task' = [task EXCEPT ![c] = q]
      BY <1>12 DEF GateStops
    <2>. HIDE DEF q
    <2>3. /\ task'[c].pc \in {"propose", "start"}
          /\ \A x \in Callers \ {c} : task'[x] = task[x]
      BY <1>a, <2>1, <2>2
    <2>. QED BY <1>1, <1>2, <1>12, <2>3, Untouched DEF GateStops
  <1>. QED BY <1>3, <1>4, <1>5, <1>6, <1>7, <1>8, <1>9, <1>10, <1>11, <1>12

(* The steps of nobody in particular: verdicts on a pending proposal, the  *)
(* refreshes and the passing of the snapshot's lifetime.                   *)
LEMMA OthersKeep ==
    ASSUME IInv,
           \/ \E p \in Props : Reject(p) \/ Counter(p)
           \/ RefreshAcl \/ RefreshSchemas \/ SnapshotExpires
           \/ UNCHANGED vars
    PROVE  IInv'
  <1>a. prop \in [Props -> Proposal] /\ TypeOK
    BY DEF IInv, TypeOK
  <1>1. ASSUME NEW p \in Props, Reject(p) PROVE IInv'
    <2>1. prop' = [prop EXCEPT ![p].status = "rejected"]
      BY <1>1 DEF Reject
    <2>2. /\ prop' \in [Props -> Proposal]
          /\ \A x \in Props : prop'[x].status = "applied" => prop[x].status = "applied"
      BY <1>a, <2>1 DEF Proposal
    <2>3. TypeOK'
      BY <1>a, <1>1, <2>2 DEF Reject, TypeOK
    <2>. QED BY <1>1, <2>2, <2>3, Untouched DEF Reject, IInv
  <1>2. ASSUME NEW p \in Props, Counter(p) PROVE IInv'
    <2>1. prop' = [prop EXCEPT ![p].cols = @ + 1]
      BY <1>2 DEF Counter
    <2>2. /\ prop' \in [Props -> Proposal]
          /\ \A x \in Props : prop'[x].status = "applied" => prop[x].status = "applied"
      BY <1>a, <2>1 DEF Proposal
    <2>3. TypeOK'
      BY <1>a, <1>2, <2>2 DEF Counter, TypeOK
    <2>. QED BY <1>2, <2>2, <2>3, Untouched DEF Counter, IInv
  <1>3. ASSUME snap' = NoSnapshot,
               UNCHANGED <<clickhouse, exists, row, cache, acl, prop, admin, task, changes>>
        PROVE  IInv'
    <2>1. snap' \in [map : Maps, fresh : BOOLEAN, late : BOOLEAN] /\ ~snap'.fresh
      BY <1>3, DroppedIsSnapshot
    <2>2. TypeOK'
      BY <1>a, <1>3, <2>1 DEF TypeOK
    <2>3. SnapshotIsCurrent'
      BY <1>3, <2>1 DEF IInv, SnapshotIsCurrent
    <2>. QED BY <1>3, <2>2, <2>3, Untouched DEF IInv
  <1>4. ASSUME RefreshSchemas PROVE IInv'
    <2>1. TypeOK'
      BY <1>a, <1>4 DEF RefreshSchemas, TypeOK
    <2>2. RecordedTableExists'
      BY <1>4 DEF RefreshSchemas, IInv, RecordedTableExists
    <2>. QED BY <1>4, <2>1, <2>2, Untouched DEF RefreshSchemas, IInv
  <1>5. ASSUME UNCHANGED vars PROVE IInv'
    <2>1. TypeOK'
      BY <1>a, <1>5 DEF vars, TypeOK
    <2>. QED BY <1>5, <2>1, Untouched DEF vars, IInv
  <1>. QED BY <1>1, <1>2, <1>3, <1>4, <1>5 DEF RefreshAcl, Invalidate, SnapshotExpires

(* At boot there is no table, no record and no snapshot. *)
LEMMA OnboardingInit == Init => IInv
  <1>. SUFFICES ASSUME Init PROVE IInv
    OBVIOUS
  <1>1. NoRows \in Maps
    BY DEF NoRows, Maps
  <1>2. acl \in Maps
    <2>1. PICK g \in Rows : acl = [NoRows EXCEPT ![g] = "yes"]
      BY DEF Init
    <2>. QED BY <2>1 DEF NoRows, Maps
  <1>3. Idle \in Handler /\ Idle.pc = "idle"
    BY DEF Idle, Handler, Backends
  <1>4. TypeOK
    <2>1. task \in [Callers -> Task]
      <3>1. Answered("none", FALSE) \in Task
        BY AnsweredType, MarkedIsTask DEF Verdicts, Flags
      <3>. QED BY <3>1 DEF Init
    <2>2. prop \in [Props -> Proposal]
      BY DEF Init, Proposal, Backends
    <2>. QED BY <1>1, <1>2, <1>3, <2>1, <2>2, DroppedIsSnapshot DEF Init, TypeOK
  <1>5. RecordedTableExists
    BY DEF Init, RecordedTableExists
  <1>6. ClickHouseFirst
    <2>1. Answered("none", FALSE).pc \in {"propose", "start"}
      BY AnsweredType DEF Verdicts, Flags
    <2>. QED BY <1>3, <2>1 DEF Init, ClickHouseFirst
  <1>7. SnapshotIsCurrent
    <2>1. Answered("none", FALSE).pc \in {"propose", "start"}
      BY AnsweredType DEF Verdicts, Flags
    <2>. QED BY <2>1, DroppedIsSnapshot DEF Init, SnapshotIsCurrent
  <1>. QED BY <1>4, <1>5, <1>6, <1>7 DEF IInv

(* No step leaves the invariant. *)
LEMMA OnboardingStep == IInv /\ [Next]_vars => IInv'
  <1>. SUFFICES ASSUME IInv, [Next]_vars PROVE IInv'
    OBVIOUS
  <1>0. TypeOK
    BY DEF IInv
  <1>1. ASSUME NEW a \in Admins,
               \/ \E g \in Rows : RevokeAcl(a, g) \/ \E can \in {"yes", "no"} : GrantAcl(a, g, can)
               \/ \E p \in Props, override \in Backends \cup {"none"} : ReadPending(a, p, override)
               \/ CreateClickHouse(a) \/ RecordBackendAclStatus(a) \/ NoteBackendCached(a)
               \/ InvalidateAcl(a) \/ AdminStops(a)
        PROVE  IInv'
    <2>1. TypeOK'
      BY <1>0, <1>1, AdminType
    <2>2. RecordedTableExists' /\ ClickHouseFirst' /\ SnapshotIsCurrent'
      BY <1>1, AdminKeeps
    <2>. QED BY <2>1, <2>2 DEF IInv
  <1>2. ASSUME NEW c \in Callers,
               \/ ResolveCached(c) \/ ResolveRead(c) \/ ResolveInsert(c) \/ TableMeta(c)
               \/ ScopeDecides(c) \/ SnapshotCached(c) \/ Load(c) \/ StoreSnapshot(c)
               \/ GateStops(c) \/ Create(c)
        PROVE  IInv'
    <2>1. TypeOK'
      BY <1>0, <1>2, CallerType
    <2>2. RecordedTableExists' /\ ClickHouseFirst' /\ SnapshotIsCurrent'
      BY <1>2, CallerKeeps
    <2>. QED BY <2>1, <2>2 DEF IInv
  <1>. QED BY <1>1, <1>2, OthersKeep DEF Next

(* The invariant holds throughout. *)
LEMMA OnboardingInvariant == Spec => []IInv
  BY OnboardingInit, OnboardingStep, PTL DEF Spec

(* proposals::approve and Registry::resolve, with their races and           *)
(* half-finished handlers: the recorded backend holds the table, and nobody *)
(* is sent to ClickHouse for a table that is not there.                     *)
THEOREM OnboardingSafe == Spec => []OnboardingInv
  <1>1. IInv => OnboardingInv
    BY DEF IInv, OnboardingInv
  <1>. QED BY <1>1, OnboardingInvariant, PTL

(* An applied proposal is written only by an approval that applies it once *)
(* more, which changes nothing of it.                                      *)
LEMMA AppliedStep ==
    ASSUME TypeOK, [Next]_vars, NEW p \in Props, prop[p].status = "applied"
    PROVE  prop'[p] = prop[p]
  <1>a. prop \in [Props -> Proposal]
    BY DEF TypeOK
  <1>1. ASSUME NEW a \in Admins, RecordBackendAclStatus(a) PROVE prop'[p] = prop[p]
    <2>1. prop' = [prop EXCEPT ![admin[a].p].status = "applied"]
      BY <1>1 DEF RecordBackendAclStatus
    <2>. QED BY <1>a, <2>1 DEF Proposal
  <1>2. ASSUME NEW q \in Props, Reject(q) \/ Counter(q) PROVE prop'[p] = prop[p]
    BY <1>a, <1>2 DEF Reject, Counter
  <1>3. ASSUME NEW c \in Callers, Create(c) PROVE prop'[p] = prop[p]
    BY <1>a, <1>3 DEF Create
  <1>. QED
    BY <1>1, <1>2, <1>3 DEF Next, GrantAcl, RevokeAcl, ReadPending, CreateClickHouse,
       NoteBackendCached, InvalidateAcl, AdminStops, RefreshAcl, RefreshSchemas, SnapshotExpires,
       ResolveCached, ResolveRead, ResolveInsert, TableMeta, ScopeDecides, SnapshotCached, Load,
       StoreSnapshot, GateStops, vars

(* approve, reject and counter: an applied proposal keeps its status and   *)
(* the schema it was applied with.                                         *)
THEOREM AppliedStays == Spec => AppliedIsFinal
  <1>1. IInv /\ [Next]_vars =>
           [\A p \in Props : prop[p].status = "applied" => prop'[p] = prop[p]]_vars
    BY AppliedStep DEF IInv
  <1>. QED BY <1>1, OnboardingInvariant, PTL DEF Spec, AppliedIsFinal

(* A step that makes a verdict decides it on the token's scope or on a     *)
(* map: the snapshot or a load.                                            *)
LEMMA GrantStep ==
    ASSUME IInv, [Next]_vars, NEW c \in Callers, LetsWrite(c)
    PROVE  \/ task[c].scoped
           \/ CheckCanWrite(acl, c)
           \/ task'[c].late
           \/ \E a \in Admins : admin[a].pc \in {"note", "granted", "invalidate"}
  <1>a. task \in [Callers -> Marked] /\ TypeOK /\ snap.late \in Flags
    BY MarkedIsTask DEF IInv, TypeOK, Flags
  <1>b. task'[c].verdict = "write" /\ task[c].verdict = "none"
    BY DEF LetsWrite
  <1>v. \A map : Verdict(c, map) = "write" => ScopeGrants(c) \/ CheckCanWrite(map, c)
    BY DEF Verdict
  <1>0. CASE ScopeDecides(c)
    BY <1>0 DEF ScopeDecides, ScopeGrants
  <1>1. CASE SnapshotCached(c)
    <2>1. task'[c].verdict = Verdict(c, snap.map) /\ task'[c].late = snap.late /\ snap.fresh
      BY <1>a, <1>1, DecidesSays DEF SnapshotCached, Usable
    <2>2. CheckCanWrite(snap.map, c)
      BY <1>b, <1>v, <1>1, <2>1 DEF SnapshotCached
    <2>3. CASE ~snap.late /\ Settled
      BY <2>1, <2>2, <2>3 DEF IInv, SnapshotIsCurrent
    <2>. QED BY <2>1, <2>3 DEF Settled
  <1>2. CASE StoreSnapshot(c)
    <2>0. task[c].late \in Flags
      BY <1>a DEF Marked
    <2>1. /\ task'[c].verdict = Verdict(c, task[c].map) /\ task'[c].late = task[c].late
          /\ task[c].pc = "loading"
      BY <1>a, <1>2, <2>0, DecidesSays DEF StoreSnapshot
    <2>2. task[c].scoped \/ CheckCanWrite(task[c].map, c)
      BY <1>b, <1>v, <2>1 DEF ScopeGrants
    <2>. QED BY <2>1, <2>2 DEF IInv, SnapshotIsCurrent
  <1>3. ASSUME NEW x \in Callers,
               \/ ResolveCached(x) \/ ResolveRead(x) \/ ResolveInsert(x) \/ TableMeta(x)
               \/ Load(x) \/ GateStops(x) \/ Create(x)
        PROVE  task'[c].verdict \in {task[c].verdict, "none"}
    <2>1. CASE ResolveCached(x)
      <3>1. Handle(cache) \in Backends /\ "found" \in Places
        BY <1>a, <2>1 DEF ResolveCached, TypeOK, Handle, Backends, Places
      <3>. QED BY <1>a, <2>1, <3>1, AsksSays DEF ResolveCached
    <2>2. CASE ResolveRead(x)
      <3>. DEFINE k == IF row = "none" THEN "postgres" ELSE row
      <3>1. k \in Backends /\ "resolving" \in Places /\ Asks(x, "resolving", k)
        BY <1>a, <2>2 DEF ResolveRead, TypeOK, Backends, Places
      <3>. HIDE DEF k
      <3>. QED BY <1>a, <3>1, AsksSays
    <2>3. CASE ResolveInsert(x)
      BY <1>a, <2>3 DEF ResolveInsert, Marked
    <2>4. CASE TableMeta(x)
      BY <1>a, <2>4 DEF TableMeta, Marked
    <2>5. CASE Load(x)
      BY <1>a, <2>5 DEF Load, Marked
    <2>6. CASE Create(x)
      <3>1. task' = [task EXCEPT ![x].pc = "start"]
        BY <2>6 DEF Create
      <3>. QED BY <1>a, <3>1 DEF Marked
    <2>7. CASE GateStops(x)
      <3>. DEFINE q == Answered("none", FALSE)
      <3>1. q.verdict = "none"
        BY AnsweredType DEF Verdicts, Flags
      <3>2. task' = [task EXCEPT ![x] = q]
        BY <2>7 DEF GateStops
      <3>. HIDE DEF q
      <3>. QED BY <1>a, <3>1, <3>2
    <2>. QED BY <1>3, <2>1, <2>2, <2>3, <2>4, <2>5, <2>6, <2>7
  <1>4. ASSUME NEW x \in Callers \ {c}, ScopeDecides(x) \/ SnapshotCached(x) \/ StoreSnapshot(x)
        PROVE  task'[c].verdict = task[c].verdict
    <2>1. FALSE \in Flags /\ task[x].late \in Flags
      BY <1>a DEF Flags, Marked
    <2>. QED
      BY <1>a, <1>4, <2>1, DecidesSays DEF ScopeDecides, SnapshotCached, StoreSnapshot
  <1>5. ASSUME NEW new, ChangeAcl(new) PROVE task'[c].verdict = task[c].verdict
    BY <1>a, <1>5 DEF ChangeAcl, Marked
  <1>6. ASSUME NEW a \in Admins,
               \/ \E g \in Rows : RevokeAcl(a, g) \/ \E can \in {"yes", "no"} : GrantAcl(a, g, can)
               \/ RecordBackendAclStatus(a)
        PROVE  task'[c].verdict = task[c].verdict
    BY <1>5, <1>6 DEF RevokeAcl, GrantAcl, RecordBackendAclStatus
  <1>. QED
    BY <1>b, <1>0, <1>1, <1>2, <1>3, <1>4, <1>6 DEF Next, ReadPending, CreateClickHouse,
       NoteBackendCached, InvalidateAcl, AdminStops, Reject, Counter, RefreshAcl, RefreshSchemas,
       SnapshotExpires, vars

(* gate_target with the token's scope or the ACL snapshot: a write is let  *)
(* through only by a scope, on a grant that stands, on one whose           *)
(* withdrawal is still in its handler, or on a snapshot that a change      *)
(* overtook or whose invalidation was lost.                                *)
THEOREM GrantsHold == Spec => WritesAreGranted
  <1>1. IInv /\ [Next]_vars =>
           [\A c \in Callers :
               LetsWrite(c) =>
                  \/ task[c].scoped
                  \/ CheckCanWrite(acl, c)
                  \/ task'[c].late
                  \/ \E a \in Admins : admin[a].pc \in {"note", "granted", "invalidate"}]_vars
    BY GrantStep
  <1>. QED BY <1>1, OnboardingInvariant, PTL DEF Spec, WritesAreGranted
=============================================================================
