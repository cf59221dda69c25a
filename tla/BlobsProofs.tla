----------------------------- MODULE BlobsProofs -----------------------------
(***************************************************************************)
(* What the blob plane stores, for any number of uploads, contents, types  *)
(* and callers and any direct writes and deletions: rows name bytes that   *)
(* are there under a declared type, and dedupe stays within a tenant; and  *)
(* what is read, on the primary and through the shadow's cache.            *)
(***************************************************************************)
EXTENDS Blobs, FiniteSetTheorems, TLAPS

(* The keys with a content's hash in them. *)
HashKeys == CasKeys \cup TenantKeys

(* At a key there is an object, or it was written or deleted directly. *)
Present(site, k) == <<site, k>> \in touched \/ objects[<<site, k>>] # None

(* Some upload to the key declared the type. *)
Declared(site, k, t) ==
    \E u \in Uploads : up[u].req.site = site /\ KeyFor(u) = k /\ up[u].req.type = t

(* The object o is what uploads leave at a key. *)
GoodAt(site, k, o) ==
    o # None => /\ o.bytes = k[3]
                /\ k \in CasKeys /\ o.type # None => Declared(site, k, o.type)

ObjectsGood ==
    \A site \in Sites, k \in HashKeys :
      <<site, k>> \notin touched => GoodAt(site, k, objects[<<site, k>>])

SharedRow(site, s, row) ==
    row # None => /\ row.key \in CasKeys /\ row.key[3] = s
                  /\ Present(site, row.key) /\ Declared(site, row.key, row.type)
PrivateRow(site, o, s, row) ==
    row # None => /\ row.key = tenant_key(o, s) /\ Present(site, row.key)
                  /\ <<site, o, s>> \in uploaded
RowsGood ==
    /\ \A site \in Sites, s \in Shas : SharedRow(site, s, blobs[<<site, s>>])
    /\ \A site \in Sites, o \in Users, s \in Shas :
         PrivateRow(site, o, s, tenants[<<site, o, s>>])

(* An upload past its put has left its object, one that was told its blob  *)
(* exists has a row of its own, and nobody is told anything before the end. *)
UploadGood(u) ==
    /\ up[u].pc = "done" \/ up[u].answer = "none"
    /\ up[u].pc \in {"open", "insert"} => Present(up[u].req.site, KeyFor(u))
    /\ up[u].req.mode = "private" /\ up[u].answer = "existed"
         => <<up[u].req.site, up[u].req.who, up[u].req.sha>> \in uploaded

UpType == up \in [Uploads -> [pc : Places, req : Requests, answer : Answers]]

(* A listing as the peer answers it: no retrieval results, within the      *)
(* limit, and full if it is marked truncated.                              *)
PeerListing(p, l) ==
    /\ l.objects \cap RetrievalKeys = {}
    /\ Cardinality(l.objects) <= p.limit
    /\ l.truncated => Cardinality(l.objects) = p.limit

(* Only paths that are not local-only are asked of the peer or cached, and *)
(* their listings are the peer's.                                          *)
ReadGood ==
    /\ IF fwd.pc \in {"off", "idle"} THEN fwd.path = None
       ELSE fwd.path \in Paths /\ ~LocalOnly(fwd.path)
    /\ fwd.pc = "answered" /\ fwd.path \in ListPaths => PeerListing(fwd.path, fwd.got)
    /\ \A p \in Paths : cache[p] # None =>
         ~LocalOnly(p) /\ (p \in ListPaths => PeerListing(p, cache[p].got))

IInv ==
    /\ TypeOK
    /\ ObjectsGood
    /\ RowsGood
    /\ \A u \in Uploads : UploadGood(u)
    /\ ReadGood
-----------------------------------------------------------------------------
(* Keys *)

(* The three kinds of keys are apart, and the hash is in the first two. *)
LEMMA KeysApart ==
    /\ \A t \in Types, s \in Shas : CasKey(t, s) \in CasKeys /\ CasKey(t, s)[3] = s
    /\ \A o \in Users, s \in Shas : tenant_key(o, s) \in TenantKeys /\ tenant_key(o, s)[3] = s
    /\ \A k \in CasKeys : k \notin TenantKeys
    /\ \A k \in RetrievalKeys : k \notin HashKeys
    /\ HashKeys \subseteq Keys /\ RetrievalKeys \subseteq Keys
  <1>1. /\ \A t \in Types, s \in Shas : CasKey(t, s) \in CasKeys /\ CasKey(t, s)[3] = s
        /\ \A k \in CasKeys : k[1] = "cas"
    BY DEF CasKeys, CasKey
  <1>2. /\ \A o \in Users, s \in Shas : tenant_key(o, s) \in TenantKeys /\ tenant_key(o, s)[3] = s
        /\ \A k \in TenantKeys : k[1] = "tenants"
    BY DEF TenantKeys, tenant_key
  <1>3. \A k \in RetrievalKeys : k[1] = "retrievals"
    BY DEF RetrievalKeys, RetrievalKey
  <1>4. "cas" # "tenants" /\ "cas" # "retrievals" /\ "tenants" # "retrievals"
    OBVIOUS
  <1>. QED BY <1>1, <1>2, <1>3, <1>4 DEF HashKeys, Keys

(* What an upload asks for, and the key that follows from it. *)
LEMMA RequestParts ==
    ASSUME UpType, NEW u \in Uploads
    PROVE  /\ up[u].req.mode \in {"shared", "private"} /\ up[u].req.site \in Sites
           /\ up[u].req.who \in Users /\ up[u].req.sha \in Shas /\ up[u].req.type \in Types
           /\ KeyFor(u) \in HashKeys /\ KeyFor(u)[3] = up[u].req.sha
           /\ up[u].req.mode # "private" => KeyFor(u) \in CasKeys
           /\ up[u].req.mode = "private" => KeyFor(u) = tenant_key(up[u].req.who, up[u].req.sha)
  <1>1. up[u].req \in Requests
    BY DEF UpType
  <1>2. /\ up[u].req.mode \in {"shared", "private"} /\ up[u].req.site \in Sites
        /\ up[u].req.who \in Users /\ up[u].req.sha \in Shas /\ up[u].req.type \in Types
    BY <1>1, BlobConstants
  <1>. QED BY <1>2, KeysApart DEF KeyFor, HashKeys

(* An upload moves on: nobody's request changes. *)
UpFrame(u) ==
    /\ UpType'
    /\ \A v \in Uploads : up'[v].req = up[v].req /\ KeyFor(v)' = KeyFor(v)
    /\ \A v \in Uploads \ {u} : up'[v] = up[v]

LEMMA UploadMoves ==
    ASSUME UpType, NEW u \in Uploads, NEW pc \in Places, NEW a \in Answers,
           \/ Goto(u, pc) /\ a = up[u].answer
           \/ Answer(u, a) /\ pc = "done"
    PROVE  UpFrame(u) /\ up'[u].pc = pc /\ up'[u].answer = a
  <1>. DEFINE Q == [pc : Places, req : Requests, answer : Answers]
              q == up[u]
              n == [pc |-> pc, req |-> q.req, answer |-> a]
  <1>1. up \in [Uploads -> Q] /\ q \in Q
    BY DEF UpType
  <1>2. up' = [up EXCEPT ![u] = n]
    <2>1. CASE Goto(u, pc) /\ a = up[u].answer
      <3>1. up' = [up EXCEPT ![u] = [q EXCEPT !.pc = pc]]
        BY <2>1 DEF Goto
      <3>2. [q EXCEPT !.pc = pc] = n
        BY <1>1, <2>1
      <3>. QED BY <3>1, <3>2
    <2>2. CASE Answer(u, a) /\ pc = "done"
      <3>. DEFINE m == [pc |-> pc, req |-> q.req, answer |-> q.answer]
      <3>1. up' = [up EXCEPT ![u] = [[q EXCEPT !.pc = pc] EXCEPT !.answer = a]]
        BY <1>1, <2>2 DEF Answer
      <3>2. [q EXCEPT !.pc = pc] = m
        BY <1>1
      <3>3. [m EXCEPT !.answer = a] = n
        OBVIOUS
      <3>. QED BY <3>1, <3>2, <3>3
    <2>. QED BY <2>1, <2>2
  <1>3. n \in Q /\ n.pc = pc /\ n.req = q.req /\ n.answer = a
    BY <1>1
  <1>. HIDE DEF n, Q
  <1>4. up' \in [Uploads -> Q] /\ up'[u] = n /\ \A v \in Uploads \ {u} : up'[v] = up[v]
    BY <1>1, <1>2, <1>3
  <1>5. \A v \in Uploads : up'[v].req = up[v].req
    BY <1>3, <1>4
  <1>6. \A v \in Uploads : KeyFor(v)' = KeyFor(v)
    BY <1>5 DEF KeyFor
  <1>. QED BY <1>3, <1>4, <1>5, <1>6 DEF UpFrame, UpType, Q
-----------------------------------------------------------------------------
(* Objects *)

(* What holds of keys in every step but a direct write: requests stay, what *)
(* is there stays there, and no key becomes untouched.                      *)
Keeps ==
    /\ \A v \in Uploads : up'[v].req = up[v].req /\ KeyFor(v)' = KeyFor(v)
    /\ \A site \in Sites, k \in Keys : Present(site, k) => Present(site, k)'
    /\ \A x \in touched : x \in touched'
    /\ \A x \in uploaded : x \in uploaded'

(* Then rows that stay keep their bytes, and so do uploads that stay. *)
LEMMA RowsKept ==
    ASSUME IInv, Keeps
    PROVE  /\ \A o : \A site \in Sites, k \in HashKeys : GoodAt(site, k, o) => GoodAt(site, k, o)'
           /\ \A row : \A site \in Sites, s \in Shas :
                SharedRow(site, s, row) => SharedRow(site, s, row)'
           /\ \A row : \A site \in Sites, o \in Users, s \in Shas :
                PrivateRow(site, o, s, row) => PrivateRow(site, o, s, row)'
           /\ \A v \in Uploads : up'[v] = up[v] => UploadGood(v)'
  <1>1. \A site, k, t : Declared(site, k, t) => Declared(site, k, t)'
    BY DEF Keeps, Declared
  <1>2. \A site \in Sites, k \in Keys : Present(site, k) => Present(site, k)'
    BY DEF Keeps
  <1>3. CasKeys \subseteq Keys
    BY DEF Keys
  <1>4. \A o \in Users, s \in Shas : tenant_key(o, s) \in Keys
    BY KeysApart DEF HashKeys
  <1>5. \A o : \A site \in Sites, k \in HashKeys : GoodAt(site, k, o) => GoodAt(site, k, o)'
    BY <1>1 DEF GoodAt
  <1>6. \A row : \A site \in Sites, s \in Shas : SharedRow(site, s, row) => SharedRow(site, s, row)'
    BY <1>1, <1>2, <1>3 DEF SharedRow
  <1>7. \A row : \A site \in Sites, o \in Users, s \in Shas :
          PrivateRow(site, o, s, row) => PrivateRow(site, o, s, row)'
    BY <1>2, <1>4 DEF PrivateRow, Keeps
  <1>8. ASSUME NEW v \in Uploads, up'[v] = up[v] PROVE UploadGood(v)'
    <2>1. /\ UploadGood(v) /\ up[v].req.site \in Sites /\ KeyFor(v) \in Keys
          /\ KeyFor(v)' = KeyFor(v)
      BY RequestParts, KeysApart DEF IInv, TypeOK, UpType, Keeps
    <2>. QED BY <1>2, <1>8, <2>1 DEF UploadGood, Keeps
  <1>. QED BY <1>5, <1>6, <1>7, <1>8

(* An object is written by an upload, or its key is touched. *)
LEMMA ObjectsKept ==
    ASSUME IInv, NEW site \in Sites, NEW k \in Keys, NEW o \in Objects \cup {None},
           objects' = [objects EXCEPT ![<<site, k>>] = o],
           UNCHANGED uploaded,
           \A v \in Uploads : up'[v].req = up[v].req /\ KeyFor(v)' = KeyFor(v),
           \/ touched' = touched \cup {<<site, k>>}
           \/ touched' = touched /\ o # None /\ (k \in HashKeys => GoodAt(site, k, o))
    PROVE  /\ objects' \in [Sites \X Keys -> Objects \cup {None}]
           /\ touched' \subseteq Sites \X Keys
           /\ Keeps /\ ObjectsGood'
           /\ <<site, k>> \in touched' \/ objects'[<<site, k>>] # None
  <1>1. /\ objects \in [Sites \X Keys -> Objects \cup {None}]
        /\ touched \subseteq Sites \X Keys /\ <<site, k>> \in Sites \X Keys
    BY DEF IInv, TypeOK
  <1>2. /\ objects' \in [Sites \X Keys -> Objects \cup {None}]
        /\ objects'[<<site, k>>] = o
        /\ \A x \in (Sites \X Keys) \ {<<site, k>>} : objects'[x] = objects[x]
    BY <1>1
  <1>3. touched' \subseteq Sites \X Keys /\ \A x \in touched : x \in touched'
    BY <1>1
  <1>4. <<site, k>> \in touched' \/ objects'[<<site, k>>] # None
    BY <1>2
  <1>5. Keeps
    <2>1. ASSUME NEW s \in Sites, NEW h \in Keys, Present(s, h) PROVE Present(s, h)'
      <3>1. CASE <<s, h>> = <<site, k>>
        BY <1>4, <3>1 DEF Present
      <3>2. CASE <<s, h>> # <<site, k>>
        BY <1>2, <1>3, <2>1, <3>2 DEF Present
      <3>. QED BY <3>1, <3>2
    <2>. QED BY <1>3, <2>1 DEF Keeps
  <1>6. ObjectsGood'
    <2>. SUFFICES ASSUME NEW s \in Sites, NEW h \in HashKeys, <<s, h>> \notin touched'
                  PROVE  GoodAt(s, h, objects[<<s, h>>])'
      BY DEF ObjectsGood
    <2>0. h \in Keys /\ <<s, h>> \notin touched
      BY <1>3, KeysApart
    <2>1. GoodAt(s, h, objects'[<<s, h>>])
      <3>1. CASE <<s, h>> = <<site, k>>
        BY <1>2, <3>1
      <3>2. CASE <<s, h>> # <<site, k>>
        BY <1>2, <2>0, <3>2 DEF IInv, ObjectsGood
      <3>. QED BY <3>1, <3>2
    <2>2. \A o2 : GoodAt(s, h, o2) => GoodAt(s, h, o2)'
      BY <1>5, RowsKept
    <2>. QED BY <2>1, <2>2 DEF GoodAt, Declared
  <1>. QED BY <1>2, <1>3, <1>4, <1>5, <1>6

(* What is stored is an object, with the declared type or none. *)
LEMMA StoredIsObject ==
    ASSUME NEW site, NEW b \in Shas \cup {Other}, NEW t \in Types \cup {Octet}
    PROVE  /\ Stored(site, b, t) \in Objects /\ Stored(site, b, t) # None
           /\ Stored(site, b, t).bytes = b /\ Stored(site, b, t).type \in {t, None}
  BY BlobConstants DEF Stored, Object, Objects

(* What a step leaves alone stays good. *)
LEMMA RestKept ==
    ASSUME IInv, Keeps
    PROVE  /\ objects' = objects => ObjectsGood'
           /\ blobs' = blobs =>
                \A site \in Sites, s \in Shas : SharedRow(site, s, blobs[<<site, s>>])'
           /\ tenants' = tenants =>
                \A site \in Sites, o \in Users, s \in Shas :
                  PrivateRow(site, o, s, tenants[<<site, o, s>>])'
  <1>1. ASSUME objects' = objects, NEW site \in Sites, NEW k \in HashKeys, <<site, k>> \notin touched'
        PROVE  GoodAt(site, k, objects[<<site, k>>])'
    <2>1. <<site, k>> \notin touched
      BY <1>1 DEF Keeps
    <2>2. GoodAt(site, k, objects[<<site, k>>])
      BY <2>1 DEF IInv, ObjectsGood
    <2>. QED BY <1>1, <2>2, RowsKept DEF GoodAt, Declared
  <1>2. ASSUME blobs' = blobs, NEW site \in Sites, NEW s \in Shas
        PROVE  SharedRow(site, s, blobs[<<site, s>>])'
    <2>1. SharedRow(site, s, blobs[<<site, s>>])
      BY DEF IInv, RowsGood
    <2>. QED BY <1>2, <2>1, RowsKept DEF SharedRow, Present, Declared
  <1>3. ASSUME tenants' = tenants, NEW site \in Sites, NEW o \in Users, NEW s \in Shas
        PROVE  PrivateRow(site, o, s, tenants[<<site, o, s>>])'
    <2>1. PrivateRow(site, o, s, tenants[<<site, o, s>>])
      BY DEF IInv, RowsGood
    <2>. QED BY <1>3, <2>1, RowsKept DEF PrivateRow, Present
  <1>. QED BY <1>1, <1>2, <1>3 DEF ObjectsGood

(* A step of an upload that writes nothing. *)
LEMMA UploadStep ==
    ASSUME IInv, NEW u \in Uploads, UpFrame(u), UploadGood(u)',
           UNCHANGED <<objects, rowVars, readVars, history>>
    PROVE  IInv'
  <1>1. UNCHANGED <<objects, blobs, tenants, cache, fwd, touched, uploaded>>
    BY DEF rowVars, readVars, history
  <1>2. Keeps
    BY <1>1 DEF Keeps, UpFrame, Present
  <1>3. ObjectsGood' /\ RowsGood'
    BY <1>1, <1>2, RestKept DEF RowsGood
  <1>4. \A v \in Uploads : UploadGood(v)'
    BY <1>2, RowsKept DEF UpFrame
  <1>5. TypeOK' /\ ReadGood'
    BY <1>1 DEF IInv, TypeOK, ReadGood, UpFrame, UpType
  <1>. QED BY <1>3, <1>4, <1>5 DEF IInv
-----------------------------------------------------------------------------
(* Steps *)

(* An answer other than "existed" promises nothing. *)
LEMMA AnswerStep ==
    ASSUME IInv, NEW u \in Uploads, NEW a \in Answers \ {"existed"}, Answer(u, a)
    PROVE  UpFrame(u) /\ UploadGood(u)'
  <1>1. UpType /\ "done" \in Places
    BY DEF IInv, TypeOK, UpType, Places
  <1>2. UpFrame(u) /\ up'[u].pc = "done" /\ up'[u].answer = a
    BY <1>1, UploadMoves
  <1>. QED BY <1>2 DEF UploadGood

(* An upload that goes on keeps what was there when it put its object. *)
LEMMA GotoStep ==
    ASSUME IInv, NEW u \in Uploads, NEW pc \in Places, Goto(u, pc),
           up[u].pc # "done",
           pc \in {"open", "insert"} => Present(up[u].req.site, KeyFor(u))'
    PROVE  UpFrame(u) /\ UploadGood(u)'
  <1>1. UpType /\ up[u].answer \in Answers
    BY DEF IInv, TypeOK, UpType
  <1>2. UpFrame(u) /\ up'[u].pc = pc /\ up'[u].answer = up[u].answer
    BY <1>1, UploadMoves
  <1>3. up'[u].req = up[u].req /\ KeyFor(u)' = KeyFor(u) /\ up[u].answer = "none"
    BY <1>2 DEF UpFrame, IInv, UploadGood
  <1>. QED BY <1>2, <1>3 DEF UploadGood, Present

LEMMA LookupSafe ==
    ASSUME IInv, NEW u \in Uploads, LookupExisting(u)
    PROVE  IInv'
  <1>1. /\ UpType /\ up[u].pc = "start" /\ up[u].pc # "done"
        /\ {"put", "done"} \subseteq Places /\ "existed" \in Answers
        /\ "error" \in Answers \ {"existed"}
    BY DEF IInv, TypeOK, UpType, LookupExisting, At, Places, Answers
  <1>2. UNCHANGED <<objects, rowVars, readVars, history>>
    BY DEF LookupExisting
  <1>3. CASE RowOf(u) # None /\ Answer(u, "existed")
    <2>1. UpFrame(u) /\ up'[u].pc = "done" /\ up'[u].answer = "existed"
      BY <1>1, <1>3, UploadMoves
    <2>2. up'[u].req = up[u].req /\ uploaded' = uploaded
      BY <1>2, <2>1 DEF UpFrame, history
    <2>3. up[u].req.mode = "private" =>
            <<up[u].req.site, up[u].req.who, up[u].req.sha>> \in uploaded
      <3>1. /\ up[u].req.site \in Sites /\ up[u].req.who \in Users /\ up[u].req.sha \in Shas
        BY <1>1, RequestParts
      <3>. QED BY <1>3, <3>1 DEF RowOf, IInv, RowsGood, PrivateRow
    <2>4. UploadGood(u)'
      BY <2>1, <2>2, <2>3 DEF UploadGood
    <2>. QED BY <1>2, <2>1, <2>4, UploadStep
  <1>4. CASE Goto(u, "put")
    BY <1>1, <1>2, <1>4, GotoStep, UploadStep
  <1>5. CASE Answer(u, "error")
    BY <1>1, <1>2, <1>5, AnswerStep, UploadStep
  <1>. QED BY <1>3, <1>4, <1>5 DEF LookupExisting

LEMMA OpenRunSafe ==
    ASSUME IInv, NEW u \in Uploads, OpenRun(u)
    PROVE  IInv'
  <1>1. /\ UpType /\ up[u].pc = "open" /\ up[u].pc # "done" /\ "insert" \in Places
        /\ "error" \in Answers \ {"existed"}
    BY DEF IInv, TypeOK, UpType, OpenRun, At, Places, Answers
  <1>2. UNCHANGED <<objects, rowVars, readVars, history>>
    BY DEF OpenRun
  <1>3. CASE Goto(u, "insert")
    <2>1. Present(up[u].req.site, KeyFor(u))
      BY <1>1 DEF IInv, UploadGood
    <2>2. up'[u].req = up[u].req /\ KeyFor(u)' = KeyFor(u)
      BY <1>1, <1>3, UploadMoves DEF UpFrame, UpType
    <2>3. Present(up[u].req.site, KeyFor(u))'
      BY <1>2, <2>1, <2>2 DEF Present, history
    <2>. QED BY <1>1, <1>2, <1>3, <2>2, <2>3, GotoStep, UploadStep DEF Present
  <1>4. CASE Answer(u, "error")
    BY <1>1, <1>2, <1>4, AnswerStep, UploadStep
  <1>. QED BY <1>3, <1>4 DEF OpenRun

LEMMA AbandonSafe ==
    ASSUME IInv, NEW u \in Uploads, Abandon(u)
    PROVE  IInv'
  <1>1. "error" \in Answers \ {"existed"} /\ Answer(u, "error")
    BY DEF Abandon, Answers
  <1>2. UNCHANGED <<objects, rowVars, readVars, history>>
    BY DEF Abandon
  <1>. QED BY <1>1, <1>2, AnswerStep, UploadStep

(* The bytes are put under the key that has their hash. *)
LEMMA PutSafe ==
    ASSUME IInv, NEW u \in Uploads, PutBytes(u)
    PROVE  IInv'
  <1>. DEFINE site == up[u].req.site
              k == KeyFor(u)
              o == Stored(site, up[u].req.sha, up[u].req.type)
              next == IF up[u].req.mode = "shared" THEN "open" ELSE "insert"
  <1>1. /\ UpType /\ up[u].pc # "done" /\ next \in Places
        /\ "error" \in Answers \ {"existed"}
    BY DEF IInv, TypeOK, UpType, PutBytes, At, Places, Answers
  <1>2. UNCHANGED <<blobs, tenants, cache, fwd, touched, uploaded>>
    BY DEF PutBytes, rowVars, readVars, history
  <1>3. /\ site \in Sites /\ k \in HashKeys /\ k \in Keys /\ k[3] = up[u].req.sha
        /\ up[u].req.sha \in Shas /\ up[u].req.type \in Types
    BY <1>1, RequestParts, KeysApart
  <1>4. CASE objects' = [objects EXCEPT ![<<site, k>>] = o] /\ Goto(u, next)
    <2>1. /\ o \in Objects /\ o # None /\ o.bytes = k[3]
          /\ o.type \in {up[u].req.type, None}
      BY <1>3, StoredIsObject
    <2>2. Declared(site, k, up[u].req.type)
      BY DEF Declared
    <2>3. GoodAt(site, k, o)
      BY <2>1, <2>2 DEF GoodAt
    <2>4. UpFrame(u)
      <3>. HIDE DEF next
      <3>1. up[u].answer \in Answers
        BY <1>1 DEF UpType
      <3>. QED BY <1>1, <1>4, <3>1, UploadMoves
    <2>5. /\ objects' \in [Sites \X Keys -> Objects \cup {None}]
          /\ Keeps /\ ObjectsGood'
          /\ <<site, k>> \in touched' \/ objects'[<<site, k>>] # None
      <3>. HIDE DEF site, k, o
      <3>. QED BY <1>2, <1>3, <1>4, <2>1, <2>3, <2>4, ObjectsKept DEF UpFrame
    <2>6. up'[u].req = up[u].req /\ KeyFor(u)' = KeyFor(u)
      BY <2>4 DEF UpFrame
    <2>7. UploadGood(u)'
      BY <1>1, <1>4, <2>5, <2>6, GotoStep DEF Present
    <2>8. RowsGood'
      BY <1>2, <2>5, RestKept DEF RowsGood
    <2>9. \A v \in Uploads : UploadGood(v)'
      BY <2>4, <2>5, <2>7, RowsKept DEF UpFrame
    <2>10. TypeOK' /\ ReadGood'
      <3>. HIDE DEF site, k, o
      <3>. QED BY <1>2, <2>4, <2>5 DEF IInv, TypeOK, ReadGood, UpFrame, UpType
    <2>. QED BY <2>5, <2>8, <2>9, <2>10 DEF IInv
  <1>5. CASE Answer(u, "error") /\ UNCHANGED objects
    BY <1>1, <1>2, <1>5, AnswerStep, UploadStep DEF rowVars, readVars, history
  <1>. QED BY <1>4, <1>5 DEF PutBytes

(* The row of a shared upload names the key it has put, or an earlier row   *)
(* of the hash stays.                                                       *)
LEMMA InsertSharedSafe ==
    ASSUME IInv, NEW u \in Uploads, InsertShared(u)
    PROVE  IInv'
  <1>. DEFINE site == up[u].req.site
              s == up[u].req.sha
              row == Row(u)
  <1>1. /\ UpType /\ up[u].pc = "insert" /\ up[u].req.mode = "shared"
        /\ {"ok", "error"} \subseteq Answers \ {"existed"}
    BY DEF IInv, TypeOK, UpType, InsertShared, At, Answers
  <1>2. UNCHANGED <<objects, tenants, cache, fwd, touched, uploaded>>
    BY DEF InsertShared, readVars, history
  <1>3. CASE /\ blobs' = IF blobs[<<site, s>>] = None THEN [blobs EXCEPT ![<<site, s>>] = row] ELSE blobs
             /\ Answer(u, "ok")
    <2>1. UpFrame(u) /\ UploadGood(u)'
      BY <1>1, <1>3, AnswerStep
    <2>2. Keeps
      BY <1>2, <2>1 DEF Keeps, UpFrame, Present
    <2>3. ObjectsGood' /\ \A v \in Uploads : UploadGood(v)'
      BY <1>2, <2>1, <2>2, RestKept, RowsKept DEF UpFrame
    <2>4. /\ site \in Sites /\ s \in Shas /\ KeyFor(u) \in CasKeys /\ KeyFor(u) \in Keys
          /\ KeyFor(u)[3] = s /\ up[u].req.type \in Types
      <3>1. up[u].req.mode # "private"
        BY <1>1
      <3>. QED BY <1>1, <3>1, RequestParts, KeysApart
    <2>5. row \in Rows /\ row.key = KeyFor(u) /\ row.type = up[u].req.type
      BY <2>4 DEF Row, Rows
    <2>6. Present(site, KeyFor(u)) /\ Declared(site, KeyFor(u), up[u].req.type)
      BY <1>1 DEF IInv, UploadGood, Declared
    <2>7. SharedRow(site, s, row)
      BY <2>4, <2>5, <2>6 DEF SharedRow
    <2>8. blobs \in [Sites \X Shas -> Rows \cup {None}]
      BY DEF IInv, TypeOK
    <2>9. /\ blobs' \in [Sites \X Shas -> Rows \cup {None}]
          /\ \A x \in Sites \X Shas :
               blobs'[x] = blobs[x] \/ (x = <<site, s>> /\ blobs'[x] = row)
      <3>. HIDE DEF row, site, s
      <3>. QED BY <1>3, <2>4, <2>5, <2>8
    <2>10. ASSUME NEW site2 \in Sites, NEW s2 \in Shas
           PROVE  SharedRow(site2, s2, blobs[<<site2, s2>>])'
      <3>. DEFINE new == blobs'[<<site2, s2>>]
      <3>1. SharedRow(site2, s2, new)
        <4>1. CASE new = blobs[<<site2, s2>>]
          BY <4>1 DEF IInv, RowsGood
        <4>2. CASE <<site2, s2>> = <<site, s>> /\ new = row
          <5>. HIDE DEF row, site, s, new
          <5>. QED BY <2>7, <4>2
        <4>. QED BY <2>9, <4>1, <4>2
      <3>2. \A r : SharedRow(site2, s2, r) => SharedRow(site2, s2, r)'
        BY <2>2, RowsKept
      <3>. QED BY <3>1, <3>2 DEF SharedRow, Present, Declared
    <2>11. RowsGood'
      BY <1>2, <2>2, <2>10, RestKept DEF RowsGood
    <2>12. TypeOK' /\ ReadGood'
      BY <1>2, <2>1, <2>9 DEF IInv, TypeOK, ReadGood, UpFrame, UpType
    <2>. QED BY <2>3, <2>11, <2>12 DEF IInv
  <1>4. CASE Answer(u, "error") /\ UNCHANGED blobs
    BY <1>1, <1>2, <1>4, AnswerStep, UploadStep DEF rowVars, readVars, history
  <1>. QED BY <1>3, <1>4 DEF InsertShared

(* The row of a private upload is its owner's and names the owner's key. *)
LEMMA InsertPrivateSafe ==
    ASSUME IInv, NEW u \in Uploads, InsertPrivate(u)
    PROVE  IInv'
  <1>. DEFINE site == up[u].req.site
              who == up[u].req.who
              s == up[u].req.sha
              row == Row(u)
  <1>1. /\ UpType /\ up[u].pc = "insert" /\ up[u].req.mode = "private"
        /\ {"ok", "error"} \subseteq Answers \ {"existed"}
    BY DEF IInv, TypeOK, UpType, InsertPrivate, At, Answers
  <1>2. UNCHANGED <<objects, blobs, cache, fwd, touched>>
    BY DEF InsertPrivate, readVars
  <1>3. CASE /\ tenants' = IF tenants[<<site, who, s>>] = None
                           THEN [tenants EXCEPT ![<<site, who, s>>] = row] ELSE tenants
             /\ uploaded' = uploaded \cup {<<site, who, s>>}
             /\ Answer(u, "ok")
    <2>1. UpFrame(u) /\ UploadGood(u)'
      BY <1>1, <1>3, AnswerStep
    <2>2. Keeps
      BY <1>2, <1>3, <2>1 DEF Keeps, UpFrame, Present
    <2>3. ObjectsGood' /\ \A v \in Uploads : UploadGood(v)'
      BY <1>2, <2>1, <2>2, RestKept, RowsKept DEF UpFrame
    <2>4. /\ site \in Sites /\ who \in Users /\ s \in Shas /\ KeyFor(u) \in Keys
          /\ KeyFor(u) = tenant_key(who, s) /\ up[u].req.type \in Types
      BY <1>1, RequestParts, KeysApart
    <2>5. row \in Rows /\ row.key = tenant_key(who, s)
      BY <2>4 DEF Row, Rows
    <2>6. Present(site, tenant_key(who, s))
      BY <1>1, <2>4 DEF IInv, UploadGood
    <2>7. /\ tenants \in [Sites \X Users \X Shas -> Rows \cup {None}]
          /\ uploaded \subseteq Sites \X Users \X Shas
      BY DEF IInv, TypeOK
    <2>8. /\ tenants' \in [Sites \X Users \X Shas -> Rows \cup {None}]
          /\ uploaded' \subseteq Sites \X Users \X Shas
          /\ <<site, who, s>> \in uploaded'
          /\ \A x \in Sites \X Users \X Shas :
               tenants'[x] = tenants[x] \/ (x = <<site, who, s>> /\ tenants'[x] = row)
      <3>. HIDE DEF row, site, who, s
      <3>. QED BY <1>3, <2>4, <2>5, <2>7
    <2>9. ASSUME NEW site2 \in Sites, NEW o2 \in Users, NEW s2 \in Shas
          PROVE  PrivateRow(site2, o2, s2, tenants[<<site2, o2, s2>>])'
      <3>. DEFINE new == tenants'[<<site2, o2, s2>>]
      <3>1. CASE new = tenants[<<site2, o2, s2>>]
        <4>1. PrivateRow(site2, o2, s2, new)
          BY <3>1 DEF IInv, RowsGood
        <4>2. \A r : PrivateRow(site2, o2, s2, r) => PrivateRow(site2, o2, s2, r)'
          BY <2>2, RowsKept
        <4>. QED BY <4>1, <4>2 DEF PrivateRow, Present
      <3>2. CASE <<site2, o2, s2>> = <<site, who, s>> /\ new = row
        <4>1. new.key = tenant_key(o2, s2) /\ <<site2, o2, s2>> \in uploaded'
          <5>. HIDE DEF row, site, who, s, new
          <5>. QED BY <2>5, <2>8, <3>2
        <4>2. Present(site2, tenant_key(o2, s2))
          <5>. HIDE DEF row, site, who, s, new
          <5>. QED BY <2>6, <3>2
        <4>. QED BY <1>2, <4>1, <4>2 DEF PrivateRow, Present, tenant_key
      <3>. QED BY <2>8, <3>1, <3>2
    <2>10. RowsGood'
      BY <1>2, <2>2, <2>9, RestKept DEF RowsGood
    <2>11. TypeOK' /\ ReadGood'
      BY <1>2, <2>1, <2>8 DEF IInv, TypeOK, ReadGood, UpFrame, UpType
    <2>. QED BY <2>3, <2>10, <2>11 DEF IInv
  <1>4. CASE Answer(u, "error") /\ UNCHANGED <<tenants, uploaded>>
    BY <1>1, <1>2, <1>4, AnswerStep, UploadStep DEF InsertPrivate, rowVars, readVars, history
  <1>. QED BY <1>3, <1>4 DEF InsertPrivate

(* Direct writes and deletions touch their key; a retrieval result is at a  *)
(* key without a hash.                                                      *)
LEMMA ObjectStep ==
    ASSUME IInv, NEW site \in Sites, NEW k \in Keys, NEW o \in Objects \cup {None},
           objects' = [objects EXCEPT ![<<site, k>>] = o],
           UNCHANGED <<blobs, tenants, up, cache, fwd, uploaded>>,
           \/ touched' = touched \cup {<<site, k>>}
           \/ touched' = touched /\ o # None /\ k \in RetrievalKeys
    PROVE  IInv'
  <1>1. \A v \in Uploads : up'[v].req = up[v].req /\ KeyFor(v)' = KeyFor(v) /\ up'[v] = up[v]
    BY DEF KeyFor
  <1>2. k \in RetrievalKeys => k \notin HashKeys
    BY KeysApart
  <1>3. /\ objects' \in [Sites \X Keys -> Objects \cup {None}]
        /\ touched' \subseteq Sites \X Keys
        /\ Keeps /\ ObjectsGood'
    BY <1>1, <1>2, ObjectsKept
  <1>4. RowsGood' /\ \A v \in Uploads : UploadGood(v)'
    BY <1>1, <1>3, RestKept, RowsKept DEF RowsGood
  <1>5. TypeOK' /\ ReadGood'
    BY <1>3 DEF IInv, TypeOK, ReadGood
  <1>. QED BY <1>3, <1>4, <1>5 DEF IInv

LEMMA WritesSafe ==
    ASSUME IInv, NEW site \in Sites, NEW k \in Keys,
           PutBlob(site, k) \/ DeleteBlob(site, k)
    PROVE  IInv'
  <1>1. Stored(site, Other, Octet) \in Objects /\ None \in Objects \cup {None}
    BY StoredIsObject
  <1>2. UNCHANGED <<blobs, tenants, up, cache, fwd, uploaded>>
    BY DEF PutBlob, DeleteBlob, rowVars, readVars
  <1>. QED BY <1>1, <1>2, ObjectStep DEF PutBlob, DeleteBlob

LEMMA MaterializeSafe ==
    ASSUME IInv, NEW site \in Sites, NEW x \in Runs, Materialize(site, x)
    PROVE  IInv'
  <1>. DEFINE k == RetrievalKey(x)
  <1>1. Stored(site, Other, Octet) \in Objects /\ Stored(site, Other, Octet) # None
    BY StoredIsObject
  <1>2. k \in RetrievalKeys /\ k \in Keys
    BY KeysApart DEF RetrievalKeys
  <1>3. UNCHANGED <<blobs, tenants, up, cache, fwd, uploaded, touched>>
    BY DEF Materialize, rowVars, readVars, history
  <1>4. objects' = [objects EXCEPT ![<<site, k>>] = Stored(site, Other, Octet)]
    BY DEF Materialize
  <1>. HIDE DEF k
  <1>. QED BY <1>1, <1>2, <1>3, <1>4, ObjectStep

-----------------------------------------------------------------------------
(* Reads *)

(* A key is somebody's, or nobody's. *)
LEMMA KeyOwners ==
    /\ \A o \in Users, s \in Shas : tenant_key(o, s) \in TenantKeys /\ tenant_key(o, s)[2] = o
    /\ \A x \in Runs : RetrievalKey(x) \in RetrievalKeys /\ RetrievalKey(x) \notin TenantKeys
  <1>1. \A o \in Users, s \in Shas : tenant_key(o, s) \in TenantKeys /\ tenant_key(o, s)[2] = o
    BY DEF TenantKeys, tenant_key
  <1>2. \A x \in Runs : RetrievalKey(x) \in RetrievalKeys
    BY DEF RetrievalKeys
  <1>. QED BY <1>1, <1>2, KeysApart DEF HashKeys

(* A pair of finite sets makes finitely many keys. *)
LEMMA KeysFinite ==
    IsFiniteSet(Keys \ RetrievalKeys)
  <1>1. IsFiniteSet(Users) /\ IsFiniteSet(Shas) /\ IsFiniteSet(Types)
    BY BlobConstants
  <1>2. IsFiniteSet(CasKeys)
    <2>. DEFINE f == [p \in Types \X Shas |-> CasKey(p[1], p[2])]
    <2>1. IsFiniteSet(Types \X Shas)
      BY <1>1, FS_Product
    <2>2. f \in Surjection(Types \X Shas, CasKeys)
      <3>1. f \in [Types \X Shas -> CasKeys]
        BY KeysApart
      <3>2. ASSUME NEW k \in CasKeys PROVE \E p \in Types \X Shas : f[p] = k
        <4>1. PICK t \in Types, s \in Shas : k = CasKey(t, s)
          BY DEF CasKeys
        <4>2. <<t, s>> \in Types \X Shas /\ f[<<t, s>>] = k
          BY <4>1
        <4>. QED BY <4>2
      <3>. HIDE DEF f
      <3>. QED BY <3>1, <3>2 DEF Surjection
    <2>. HIDE DEF f
    <2>. QED BY <2>1, <2>2, FS_Surjection
  <1>3. IsFiniteSet(TenantKeys)
    <2>. DEFINE f == [p \in Users \X Shas |-> tenant_key(p[1], p[2])]
    <2>1. IsFiniteSet(Users \X Shas)
      BY <1>1, FS_Product
    <2>2. f \in Surjection(Users \X Shas, TenantKeys)
      <3>1. f \in [Users \X Shas -> TenantKeys]
        BY KeyOwners
      <3>2. ASSUME NEW k \in TenantKeys PROVE \E p \in Users \X Shas : f[p] = k
        <4>1. PICK o \in Users, s \in Shas : k = tenant_key(o, s)
          BY DEF TenantKeys
        <4>2. <<o, s>> \in Users \X Shas /\ f[<<o, s>>] = k
          BY <4>1
        <4>. QED BY <4>2
      <3>. HIDE DEF f
      <3>. QED BY <3>1, <3>2 DEF Surjection
    <2>. HIDE DEF f
    <2>. QED BY <2>1, <2>2, FS_Surjection
  <1>4. IsFiniteSet(CasKeys \cup TenantKeys) /\ Keys \ RetrievalKeys \subseteq CasKeys \cup TenantKeys
    BY <1>2, <1>3, FS_Union DEF Keys
  <1>. QED BY <1>4, FS_Subset

(* Of a finite set, what a limit lets through is all of it or the limit's   *)
(* number.                                                                  *)
LEMMA Limited ==
    ASSUME NEW V, IsFiniteSet(V), NEW limit \in Nat, NEW S \in SUBSET V,
           Cardinality(S) <= limit, Cardinality(S) < limit => S = V
    PROVE  IF Cardinality(V) > limit THEN Cardinality(S) = limit ELSE S = V
  <1>1. /\ IsFiniteSet(S) /\ Cardinality(S) <= Cardinality(V)
        /\ Cardinality(S) = Cardinality(V) => S = V
    BY FS_Subset
  <1>2. Cardinality(S) \in Nat /\ Cardinality(V) \in Nat
    BY <1>1, FS_CardinalityType
  <1>. QED BY <1>1, <1>2

(* What a listing answers. *)
LEMMA ListingSays ==
    ASSUME NEW site, NEW who, NEW limit \in Nat, NEW l \in ListBlobs(site, who, limit)
    PROVE  /\ l \in Listings /\ l.objects \subseteq Visible(site, who)
           /\ IF l.truncated THEN Cardinality(l.objects) = limit
              ELSE l.objects = Visible(site, who)
           /\ Cardinality(l.objects) <= limit
           /\ l.objects \cap RetrievalKeys = {}
  <1>. DEFINE V == Visible(site, who)
              t == Cardinality(V) > limit
  <1>1. V \subseteq Keys \ RetrievalKeys
    BY DEF Visible
  <1>2. IsFiniteSet(V)
    BY <1>1, KeysFinite, FS_Subset
  <1>3. PICK S \in SUBSET V :
          /\ Cardinality(S) <= limit /\ (Cardinality(S) < limit => S = V)
          /\ l = [objects |-> S, truncated |-> t]
    BY DEF ListBlobs
  <1>4. t \in BOOLEAN
    OBVIOUS
  <1>5. IF t THEN Cardinality(S) = limit ELSE S = V
    BY <1>2, <1>3, Limited
  <1>. HIDE DEF V, t
  <1>6. l.objects = S /\ l.truncated = t /\ S \in SUBSET Keys
    BY <1>1, <1>3
  <1>7. l \in Listings
    BY <1>3, <1>4, <1>6 DEF Listings
  <1>8. S \subseteq V
    BY <1>3
  <1>. QED BY <1>1, <1>3, <1>5, <1>6, <1>7, <1>8 DEF V

(* A forwarded read and the cache of its answers touch nothing stored. *)
ReadTypes ==
    /\ cache \in [Paths -> [got : Bodies, age : 0 .. Ttl - 1] \cup {None}]
    /\ fwd \in [pc : {"off", "idle", "asked", "answered"}, path : Paths \cup {None},
                got : Bodies \cup {None}]
    /\ ReadGood

LEMMA ReadStep ==
    ASSUME IInv, ReadTypes', UNCHANGED <<objects, rowVars, up, history>>
    PROVE  IInv'
  <1>1. UNCHANGED <<objects, blobs, tenants, up, touched, uploaded>>
    BY DEF rowVars, history
  <1>2. \A v \in Uploads : up'[v].req = up[v].req /\ KeyFor(v)' = KeyFor(v) /\ up'[v] = up[v]
    BY <1>1 DEF KeyFor
  <1>3. Keeps
    BY <1>1, <1>2 DEF Keeps, Present
  <1>4. ObjectsGood' /\ RowsGood' /\ \A v \in Uploads : UploadGood(v)'
    BY <1>1, <1>2, <1>3, RestKept, RowsKept DEF RowsGood
  <1>5. TypeOK' /\ ReadGood'
    BY <1>1 DEF IInv, TypeOK, ReadTypes
  <1>. QED BY <1>4, <1>5 DEF IInv

LEMMA ForwardSafe ==
    ASSUME IInv,
           (\E p \in Paths : ShadowForward(p)) \/ PeerAnswers \/ PeerUnreachable
    PROVE  IInv'
  <1>1. ReadTypes /\ UNCHANGED <<objects, rowVars, up, history, cache>>
    BY DEF IInv, TypeOK, ReadTypes, ShadowForward, PeerAnswers, PeerUnreachable
  <1>c. \A p \in Paths : cache'[p] # None =>
           ~LocalOnly(p) /\ (p \in ListPaths => PeerListing(p, cache'[p].got))
    BY <1>1 DEF ReadTypes, ReadGood
  <1>2. ASSUME NEW p \in Paths, ShadowForward(p) PROVE ReadTypes'
    <2>1. fwd' = [pc |-> "asked", path |-> p, got |-> None] /\ ~LocalOnly(p)
      BY <1>2 DEF ShadowForward
    <2>2. ReadGood'
      BY <1>c, <2>1 DEF ReadGood
    <2>. QED BY <1>1, <2>1, <2>2 DEF ReadTypes
  <1>3. ASSUME PeerAnswers PROVE ReadTypes'
    <2>. DEFINE p == fwd.path
    <2>1. p \in Paths /\ ~LocalOnly(p)
      BY <1>1, <1>3 DEF PeerAnswers, ReadTypes, ReadGood
    <2>2. PICK g \in Handle("primary", Root, p) :
            fwd' = [pc |-> "answered", path |-> p, got |-> g]
      BY <1>3 DEF PeerAnswers
    <2>3. CASE p \in ListPaths
      <3>1. g \in ListBlobs("primary", Root, p.limit) /\ p.limit \in Nat
        BY <2>2, <2>3, BlobConstants DEF Handle
      <3>2. g \in Listings /\ PeerListing(p, g)
        BY <3>1, ListingSays DEF PeerListing
      <3>. QED BY <2>1, <2>2, <2>3, <3>2, <1>1, <1>c DEF ReadTypes, ReadGood, Bodies
    <2>4. CASE p \notin ListPaths
      <3>1. p \in BlobPaths /\ p.key \in Keys
        BY <2>1, <2>4, BlobConstants DEF Paths
      <3>2. objects[<<"primary", p.key>>] \in Objects \cup {None}
        BY <3>1 DEF IInv, TypeOK, Sites
      <3>3. g \in Bodies \cup {None}
        BY <2>2, <2>4, <3>2 DEF Handle, ServeBlob, Objects, Bodies
      <3>. QED BY <2>1, <2>2, <2>4, <3>3, <1>1, <1>c DEF ReadTypes, ReadGood
    <2>. QED BY <2>3, <2>4
  <1>4. ASSUME PeerUnreachable PROVE ReadTypes'
    <2>1. fwd' = Quiet
      BY <1>4 DEF PeerUnreachable
    <2>. QED BY <1>1, <1>c, <2>1 DEF Quiet, ReadTypes, ReadGood
  <1>. QED BY <1>1, <1>2, <1>3, <1>4, ReadStep

LEMMA CacheSafe ==
    ASSUME IInv, Relay \/ Age
    PROVE  IInv'
  <1>. DEFINE Entries == [got : Bodies, age : 0 .. Ttl - 1]
  <1>1. ReadTypes /\ UNCHANGED <<objects, rowVars, up, history>>
    BY DEF IInv, TypeOK, ReadTypes, Relay, Age
  <1>2. Ttl \in Nat /\ Ttl > 0
    BY BlobConstants
  <1>t. cache \in [Paths -> Entries \cup {None}]
    BY <1>1 DEF ReadTypes
  <1>3. ASSUME Relay PROVE ReadTypes'
    <2>. DEFINE p == fwd.path
                e == [got |-> fwd.got, age |-> 0]
    <2>0. /\ fwd.pc = "answered" /\ p \in Paths /\ ~LocalOnly(p)
          /\ p \in ListPaths => PeerListing(p, fwd.got)
      BY <1>1, <1>3 DEF Relay, ReadTypes, ReadGood
    <2>1. fwd.got # None => e \in Entries /\ e.got = fwd.got
      BY <1>1, <1>2 DEF ReadTypes
    <2>2. cache' = IF fwd.got = None THEN cache ELSE [cache EXCEPT ![p] = e]
      BY <1>3 DEF Relay
    <2>3. fwd' = Quiet
      BY <1>3 DEF Relay
    <2>. HIDE DEF Entries, e
    <2>4. cache' \in [Paths -> Entries \cup {None}]
      BY <1>t, <2>1, <2>2
    <2>5. ASSUME NEW q \in Paths, cache'[q] # None
          PROVE  ~LocalOnly(q) /\ (q \in ListPaths => PeerListing(q, cache'[q].got))
      <3>1. CASE cache'[q] = cache[q]
        BY <1>1, <2>5, <3>1 DEF ReadTypes, ReadGood
      <3>2. CASE cache'[q] # cache[q]
        <4>1. q = p /\ fwd.got # None /\ cache'[q] = e
          BY <1>t, <2>2, <3>2
        <4>. QED BY <2>0, <2>1, <4>1
      <3>. QED BY <3>1, <3>2
    <2>. QED BY <2>3, <2>4, <2>5 DEF ReadTypes, ReadGood, Quiet, Entries
  <1>4. ASSUME Age PROVE ReadTypes'
    <2>1. ASSUME NEW p \in Paths, cache[p] # None, cache[p].age + 1 < Ttl
          PROVE  /\ [cache[p] EXCEPT !.age = @ + 1] \in Entries
                 /\ [cache[p] EXCEPT !.age = @ + 1].got = cache[p].got
      <3>1. cache[p] \in Entries
        BY <1>t, <2>1
      <3>2. cache[p].age + 1 \in 0 .. Ttl - 1
        BY <1>2, <2>1, <3>1
      <3>. QED BY <3>1, <3>2
    <2>2. \A p \in Paths : cache[p] # None => cache[p].age \in Int
      BY <1>t
    <2>. DEFINE n(p) == IF cache[p] = None \/ cache[p].age + 1 >= Ttl THEN None
                        ELSE [cache[p] EXCEPT !.age = @ + 1]
    <2>3. ASSUME NEW p \in Paths
          PROVE  /\ n(p) \in Entries \cup {None}
                 /\ n(p) # None => cache[p] # None /\ n(p).got = cache[p].got
      BY <1>2, <2>1, <2>2
    <2>4. cache' = [p \in Paths |-> n(p)] /\ fwd' = fwd
      BY <1>4 DEF Age
    <2>. HIDE DEF Entries, n
    <2>5. cache' \in [Paths -> Entries \cup {None}] /\ \A p \in Paths : cache'[p] = n(p)
      BY <2>3, <2>4
    <2>6. \A p \in Paths : cache'[p] # None =>
             ~LocalOnly(p) /\ (p \in ListPaths => PeerListing(p, cache'[p].got))
      <3>1. \A p \in Paths : cache'[p] # None => cache[p] # None /\ cache'[p].got = cache[p].got
        BY <2>3, <2>5
      <3>. QED BY <1>1, <3>1 DEF ReadTypes, ReadGood, PeerListing
    <2>. QED BY <1>1, <2>4, <2>5, <2>6 DEF ReadTypes, ReadGood, Entries
  <1>. QED BY <1>1, <1>3, <1>4, ReadStep
-----------------------------------------------------------------------------
(* The theorems *)

LEMMA InitSafe == Init => IInv
  <1>. SUFFICES ASSUME Init PROVE IInv
    OBVIOUS
  <1>1. TypeOK
    <2>1. up \in [Uploads -> [pc : Places, req : Requests, answer : Answers]]
      <3>1. up \in [Uploads -> [pc : {"start", "done"}, req : Requests, answer : {"none", "error"}]]
        BY DEF Init
      <3>. QED BY <3>1 DEF Places, Answers
    <2>2. cache \in [Paths -> [got : Bodies, age : 0 .. Ttl - 1] \cup {None}]
      BY DEF Init
    <2>3. /\ objects \in [Sites \X Keys -> Objects \cup {None}]
          /\ blobs \in [Sites \X Shas -> Rows \cup {None}]
          /\ tenants \in [Sites \X Users \X Shas -> Rows \cup {None}]
      BY DEF Init
    <2>4. fwd \in {Quiet, Off}
      BY DEF Init
    <2>. QED BY <2>1, <2>2, <2>3, <2>4 DEF TypeOK, Init, Quiet, Off
  <1>2. /\ \A x \in Sites \X Keys : objects[x] = None
        /\ \A x \in Sites \X Shas : blobs[x] = None
        /\ \A x \in Sites \X Users \X Shas : tenants[x] = None
    BY DEF Init
  <1>3. ObjectsGood
    BY <1>2, KeysApart DEF ObjectsGood, GoodAt
  <1>4. RowsGood
    BY <1>2 DEF RowsGood, SharedRow, PrivateRow
  <1>5. \A u \in Uploads : UploadGood(u)
    <2>1. \A u \in Uploads : \/ up[u].pc = "start" /\ up[u].answer = "none"
                             \/ up[u].pc = "done" /\ up[u].answer = "error"
      BY DEF Init
    <2>. QED BY <2>1 DEF UploadGood
  <1>6. ReadGood
    <2>1. fwd \in {Quiet, Off} /\ \A p \in Paths : cache[p] = None
      BY DEF Init
    <2>. QED BY <2>1 DEF Quiet, Off, ReadGood
  <1>. QED BY <1>1, <1>3, <1>4, <1>5, <1>6 DEF IInv

LEMMA NextSafe == IInv /\ [Next]_vars => IInv'
  <1>. SUFFICES ASSUME IInv, [Next]_vars PROVE IInv'
    OBVIOUS
  <1>1. ASSUME NEW u \in Uploads, Step(u) \/ Abandon(u) PROVE IInv'
    BY <1>1, LookupSafe, PutSafe, OpenRunSafe, InsertSharedSafe, InsertPrivateSafe, AbandonSafe
       DEF Step
  <1>2. ASSUME NEW site \in Sites, NEW x \in Runs, Materialize(site, x) PROVE IInv'
    BY <1>2, MaterializeSafe
  <1>3. ASSUME NEW site \in Sites, NEW k \in Keys, PutBlob(site, k) \/ DeleteBlob(site, k)
        PROVE  IInv'
    BY <1>3, WritesSafe
  <1>4. CASE (\E p \in Paths : ShadowForward(p)) \/ PeerAnswers \/ PeerUnreachable
    BY <1>4, ForwardSafe
  <1>5. CASE Relay \/ Age
    BY <1>5, CacheSafe
  <1>6. CASE UNCHANGED vars
    <2>1. UNCHANGED <<objects, blobs, tenants, up, cache, fwd, touched, uploaded>>
      BY <1>6 DEF vars
    <2>2. ReadTypes'
      BY <2>1 DEF IInv, TypeOK, ReadTypes, ReadGood
    <2>. QED BY <2>1, <2>2, ReadStep DEF rowVars, history
  <1>. QED BY <1>1, <1>2, <1>3, <1>4, <1>5, <1>6 DEF Next

LEMMA IInvHolds == Spec => []IInv
  <1>. QED BY InitSafe, NextSafe, PTL DEF Spec

(* Rows name bytes that are there, under a type that was declared. *)
LEMMA StoreFollows == IInv => StoreInv
  <1>. SUFFICES ASSUME IInv PROVE StoreInv
    OBVIOUS
  <1>1. ASSUME NEW site \in Sites, NEW s \in Shas, blobs[<<site, s>>] # None,
               <<site, blobs[<<site, s>>].key>> \notin touched
        PROVE  LET row == blobs[<<site, s>>]
                   o == objects[<<site, row.key>>]
               IN  /\ o # None /\ o.bytes = s
                   /\ Declared(site, row.key, ContentType(site, row.key))
    <2>. DEFINE row == blobs[<<site, s>>]
                o == objects[<<site, row.key>>]
    <2>1. /\ row.key \in CasKeys /\ row.key[3] = s
          /\ Present(site, row.key) /\ Declared(site, row.key, row.type)
      BY <1>1 DEF IInv, RowsGood, SharedRow
    <2>2. o # None /\ GoodAt(site, row.key, o)
      BY <1>1, <2>1 DEF Present, IInv, ObjectsGood, HashKeys
    <2>3. o.bytes = s /\ (o.type # None => Declared(site, row.key, o.type))
      BY <2>1, <2>2 DEF GoodAt
    <2>4. ContentType(site, row.key) = IF o.type # None THEN o.type ELSE row.type
      BY <1>1, <2>1 DEF ContentType
    <2>. QED BY <2>1, <2>2, <2>3, <2>4
  <1>2. ASSUME NEW site \in Sites, NEW o \in Users, NEW s \in Shas,
               tenants[<<site, o, s>>] # None,
               <<site, tenants[<<site, o, s>>].key>> \notin touched
        PROVE  FetchOwn(site, o, s) = s
    <2>. DEFINE row == tenants[<<site, o, s>>]
                b == objects[<<site, row.key>>]
    <2>1. row.key = tenant_key(o, s) /\ Present(site, row.key)
      BY <1>2 DEF IInv, RowsGood, PrivateRow
    <2>2. row.key \in HashKeys /\ row.key[3] = s
      BY <2>1, KeysApart DEF HashKeys
    <2>3. b # None /\ b.bytes = s
      BY <1>2, <2>1, <2>2 DEF Present, IInv, ObjectsGood, GoodAt
    <2>. QED BY <1>2, <2>3 DEF FetchOwn
  <1>3. RowsHaveBytes
    BY <1>1, <1>2 DEF RowsHaveBytes
  <1>4. TypeSurvives
    BY <1>1 DEF TypeSurvives, Declared
  <1>. QED BY <1>3, <1>4 DEF IInv, StoreInv

(* Rows name keys that hold the bytes of their hash under a type some upload *)
(* declared, whatever uploads raced, failed or were dropped (ingest_blob     *)
(* puts the object before its row).                                          *)
THEOREM StoreSafe == Spec => []StoreInv
  <1>. QED BY IInvHolds, StoreFollows, PTL

(* A caller is told that a private blob exists only after an upload of its   *)
(* own (me_blobs looks rows up by owner and hash).                           *)
THEOREM DedupSafe == Spec => []DedupWithinTenant
  <1>1. IInv => DedupWithinTenant
    BY DEF IInv, UploadGood, RowsGood, PrivateRow, DedupWithinTenant
  <1>. QED BY <1>1, IInvHolds, PTL

(* serve_blob, list_blobs and shadow_forward: somebody else's private key   *)
(* is a 404 on the primary, and on the shadow when it is written plainly,   *)
(* where no answer for it is ever cached; a retrieval result is readable at *)
(* the site that has it; and a listing is exact on the primary and, through *)
(* the shadow's cache, still within its limit and without results.          *)
THEOREM ReadsSafe == Spec => []ReadInv
  <1>. DEFINE Reads == TypeOK /\ ReadGood
  <1>p. ASSUME NEW p \in BlobPaths
        PROVE  p \in Paths /\ p \notin ListPaths /\ p.key \in Keys /\ p.plain \in BOOLEAN
    BY <1>p, BlobConstants DEF Paths
  <1>1. ASSUME Reads PROVE TenantPrivate
    <2>. SUFFICES ASSUME NEW p \in BlobPaths, p.key \in TenantKeys
                  PROVE  /\ p.plain => fwd.path # p /\ cache[p] = None
                         /\ \A who \in Users \ {p.key[2]} :
                              /\ Get("primary", who, p) = {None}
                              /\ p.plain => Get("shadow", who, p) = {None}
      BY DEF TenantPrivate
    <2>1. p \in Paths /\ p \notin ListPaths
      BY <1>p
    <2>2. p.plain => LocalOnly(p)
      BY DEF LocalOnly
    <2>3. p.plain => fwd.path # p /\ cache[p] = None
      BY <1>1, <2>1, <2>2, BlobConstants DEF ReadGood
    <2>4. ASSUME NEW who \in Users \ {p.key[2]}, NEW site \in Sites
          PROVE  Handle(site, who, p) = {None}
      BY <2>1, <2>4, BlobConstants DEF Handle, ServeBlob, may_read_tenant
    <2>. QED BY <2>2, <2>3, <2>4 DEF Get, Sites
  <1>2. RetrievalReadable
    <2>. SUFFICES ASSUME NEW site \in Sites, NEW who \in Callers, NEW p \in BlobPaths,
                         p.plain, p.key \in RetrievalKeys, objects[site, p.key] # None
                  PROVE  Get(site, who, p) = {objects[site, p.key].bytes}
      BY DEF RetrievalReadable
    <2>1. p \notin ListPaths /\ LocalOnly(p) /\ p.key \notin TenantKeys
      BY <1>p, KeysApart DEF LocalOnly, HashKeys
    <2>. QED BY <2>1 DEF Get, Handle, ServeBlob
  <1>3. ASSUME Reads PROVE ListingExact
    <2>. SUFFICES ASSUME NEW who \in Callers, NEW p \in ListPaths
                  PROVE  /\ \A l \in Get("primary", who, p) :
                              /\ l.objects \subseteq Visible("primary", who)
                              /\ IF l.truncated THEN Cardinality(l.objects) = p.limit
                                 ELSE l.objects = Visible("primary", who)
                         /\ \A l \in Get("shadow", who, p) \ {Forwarded} : PeerListing(p, l)
      BY DEF ListingExact, PeerListing
    <2>1. p \in Paths /\ p \notin BlobPaths /\ p.limit \in Nat
      BY BlobConstants DEF Paths
    <2>2. Get("primary", who, p) = ListBlobs("primary", who, p.limit)
      BY DEF Get, Handle
    <2>3. \/ Get("shadow", who, p) = {IF cache[p] = None THEN Forwarded ELSE cache[p].got}
          \/ Get("shadow", who, p) = ListBlobs("shadow", who, p.limit)
      BY <2>1 DEF Get, Handle, LocalOnly
    <2>4. cache[p] # None => PeerListing(p, cache[p].got)
      BY <1>3, <2>1 DEF ReadGood
    <2>5. \A l \in Get("shadow", who, p) \ {Forwarded} : PeerListing(p, l)
      BY <2>1, <2>3, <2>4, ListingSays DEF PeerListing
    <2>. QED BY <2>1, <2>2, <2>5, ListingSays
  <1>4. IInv => ReadInv
    BY <1>1, <1>2, <1>3 DEF IInv, ReadInv
  <1>. QED BY <1>4, IInvHolds, PTL
=============================================================================
