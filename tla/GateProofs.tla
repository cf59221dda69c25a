----------------------------- MODULE GateProofs -----------------------------
(***************************************************************************)
(* The in-flight counters are exact and the limits hold for any number of  *)
(* requests, keys and addresses, whatever the order of increments, looks   *)
(* and decrements.                                                         *)
(***************************************************************************)
EXTENDS Gate, FiniteSetTheorems, TLAPS

ReqType == [pc : Pcs, via : {"gate", "ws"}, hdr : AllHeaders,
            ident : Tokens \cup {None}, answer : Answers, win : Windows]

(* An identity is one somebody vouched for, so that a key is never the     *)
(* bucket of an address; only a token of lum.id is asked about.            *)
Vouched ==
    \A r \in Reqs : /\ req[r].ident \in Pats \cup LocalKeys \cup {None}
                    /\ req[r].pc \in {"asking", "answered"} => TokenOf(r) \in Pats

(* The requests at one of these places that hold a slot of k, or of i. *)
KeyHold(S, k) == {r \in Reqs : req[r].pc \in S /\ KeyOf(r) = k}
AddrHold(S, i) == {r \in Reqs : req[r].pc \in S /\ req[r].hdr.ip = i}

(* Those whose increment found room: the served ones and those on their    *)
(* way out.  Unlike the served ones alone, they are bounded at every step. *)
KeyGranted == KeyHeld \ {"undoKey"}
AddrGranted == AddrHeld \ {"undoIp"}

KeyBooks ==
    \A k \in Keys : /\ inflight[k] = Cardinality(KeyHold(KeyHeld, k))
                   /\ Cardinality(KeyHold(KeyGranted, k)) <= PerKey
AddrBooks ==
    \A i \in Ips : /\ inflight[AddrBucket(i)] = Cardinality(AddrHold(AddrHeld, i))
                  /\ Cardinality(AddrHold(AddrGranted, i)) <= PerIp

IInv == TypeOK /\ Vouched /\ KeyBooks /\ AddrBooks

(***************************************************************************)
(* What a request holds.                                                   *)
(***************************************************************************)

(* The holders counted by the properties are the holders of this module. *)
LEMMA Holders ==
    /\ \A k : HoldersOfKey(k) = KeyHold(KeyHeld, k)
    /\ \A i : HoldersOfAddr(i) = AddrHold(AddrHeld, i)
  BY DEF HoldersOfKey, HoldersOfAddr, KeyHold, AddrHold

(* They are finitely many. *)
LEMMA HoldFinite ==
    ASSUME NEW S
    PROVE  /\ \A k : IsFiniteSet(KeyHold(S, k)) /\ Cardinality(KeyHold(S, k)) \in Nat
           /\ \A i : IsFiniteSet(AddrHold(S, i)) /\ Cardinality(AddrHold(S, i)) \in Nat
  <1>1. \A T \in SUBSET Reqs : IsFiniteSet(T) /\ Cardinality(T) \in Nat
    BY GateConstants, FS_Subset, FS_CardinalityType
  <1>2. \A k : KeyHold(S, k) \in SUBSET Reqs
    BY DEF KeyHold
  <1>3. \A i : AddrHold(S, i) \in SUBSET Reqs
    BY DEF AddrHold
  <1>. QED BY <1>1, <1>2, <1>3

(* The key of a request is a key, its address an address. *)
LEMMA KeyIsKey ==
    ASSUME TypeOK, Vouched, NEW r \in Reqs
    PROVE  /\ KeyOf(r) \in Keys /\ KeyOf(r) \in Buckets
           /\ req[r].hdr.ip \in Ips /\ AddrOf(r) \in Buckets
           /\ \A i \in Ips : AddrBucket(i) # KeyOf(r)
  <1>1. req[r].hdr \in AllHeaders
    BY DEF TypeOK
  <1>2. req[r].hdr.ip \in Ips
    BY <1>1, GateConstants DEF AllHeaders
  <1>3. KeyOf(r) \in Keys
    BY <1>2 DEF KeyOf, Vouched, Keys
  <1>. QED BY <1>2, <1>3, GateConstants DEF Buckets, AddrOf

(* Only r moves. *)
Alone(r) == \A q \in Reqs : q # r => req'[q] = req[q]

(* A request that stays inside, or outside, leaves the holders alone. *)
LEMMA KeyStay ==
    ASSUME NEW S, NEW r \in Reqs, Alone(r),
           req[r].pc \in S <=> req'[r].pc \in S,
           req[r].pc \in S => KeyOf(r)' = KeyOf(r)
    PROVE  \A k : KeyHold(S, k)' = KeyHold(S, k)
  <1>1. \A q \in Reqs : q # r => req'[q] = req[q] /\ KeyOf(q)' = KeyOf(q)
    BY DEF Alone, KeyOf
  <1>. QED BY <1>1 DEF KeyHold

LEMMA AddrStay ==
    ASSUME NEW S, NEW r \in Reqs, Alone(r),
           req[r].pc \in S <=> req'[r].pc \in S,
           req[r].pc \in S => req'[r].hdr.ip = req[r].hdr.ip
    PROVE  \A i : AddrHold(S, i)' = AddrHold(S, i)
  BY DEF Alone, AddrHold

(* A request that comes in is one more holder of its key, or address. *)
LEMMA KeyEnter ==
    ASSUME NEW S, NEW r \in Reqs, Alone(r), req[r].pc \notin S, req'[r].pc \in S,
           NEW k, k = KeyOf(r)'
    PROVE  /\ \A j : j # k => KeyHold(S, j)' = KeyHold(S, j)
           /\ Cardinality(KeyHold(S, k)') = Cardinality(KeyHold(S, k)) + 1
  <1>1. \A q \in Reqs : q # r => req'[q] = req[q] /\ KeyOf(q)' = KeyOf(q)
    BY DEF Alone, KeyOf
  <1>2. \A j : j # k => KeyHold(S, j)' = KeyHold(S, j)
    BY <1>1 DEF KeyHold
  <1>3. KeyHold(S, k)' = KeyHold(S, k) \cup {r} /\ r \notin KeyHold(S, k)
    BY <1>1 DEF KeyHold
  <1>. QED BY <1>2, <1>3, HoldFinite, FS_AddElement

LEMMA AddrEnter ==
    ASSUME NEW S, NEW r \in Reqs, Alone(r), req[r].pc \notin S, req'[r].pc \in S,
           NEW ip, ip = req'[r].hdr.ip
    PROVE  /\ \A i : i # ip => AddrHold(S, i)' = AddrHold(S, i)
           /\ Cardinality(AddrHold(S, ip)') = Cardinality(AddrHold(S, ip)) + 1
  <1>1. \A i : i # ip => AddrHold(S, i)' = AddrHold(S, i)
    BY DEF Alone, AddrHold
  <1>2. AddrHold(S, ip)' = AddrHold(S, ip) \cup {r} /\ r \notin AddrHold(S, ip)
    BY DEF Alone, AddrHold
  <1>. QED BY <1>1, <1>2, HoldFinite, FS_AddElement

(* A request that leaves is one less. *)
LEMMA KeyLeave ==
    ASSUME NEW S, NEW r \in Reqs, Alone(r), req[r].pc \in S, req'[r].pc \notin S,
           NEW k, k = KeyOf(r)
    PROVE  /\ \A j : j # k => KeyHold(S, j)' = KeyHold(S, j)
           /\ Cardinality(KeyHold(S, k)) > 0
           /\ Cardinality(KeyHold(S, k)') = Cardinality(KeyHold(S, k)) - 1
  <1>1. \A q \in Reqs : q # r => req'[q] = req[q] /\ KeyOf(q)' = KeyOf(q)
    BY DEF Alone, KeyOf
  <1>2. \A j : j # k => KeyHold(S, j)' = KeyHold(S, j)
    BY <1>1 DEF KeyHold
  <1>3. KeyHold(S, k)' = KeyHold(S, k) \ {r} /\ r \in KeyHold(S, k)
    BY <1>1 DEF KeyHold
  <1>4. Cardinality(KeyHold(S, k)) # 0
    BY <1>3, HoldFinite, FS_EmptySet
  <1>. QED BY <1>2, <1>3, <1>4, HoldFinite, FS_RemoveElement

LEMMA AddrLeave ==
    ASSUME NEW S, NEW r \in Reqs, Alone(r), req[r].pc \in S, req'[r].pc \notin S,
           NEW ip, ip = req[r].hdr.ip
    PROVE  /\ \A i : i # ip => AddrHold(S, i)' = AddrHold(S, i)
           /\ Cardinality(AddrHold(S, ip)) > 0
           /\ Cardinality(AddrHold(S, ip)') = Cardinality(AddrHold(S, ip)) - 1
  <1>1. \A i : i # ip => AddrHold(S, i)' = AddrHold(S, i)
    BY DEF Alone, AddrHold
  <1>2. AddrHold(S, ip)' = AddrHold(S, ip) \ {r} /\ r \in AddrHold(S, ip)
    BY DEF Alone, AddrHold
  <1>3. Cardinality(AddrHold(S, ip)) # 0
    BY <1>2, HoldFinite, FS_EmptySet
  <1>. QED BY <1>1, <1>2, <1>3, HoldFinite, FS_RemoveElement

(***************************************************************************)
(* Types.                                                                  *)
(***************************************************************************)
Typed(r) == req' \in [Reqs -> ReqType] /\ Vouched' /\ Alone(r)

LEMMA IdleType ==
    ASSUME NEW r \in Reqs
    PROVE  Idle \in ReqType /\ Idle.pc = "idle" /\ Idle.ident = None
  <1>1. AllHeaders # {}
    BY GateConstants DEF AllHeaders
  <1>2. 0 \in Windows
    BY GateConstants DEF Windows
  <1>. QED BY <1>1, <1>2 DEF Idle, ReqType, Pcs, Answers

(* A step that moves r and leaves it with an identity somebody vouched for. *)
LEMMA VouchedStep ==
    ASSUME Vouched, NEW r \in Reqs, Alone(r),
           req'[r].ident \in Pats \cup LocalKeys \cup {None},
           req'[r].pc \in {"asking", "answered"} => TokenOf(r)' \in Pats
    PROVE  Vouched'
  <1>1. \A q \in Reqs : q # r => req'[q] = req[q] /\ TokenOf(q)' = TokenOf(q)
    BY DEF Alone, TokenOf
  <1>. QED BY <1>1 DEF Vouched

LEMMA GotoStep ==
    ASSUME TypeOK, Vouched, NEW r \in Reqs, NEW p \in Pcs, Goto(r, p),
           p \in {"asking", "answered"} => TokenOf(r) \in Pats
    PROVE  /\ Typed(r) /\ req'[r].pc = p
           /\ KeyOf(r)' = KeyOf(r) /\ req'[r].hdr = req[r].hdr
  <1>1. req \in [Reqs -> ReqType]
    BY DEF TypeOK, ReqType
  <1>2. req' = [req EXCEPT ![r] = [req[r] EXCEPT !.pc = p]]
    BY DEF Goto
  <1>3. [req[r] EXCEPT !.pc = p] \in ReqType
    BY <1>1 DEF ReqType
  <1>4. req' \in [Reqs -> ReqType] /\ Alone(r) /\ req'[r] = [req[r] EXCEPT !.pc = p]
    BY <1>1, <1>2, <1>3 DEF Alone
  <1>5. req'[r].pc = p /\ req'[r].hdr = req[r].hdr /\ req'[r].ident = req[r].ident
        /\ req'[r].via = req[r].via
    BY <1>1, <1>4 DEF ReqType
  <1>6. KeyOf(r)' = KeyOf(r) /\ TokenOf(r)' = TokenOf(r)
    BY <1>5 DEF KeyOf, TokenOf
  <1>7. Vouched'
    BY <1>4, <1>5, <1>6, VouchedStep DEF Vouched
  <1>. QED BY <1>4, <1>5, <1>6, <1>7 DEF Typed

LEMMA RefuseStep ==
    ASSUME TypeOK, Vouched, NEW r \in Reqs, Refuse(r)
    PROVE  Typed(r) /\ req'[r].pc = "idle"
  <1>1. req \in [Reqs -> ReqType]
    BY DEF TypeOK, ReqType
  <1>2. req' \in [Reqs -> ReqType] /\ Alone(r) /\ req'[r] = Idle
    BY <1>1, IdleType DEF Refuse, Alone
  <1>3. Vouched'
    BY <1>2, IdleType, VouchedStep
  <1>. QED BY <1>2, <1>3, IdleType DEF Typed

LEMMA ResolvedStep ==
    ASSUME TypeOK, Vouched, NEW r \in Reqs, NEW who \in Pats \cup LocalKeys \cup {None},
           Resolved(r, who)
    PROVE  Typed(r) /\ req'[r].pc \in {"idle", "ws", "rate"}
  <1>1. req \in [Reqs -> ReqType]
    BY DEF TypeOK, ReqType
  <1>. DEFINE next == [req[r] EXCEPT !.pc = IF req[r].via = "ws" THEN "ws" ELSE "rate",
                                     !.ident = who, !.answer = Idle.answer]
  <1>2. Idle.answer \in Answers /\ who \in Tokens \cup {None}
    BY DEF Idle, Answers, Tokens
  <1>3. next \in ReqType /\ next.pc \in {"ws", "rate"} /\ next.ident = who
    BY <1>1, <1>2 DEF ReqType, Pcs
  <1>4. req'[r] \in {Idle, next} /\ Alone(r) /\ req' \in [Reqs -> ReqType]
    BY <1>1, <1>3, IdleType DEF Resolved, Alone
  <1>5. req'[r].pc \in {"idle", "ws", "rate"}
        /\ req'[r].ident \in Pats \cup LocalKeys \cup {None}
    BY <1>3, <1>4, IdleType
  <1>6. Vouched'
    BY <1>4, <1>5, VouchedStep
  <1>. QED BY <1>4, <1>5, <1>6 DEF Typed

(***************************************************************************)
(* The books.                                                              *)
(***************************************************************************)
Outside == Pcs \ (KeyHeld \cup AddrHeld)

(* Requests granted a slot are among those that hold one. *)
LEMMA GrantedHold ==
    /\ \A k : Cardinality(KeyHold(KeyGranted, k)) <= Cardinality(KeyHold(KeyHeld, k))
    /\ \A i : Cardinality(AddrHold(AddrGranted, i)) <= Cardinality(AddrHold(AddrHeld, i))
  <1>1. \A k : KeyHold(KeyGranted, k) \subseteq KeyHold(KeyHeld, k)
    BY DEF KeyHold, KeyGranted
  <1>2. \A i : AddrHold(AddrGranted, i) \subseteq AddrHold(AddrHeld, i)
    BY DEF AddrHold, AddrGranted
  <1>. QED BY <1>1, <1>2, HoldFinite, FS_Subset

(* A request that keeps its place, but for losing what it was granted,     *)
(* leaves the books right, ...                                             *)
LEMMA KeyBooksStay ==
    ASSUME KeyBooks, NEW r \in Reqs, Alone(r), \A k \in Keys : inflight'[k] = inflight[k],
           req[r].pc \in KeyHeld <=> req'[r].pc \in KeyHeld,
           req'[r].pc \in KeyGranted => req[r].pc \in KeyGranted,
           req[r].pc \in KeyHeld => KeyOf(r)' = KeyOf(r)
    PROVE  KeyBooks'
  <1>1. \A k : KeyHold(KeyHeld, k)' = KeyHold(KeyHeld, k)
    BY KeyStay
  <1>2. \A k : KeyHold(KeyGranted, k)' \subseteq KeyHold(KeyGranted, k)
    BY DEF KeyHold, KeyGranted, Alone, KeyOf
  <1>3. \A k : Cardinality(KeyHold(KeyGranted, k)') <= Cardinality(KeyHold(KeyGranted, k))
               /\ Cardinality(KeyHold(KeyGranted, k)') \in Nat
               /\ Cardinality(KeyHold(KeyGranted, k)) \in Nat
    BY <1>2, HoldFinite, FS_Subset, FS_CardinalityType
  <1>. QED BY <1>1, <1>3, GateConstants DEF KeyBooks

LEMMA AddrBooksStay ==
    ASSUME AddrBooks, NEW r \in Reqs, Alone(r),
           \A i \in Ips : inflight'[AddrBucket(i)] = inflight[AddrBucket(i)],
           req[r].pc \in AddrHeld <=> req'[r].pc \in AddrHeld,
           req[r].pc \in AddrGranted <=> req'[r].pc \in AddrGranted,
           req[r].pc \in AddrHeld => req'[r].hdr = req[r].hdr
    PROVE  AddrBooks'
  <1>1. \A i : AddrHold(AddrHeld, i)' = AddrHold(AddrHeld, i)
    BY AddrStay
  <1>2. \A i : AddrHold(AddrGranted, i)' = AddrHold(AddrGranted, i)
    BY AddrStay DEF AddrGranted
  <1>. QED BY <1>1, <1>2 DEF AddrBooks

(* ... one that takes a slot is granted it only below the limit, ... *)
LEMMA KeyBooksTake ==
    ASSUME KeyBooks, NEW r \in Reqs, Alone(r), NEW k \in Keys, k = KeyOf(r)',
           inflight'[k] = inflight[k] + 1, \A j \in Keys : j # k => inflight'[j] = inflight[j],
           req[r].pc \notin KeyHeld, req'[r].pc \in KeyHeld,
           req'[r].pc \in KeyGranted => inflight[k] < PerKey
    PROVE  KeyBooks'
  <1>1. /\ \A j : j # k => KeyHold(KeyHeld, j)' = KeyHold(KeyHeld, j)
        /\ Cardinality(KeyHold(KeyHeld, k)') = Cardinality(KeyHold(KeyHeld, k)) + 1
    BY KeyEnter
  <1>2. CASE req'[r].pc \in KeyGranted
    <2>1. /\ \A j : j # k => KeyHold(KeyGranted, j)' = KeyHold(KeyGranted, j)
          /\ Cardinality(KeyHold(KeyGranted, k)') = Cardinality(KeyHold(KeyGranted, k)) + 1
      BY <1>2, KeyEnter DEF KeyGranted
    <2>2. Cardinality(KeyHold(KeyGranted, k)) < PerKey
      BY <1>2, GrantedHold, HoldFinite, GateConstants DEF KeyBooks
    <2>3. Cardinality(KeyHold(KeyGranted, k)') <= PerKey
      BY <2>1, <2>2, HoldFinite, GateConstants
    <2>. QED BY <1>1, <2>1, <2>3 DEF KeyBooks
  <1>3. CASE req'[r].pc \notin KeyGranted
    <2>1. \A j : KeyHold(KeyGranted, j)' = KeyHold(KeyGranted, j)
      BY <1>3, KeyStay DEF KeyGranted
    <2>. QED BY <1>1, <2>1 DEF KeyBooks
  <1>. QED BY <1>2, <1>3

LEMMA AddrBooksTake ==
    ASSUME AddrBooks, NEW r \in Reqs, Alone(r), NEW k \in Ips, k = req'[r].hdr.ip,
           inflight'[AddrBucket(k)] = inflight[AddrBucket(k)] + 1,
           \A j \in Ips : j # k => inflight'[AddrBucket(j)] = inflight[AddrBucket(j)],
           req[r].pc \notin AddrHeld, req'[r].pc \in AddrHeld,
           req'[r].pc \in AddrGranted => inflight[AddrBucket(k)] < PerIp
    PROVE  AddrBooks'
  <1>1. /\ \A j : j # k => AddrHold(AddrHeld, j)' = AddrHold(AddrHeld, j)
        /\ Cardinality(AddrHold(AddrHeld, k)') = Cardinality(AddrHold(AddrHeld, k)) + 1
    BY AddrEnter
  <1>2. CASE req'[r].pc \in AddrGranted
    <2>1. /\ \A j : j # k => AddrHold(AddrGranted, j)' = AddrHold(AddrGranted, j)
          /\ Cardinality(AddrHold(AddrGranted, k)') = Cardinality(AddrHold(AddrGranted, k)) + 1
      BY <1>2, AddrEnter DEF AddrGranted
    <2>2. Cardinality(AddrHold(AddrGranted, k)) < PerIp
      BY <1>2, GrantedHold, HoldFinite, GateConstants DEF AddrBooks
    <2>3. Cardinality(AddrHold(AddrGranted, k)') <= PerIp
      BY <2>1, <2>2, HoldFinite, GateConstants
    <2>. QED BY <1>1, <2>1, <2>3 DEF AddrBooks
  <1>3. CASE req'[r].pc \notin AddrGranted
    <2>1. \A j : AddrHold(AddrGranted, j)' = AddrHold(AddrGranted, j)
      BY <1>3, AddrStay DEF AddrGranted
    <2>. QED BY <1>1, <2>1 DEF AddrBooks
  <1>. QED BY <1>2, <1>3

(* ... and one that gives it back had one to give. *)
LEMMA KeyBooksGive ==
    ASSUME KeyBooks, NEW r \in Reqs, Alone(r), NEW k \in Keys, k = KeyOf(r),
           inflight'[k] = inflight[k] - 1, \A j \in Keys : j # k => inflight'[j] = inflight[j],
           req[r].pc \in KeyHeld, req'[r].pc \notin KeyHeld
    PROVE  KeyBooks' /\ inflight[k] > 0
  <1>1. /\ \A j : j # k => KeyHold(KeyHeld, j)' = KeyHold(KeyHeld, j)
        /\ Cardinality(KeyHold(KeyHeld, k)) > 0
        /\ Cardinality(KeyHold(KeyHeld, k)') = Cardinality(KeyHold(KeyHeld, k)) - 1
    BY KeyLeave
  <1>2. \A j \in Keys : Cardinality(KeyHold(KeyGranted, j)') <= PerKey
    <2>1. CASE req[r].pc \in KeyGranted
      <3>1. /\ \A j : j # k => KeyHold(KeyGranted, j)' = KeyHold(KeyGranted, j)
            /\ Cardinality(KeyHold(KeyGranted, k)') = Cardinality(KeyHold(KeyGranted, k)) - 1
        BY <2>1, KeyLeave DEF KeyGranted
      <3>. QED BY <3>1, HoldFinite, GateConstants DEF KeyBooks
    <2>2. CASE req[r].pc \notin KeyGranted
      <3>1. \A j : KeyHold(KeyGranted, j)' = KeyHold(KeyGranted, j)
        BY <2>2, KeyStay DEF KeyGranted
      <3>. QED BY <3>1 DEF KeyBooks
    <2>. QED BY <2>1, <2>2
  <1>. QED BY <1>1, <1>2 DEF KeyBooks

LEMMA AddrBooksGive ==
    ASSUME AddrBooks, NEW r \in Reqs, Alone(r), NEW k \in Ips, k = req[r].hdr.ip,
           inflight'[AddrBucket(k)] = inflight[AddrBucket(k)] - 1,
           \A j \in Ips : j # k => inflight'[AddrBucket(j)] = inflight[AddrBucket(j)],
           req[r].pc \in AddrHeld, req'[r].pc \notin AddrHeld
    PROVE  AddrBooks' /\ inflight[AddrBucket(k)] > 0
  <1>1. /\ \A j : j # k => AddrHold(AddrHeld, j)' = AddrHold(AddrHeld, j)
        /\ Cardinality(AddrHold(AddrHeld, k)) > 0
        /\ Cardinality(AddrHold(AddrHeld, k)') = Cardinality(AddrHold(AddrHeld, k)) - 1
    BY AddrLeave
  <1>2. \A j \in Ips : Cardinality(AddrHold(AddrGranted, j)') <= PerIp
    <2>1. CASE req[r].pc \in AddrGranted
      <3>1. /\ \A j : j # k => AddrHold(AddrGranted, j)' = AddrHold(AddrGranted, j)
            /\ Cardinality(AddrHold(AddrGranted, k)') = Cardinality(AddrHold(AddrGranted, k)) - 1
        BY <2>1, AddrLeave DEF AddrGranted
      <3>. QED BY <3>1, HoldFinite, GateConstants DEF AddrBooks
    <2>2. CASE req[r].pc \notin AddrGranted
      <3>1. \A j : AddrHold(AddrGranted, j)' = AddrHold(AddrGranted, j)
        BY <2>2, AddrStay DEF AddrGranted
      <3>. QED BY <3>1 DEF AddrBooks
    <2>. QED BY <2>1, <2>2
  <1>. QED BY <1>1, <1>2 DEF AddrBooks

(***************************************************************************)
(* The steps.                                                              *)
(***************************************************************************)
(* A step outside the limits leaves both books alone. *)
LEMMA OutsideBooks ==
    ASSUME KeyBooks, AddrBooks, NEW r \in Reqs, Alone(r), inflight' = inflight,
           req[r].pc \in Outside, req'[r].pc \in Outside
    PROVE  KeyBooks' /\ AddrBooks'
  <1>1. \A S \in {KeyHeld, KeyGranted, AddrHeld, AddrGranted} :
           req[r].pc \notin S /\ req'[r].pc \notin S
    BY DEF Outside, KeyGranted, AddrGranted
  <1>. QED BY <1>1, KeyBooksStay, AddrBooksStay

(* A step of a request that holds both slots leaves them alone too. *)
LEMMA InsideBooks ==
    ASSUME KeyBooks, AddrBooks, NEW r \in Reqs, Alone(r), inflight' = inflight,
           KeyOf(r)' = KeyOf(r), req'[r].hdr = req[r].hdr,
           req[r].pc \in Served, req'[r].pc \in Served \cup {"dropKey"}
    PROVE  KeyBooks' /\ AddrBooks'
  <1>1. \A S \in {KeyHeld, KeyGranted, AddrHeld, AddrGranted} :
           req[r].pc \in S /\ req'[r].pc \in S
    BY DEF Served, KeyHeld, AddrHeld, KeyGranted, AddrGranted
  <1>. QED BY <1>1, KeyBooksStay, AddrBooksStay

(* The initial state satisfies the invariant: nobody holds anything. *)
LEMMA GateInit == Init => IInv
  <1>. SUFFICES ASSUME Init PROVE IInv
    OBVIOUS
  <1>1. \A r \in Reqs : req[r] = Idle /\ Idle \in ReqType /\ Idle.pc = "idle" /\ Idle.ident = None
    BY IdleType DEF Init
  <1>2. 0 \in Windows
    BY GateConstants DEF Windows
  <1>3. TypeOK
    BY <1>1, <1>2 DEF Init, TypeOK, ReqType
  <1>4. Vouched
    BY <1>1 DEF Vouched
  <1>5. /\ \A k : KeyHold(KeyHeld, k) = {} /\ KeyHold(KeyGranted, k) = {}
        /\ \A i : AddrHold(AddrHeld, i) = {} /\ AddrHold(AddrGranted, i) = {}
    BY <1>1 DEF KeyHold, AddrHold, KeyHeld, AddrHeld, KeyGranted, AddrGranted
  <1>6. KeyBooks /\ AddrBooks
    <2>1. Cardinality({}) = 0 /\ 0 <= PerKey /\ 0 <= PerIp
      BY FS_EmptySet, GateConstants
    <2>2. \A b \in Buckets : inflight[b] = 0
      BY DEF Init
    <2>3. \A k \in Keys : inflight[k] = 0
      BY <2>2 DEF Buckets
    <2>4. \A i \in Ips : inflight[AddrBucket(i)] = 0
      BY <2>2 DEF Buckets
    <2>5. KeyBooks
      BY <1>5, <2>1, <2>3, Zenon DEF KeyBooks
    <2>6. AddrBooks
      BY <1>5, <2>1, <2>4, Zenon DEF AddrBooks
    <2>. QED BY <2>5, <2>6
  <1>. QED BY <1>3, <1>4, <1>6 DEF IInv

(* Every step keeps it: one case per action. *)
LEMMA GateStep == IInv /\ [Next]_vars => IInv'
  <1>. SUFFICES ASSUME IInv, [Next]_vars PROVE IInv'
    OBVIOUS
  <1>0. TypeOK /\ Vouched /\ KeyBooks /\ AddrBooks
    BY DEF IInv
  <1>. DEFINE Calm(r) == Typed(r) /\ inflight' = inflight
                          /\ req[r].pc \in Outside /\ req'[r].pc \in Outside
  <1>t. req \in [Reqs -> ReqType]
    BY <1>0 DEF TypeOK, ReqType
  <1>o. {"idle", "resolve", "asking", "answered", "rate", "count", "key", "ws"} \subseteq Outside
    BY DEF Outside, Pcs, KeyHeld, AddrHeld
  <1>c. ASSUME NEW r \in Reqs, Calm(r), UNCHANGED <<active, window, bucket, admitted, late>>,
               cache' \in [Pats -> [ok : BOOLEAN, age : 0 .. Ttl - 1] \cup {None}]
        PROVE  IInv'
    <2>1. TypeOK'
      BY <1>0, <1>c DEF Typed, TypeOK, ReqType
    <2>2. KeyBooks' /\ AddrBooks'
      BY <1>0, <1>c, OutsideBooks DEF Typed
    <2>. QED BY <1>c, <2>1, <2>2 DEF IInv, Typed
  <1>1. ASSUME NEW r \in Reqs, Arrive(r) PROVE IInv'
    <2>1. PICK h \in Headers[r], v \in {"gate", "ws"} :
            req' = [req EXCEPT ![r].pc = "resolve", ![r].hdr = h, ![r].via = v]
      BY <1>1 DEF Arrive
    <2>2. h \in AllHeaders
      BY DEF AllHeaders
    <2>3. req'[r] \in ReqType /\ req'[r].pc = "resolve" /\ req'[r].ident = req[r].ident
      BY <1>t, <2>1, <2>2 DEF ReqType, Pcs
    <2>4. Alone(r) /\ req' \in [Reqs -> ReqType]
      BY <1>t, <2>1, <2>3 DEF Alone
    <2>5. Vouched'
      BY <1>0, <2>3, <2>4, VouchedStep DEF Vouched
    <2>6. Calm(r)
      BY <1>1, <1>o, <2>3, <2>4, <2>5 DEF Typed, Arrive, At
    <2>. QED BY <1>0, <1>1, <1>c, <2>6 DEF Arrive, authVars, rateVars, TypeOK
  <1>2. ASSUME NEW r \in Reqs, ResolveLocally(r) PROVE IInv'
    <2>1. CASE TokenOf(r) \in LocalKeys \cup {None} /\ Resolved(r, TokenOf(r))
      <3>1. Calm(r)
        BY <1>0, <1>2, <1>o, <2>1, ResolvedStep DEF ResolveLocally, At
      <3>. QED BY <1>0, <1>2, <1>c, <3>1 DEF ResolveLocally, authVars, rateVars, TypeOK
    <2>2. CASE Refuse(r)
      <3>1. Calm(r)
        BY <1>0, <1>2, <1>o, <2>2, RefuseStep DEF ResolveLocally, At
      <3>. QED BY <1>0, <1>2, <1>c, <3>1 DEF ResolveLocally, authVars, rateVars, TypeOK
    <2>. QED BY <1>2, <2>1, <2>2 DEF ResolveLocally
  <1>3. ASSUME NEW r \in Reqs, ResolveCached(r) PROVE IInv'
    <2>1. TokenOf(r) \in Pats /\ (Resolved(r, TokenOf(r)) \/ Refuse(r))
      BY <1>3 DEF ResolveCached
    <2>2. Typed(r) /\ req'[r].pc \in {"idle", "ws", "rate"}
      BY <1>0, <2>1, ResolvedStep, RefuseStep
    <2>3. Calm(r)
      BY <1>3, <1>o, <2>2 DEF ResolveCached, At
    <2>. QED BY <1>0, <1>3, <1>c, <2>3 DEF ResolveCached, authVars, rateVars, TypeOK
  <1>4. ASSUME NEW r \in Reqs, Ask(r) PROVE IInv'
    <2>1. TokenOf(r) \in Pats /\ Goto(r, "asking") /\ "asking" \in Pcs
      BY <1>4 DEF Ask, Pcs
    <2>2. Typed(r) /\ req'[r].pc = "asking"
      BY <1>0, <2>1, GotoStep
    <2>3. Calm(r)
      BY <1>4, <1>o, <2>2 DEF Ask, At
    <2>. QED BY <1>0, <1>4, <1>c, <2>3 DEF Ask, authVars, rateVars, TypeOK
  <1>5. ASSUME NEW r \in Reqs, LumidAnswers(r) PROVE IInv'
    <2>1. PICK a \in Answers :
            req' = [req EXCEPT ![r] = [[req[r] EXCEPT !.pc = "answered"] EXCEPT !.answer = a]]
      BY <1>5 DEF LumidAnswers
    <2>. DEFINE next == [[req[r] EXCEPT !.pc = "answered"] EXCEPT !.answer = a]
    <2>2. next \in ReqType /\ next.pc = "answered" /\ next.ident = req[r].ident
          /\ next.hdr = req[r].hdr /\ next.via = req[r].via
      BY <1>t DEF ReqType, Pcs
    <2>3. req'[r] = next /\ Alone(r) /\ req' \in [Reqs -> ReqType]
      BY <1>t, <2>1, <2>2 DEF Alone
    <2>4. TokenOf(r)' = TokenOf(r) /\ TokenOf(r) \in Pats
      BY <1>0, <1>5, <2>2, <2>3 DEF TokenOf, LumidAnswers, At, Vouched
    <2>5. Vouched'
      BY <1>0, <2>2, <2>3, <2>4, VouchedStep DEF Vouched
    <2>6. Calm(r)
      BY <1>5, <1>o, <2>2, <2>3, <2>5 DEF Typed, LumidAnswers, At
    <2>. QED BY <1>0, <1>5, <1>c, <2>6 DEF LumidAnswers, authVars, rateVars, TypeOK
  <1>6. ASSUME NEW r \in Reqs, Introspected(r) PROVE IInv'
    <2>1. TokenOf(r) \in Pats /\ (Resolved(r, TokenOf(r)) \/ Refuse(r))
      BY <1>0, <1>6 DEF Introspected, At, Vouched
    <2>2. Typed(r) /\ req'[r].pc \in {"idle", "ws", "rate"}
      BY <1>0, <2>1, ResolvedStep, RefuseStep
    <2>3. Calm(r)
      BY <1>6, <1>o, <2>2 DEF Introspected, At
    <2>4. [ok |-> req[r].answer = "active", age |-> 0] \in [ok : BOOLEAN, age : 0 .. Ttl - 1]
      BY GateConstants
    <2>5. cache' \in [Pats -> [ok : BOOLEAN, age : 0 .. Ttl - 1] \cup {None}]
      BY <1>0, <1>6, <2>4 DEF Introspected, TypeOK
    <2>. QED BY <1>6, <1>c, <2>3, <2>5 DEF Introspected, rateVars
  <1>7. ASSUME NEW r \in Reqs, ReadClock(r) PROVE IInv'
    <2>1. req' = [req EXCEPT ![r] = [[req[r] EXCEPT !.pc = "count"] EXCEPT !.win = window]]
      BY <1>7 DEF ReadClock
    <2>. DEFINE next == [[req[r] EXCEPT !.pc = "count"] EXCEPT !.win = window]
    <2>2. next \in ReqType /\ next.pc = "count" /\ next.ident = req[r].ident
      BY <1>t, <1>0 DEF ReqType, Pcs, TypeOK
    <2>3. req'[r] = next /\ Alone(r) /\ req' \in [Reqs -> ReqType]
      BY <1>t, <2>1, <2>2 DEF Alone
    <2>4. Vouched'
      BY <1>0, <2>2, <2>3, VouchedStep DEF Vouched
    <2>5. Calm(r)
      BY <1>7, <1>o, <2>2, <2>3, <2>4 DEF Typed, ReadClock, At
    <2>. QED BY <1>0, <1>7, <1>c, <2>5 DEF ReadClock, authVars, rateVars, TypeOK
  <1>20. ASSUME NEW r \in Reqs, WsClosed(r) PROVE IInv'
    <2>1. Calm(r)
      BY <1>0, <1>20, <1>o, RefuseStep DEF WsClosed, At
    <2>. QED BY <1>0, <1>20, <1>c, <2>1 DEF WsClosed, authVars, rateVars, TypeOK
  <1>8. ASSUME NEW r \in Reqs, Check(r) PROVE IInv'
    <2>. DEFINE k == KeyOf(r)
                w == req[r].win
                count == Counted(k, w)
    <2>1. k \in Keys /\ w \in Windows
      BY <1>0, <1>t, KeyIsKey DEF ReqType
    <2>2. LimitOf(k) \in Nat /\ bucket[k].count \in Nat
      BY <1>0, <2>1, GateConstants DEF LimitOf, TypeOK
    <2>3. count \in Nat
      BY <2>2 DEF Counted
    <2>4. bucket' \in [Keys -> [win : Windows, count : Nat]]
      BY <1>0, <1>8, <2>1, <2>3 DEF Check, TypeOK
    <2>5. late' \in [Keys -> Nat]
      BY <1>0, <1>8, <2>1 DEF Check, TypeOK
    <2>6. admitted' \in [Keys -> [Windows -> Nat]]
      BY <1>0, <1>8, <2>1 DEF Check, TypeOK
    <2>7. Calm(r)
      <3>1. CASE Refuse(r)
        BY <1>0, <1>8, <1>o, <3>1, RefuseStep DEF Check, At
      <3>2. CASE req' = [req EXCEPT ![r].pc = "key", ![r].win = Idle.win]
        <4>1. Idle.win \in Windows
          BY IdleType DEF ReqType
        <4>2. req'[r] \in ReqType /\ req'[r].pc = "key" /\ req'[r].ident = req[r].ident
          BY <1>t, <3>2, <4>1 DEF ReqType, Pcs
        <4>3. Alone(r) /\ req' \in [Reqs -> ReqType]
          BY <1>t, <3>2, <4>2 DEF Alone
        <4>4. Vouched'
          BY <1>0, <4>2, <4>3, VouchedStep DEF Vouched
        <4>. QED BY <1>8, <1>o, <4>2, <4>3, <4>4 DEF Typed, Check, At
      <3>. QED BY <1>8, <3>1, <3>2 DEF Check
    <2>8. TypeOK'
      BY <1>0, <1>8, <2>4, <2>5, <2>6, <2>7 DEF Typed, TypeOK, ReqType, Check, authVars
    <2>9. KeyBooks' /\ AddrBooks'
      BY <1>0, <2>7, OutsideBooks DEF Typed
    <2>. QED BY <2>7, <2>8, <2>9 DEF IInv, Typed
  <1>9. ASSUME NEW r \in Reqs, AcquireKey(r) PROVE IInv'
    <2>. DEFINE k == KeyOf(r)
                p == IF Fits(inflight[k], PerKey) THEN "ip" ELSE "undoKey"
    <2>1. /\ req[r].pc = "key" /\ Goto(r, p) /\ p \in Pcs
          /\ inflight' = [inflight EXCEPT ![k] = @ + 1]
          /\ UNCHANGED <<active, cache, window, bucket, admitted, late>>
      BY <1>9 DEF AcquireKey, At, Pcs, authVars, rateVars
    <2>2. Typed(r) /\ req'[r].pc = p /\ KeyOf(r)' = k /\ req'[r].hdr = req[r].hdr
      BY <1>0, <2>1, GotoStep
    <2>3. k \in Keys /\ k \in Buckets /\ (\A i \in Ips : AddrBucket(i) # k)
      BY <1>0, KeyIsKey
    <2>4. TypeOK'
      BY <1>0, <2>1, <2>2, <2>3 DEF Typed, TypeOK, ReqType
    <2>5. KeyBooks'
      <3>1. req[r].pc \notin KeyHeld /\ p \in KeyHeld
            /\ (p \in KeyGranted => inflight[k] < PerKey)
        BY <2>1 DEF KeyHeld, KeyGranted, Fits
      <3>2. inflight'[k] = inflight[k] + 1 /\ \A j \in Keys : j # k => inflight'[j] = inflight[j]
        BY <1>0, <2>1, <2>3 DEF TypeOK, Buckets
      <3>. QED BY <1>0, <2>2, <2>3, <3>1, <3>2, KeyBooksTake DEF Typed
    <2>6. AddrBooks'
      <3>1. req[r].pc \notin AddrHeld /\ p \notin AddrHeld
        BY <2>1 DEF AddrHeld
      <3>2. \A i \in Ips : inflight'[AddrBucket(i)] = inflight[AddrBucket(i)]
        BY <1>0, <2>1, <2>3 DEF TypeOK, Buckets
      <3>. QED BY <1>0, <2>2, <3>1, <3>2, AddrBooksStay DEF Typed, AddrGranted
    <2>. QED BY <2>2, <2>4, <2>5, <2>6 DEF IInv, Typed
  <1>10. ASSUME NEW r \in Reqs, AcquireIp(r) PROVE IInv'
    <2>. DEFINE i == req[r].hdr.ip
                p == IF Fits(inflight[AddrBucket(i)], PerIp) THEN "identity" ELSE "undoIp"
    <2>1. /\ req[r].pc = "ip" /\ Goto(r, p) /\ p \in Pcs
          /\ inflight' = [inflight EXCEPT ![AddrBucket(i)] = @ + 1]
          /\ UNCHANGED <<active, cache, window, bucket, admitted, late>>
      BY <1>10 DEF AcquireIp, AddrOf, At, Pcs, authVars, rateVars
    <2>2. Typed(r) /\ req'[r].pc = p /\ KeyOf(r)' = KeyOf(r) /\ req'[r].hdr = req[r].hdr
      BY <1>0, <2>1, GotoStep
    <2>3. i \in Ips /\ AddrBucket(i) \in Buckets
      BY <1>0, KeyIsKey DEF AddrOf
    <2>4. TypeOK'
      BY <1>0, <2>1, <2>2, <2>3 DEF Typed, TypeOK, ReqType
    <2>5. AddrBooks'
      <3>1. req[r].pc \notin AddrHeld /\ p \in AddrHeld
            /\ (p \in AddrGranted => inflight[AddrBucket(i)] < PerIp)
        BY <2>1 DEF AddrHeld, AddrGranted, Fits
      <3>2. \A j \in Ips : j # i => AddrBucket(j) # AddrBucket(i) /\ AddrBucket(j) \in Buckets
        BY DEF AddrBucket, Buckets
      <3>3. inflight'[AddrBucket(i)] = inflight[AddrBucket(i)] + 1
            /\ \A j \in Ips : j # i => inflight'[AddrBucket(j)] = inflight[AddrBucket(j)]
        BY <1>0, <2>1, <2>3, <3>2 DEF TypeOK
      <3>. QED BY <1>0, <2>2, <2>3, <3>1, <3>3, AddrBooksTake DEF Typed
    <2>6. KeyBooks'
      <3>1. \A S \in {KeyHeld, KeyGranted} : req[r].pc \in S /\ p \in S
        BY <2>1 DEF KeyHeld, KeyGranted
      <3>2. \A j \in Keys : inflight'[j] = inflight[j]
        BY <1>0, <2>1, <2>3, GateConstants DEF TypeOK, Buckets
      <3>. QED BY <1>0, <2>2, <3>1, <3>2, KeyBooksStay DEF Typed
    <2>. QED BY <2>2, <2>4, <2>5, <2>6 DEF IInv, Typed
  <1>d. ASSUME NEW r \in Reqs, NEW p \in {"idle", "dropIp"}, Typed(r), req'[r].pc = p,
               req[r].pc \in {"undoKey", "dropKey"}, req[r].pc = "dropKey" <=> p = "dropIp",
               p = "dropIp" => req'[r].hdr = req[r].hdr,
               inflight' = [inflight EXCEPT ![KeyOf(r)] = @ - 1],
               UNCHANGED <<active, cache, window, bucket, admitted, late>>
        PROVE  IInv'
    <2>. DEFINE k == KeyOf(r)
    <2>1. k \in Keys /\ k \in Buckets /\ (\A i \in Ips : AddrBucket(i) # k)
      BY <1>0, KeyIsKey
    <2>2. req[r].pc \in KeyHeld /\ p \notin KeyHeld
      BY <1>d DEF KeyHeld
    <2>3. inflight'[k] = inflight[k] - 1 /\ \A j \in Keys : j # k => inflight'[j] = inflight[j]
      BY <1>0, <1>d, <2>1 DEF TypeOK, Buckets
    <2>4. KeyBooks' /\ inflight[k] > 0
      BY <1>0, <1>d, <2>1, <2>2, <2>3, KeyBooksGive DEF Typed
    <2>5. inflight[k] - 1 \in Nat
      BY <1>0, <2>1, <2>4 DEF TypeOK
    <2>6. TypeOK'
      BY <1>0, <1>d, <2>1, <2>5 DEF Typed, TypeOK, ReqType
    <2>7. AddrBooks'
      <3>1. \A S \in {AddrHeld, AddrGranted} : req[r].pc \in S <=> p = "dropIp"
        BY <1>d DEF AddrHeld, AddrGranted
      <3>2. \A S \in {AddrHeld, AddrGranted} : p \in S <=> p = "dropIp"
        BY <1>d DEF AddrHeld, AddrGranted
      <3>3. \A i \in Ips : inflight'[AddrBucket(i)] = inflight[AddrBucket(i)]
        BY <1>0, <1>d, <2>1 DEF TypeOK, Buckets
      <3>. QED BY <1>0, <1>d, <3>1, <3>2, <3>3, AddrBooksStay DEF Typed
    <2>. QED BY <1>d, <2>4, <2>6, <2>7 DEF IInv, Typed
  <1>11. ASSUME NEW r \in Reqs, UndoKey(r) PROVE IInv'
    <2>1. Typed(r) /\ req'[r].pc = "idle"
      BY <1>0, <1>11, RefuseStep DEF UndoKey
    <2>. QED BY <1>11, <1>d, <2>1 DEF UndoKey, At, authVars, rateVars
  <1>12. ASSUME NEW r \in Reqs, DropKey(r) PROVE IInv'
    <2>1. Goto(r, "dropIp") /\ "dropIp" \in Pcs
      BY <1>12 DEF DropKey, Pcs
    <2>2. Typed(r) /\ req'[r].pc = "dropIp" /\ req'[r].hdr = req[r].hdr
      BY <1>0, <2>1, GotoStep
    <2>. QED BY <1>12, <1>d, <2>2 DEF DropKey, At, authVars, rateVars
  <1>e. ASSUME NEW r \in Reqs, NEW p \in {"idle", "undoKey"}, Typed(r), req'[r].pc = p,
               req[r].pc \in {"undoIp", "dropIp"}, req[r].pc = "undoIp" <=> p = "undoKey",
               p = "undoKey" => KeyOf(r)' = KeyOf(r),
               inflight' = [inflight EXCEPT ![AddrOf(r)] = @ - 1],
               UNCHANGED <<active, cache, window, bucket, admitted, late>>
        PROVE  IInv'
    <2>. DEFINE i == req[r].hdr.ip
    <2>1. i \in Ips /\ AddrBucket(i) \in Buckets /\ AddrOf(r) = AddrBucket(i)
      BY <1>0, KeyIsKey DEF AddrOf
    <2>2. req[r].pc \in AddrHeld /\ p \notin AddrHeld
      BY <1>e DEF AddrHeld
    <2>3. \A j \in Ips : j # i => AddrBucket(j) # AddrBucket(i) /\ AddrBucket(j) \in Buckets
      BY DEF AddrBucket, Buckets
    <2>4. inflight'[AddrBucket(i)] = inflight[AddrBucket(i)] - 1
          /\ \A j \in Ips : j # i => inflight'[AddrBucket(j)] = inflight[AddrBucket(j)]
      BY <1>0, <1>e, <2>1, <2>3 DEF TypeOK
    <2>5. AddrBooks' /\ inflight[AddrBucket(i)] > 0
      BY <1>0, <1>e, <2>1, <2>2, <2>4, AddrBooksGive DEF Typed
    <2>6. inflight[AddrBucket(i)] - 1 \in Nat
      BY <1>0, <2>1, <2>5 DEF TypeOK
    <2>7. TypeOK'
      BY <1>0, <1>e, <2>1, <2>6 DEF Typed, TypeOK, ReqType
    <2>8. KeyBooks'
      <3>1. req[r].pc \in KeyHeld <=> p = "undoKey"
        BY <1>e DEF KeyHeld
      <3>2. p \in KeyHeld <=> p = "undoKey"
        BY <1>e DEF KeyHeld
      <3>3. p \notin KeyGranted
        BY <1>e DEF KeyGranted, KeyHeld
      <3>4. \A j \in Keys : inflight'[j] = inflight[j]
        BY <1>0, <1>e, <2>1, GateConstants DEF TypeOK, Buckets
      <3>. QED BY <1>0, <1>e, <3>1, <3>2, <3>3, <3>4, KeyBooksStay DEF Typed
    <2>. QED BY <1>e, <2>5, <2>7, <2>8 DEF IInv, Typed
  <1>13. ASSUME NEW r \in Reqs, UndoIp(r) PROVE IInv'
    <2>1. Goto(r, "undoKey") /\ "undoKey" \in Pcs
      BY <1>13 DEF UndoIp, Pcs
    <2>2. Typed(r) /\ req'[r].pc = "undoKey" /\ KeyOf(r)' = KeyOf(r)
      BY <1>0, <2>1, GotoStep
    <2>. QED BY <1>13, <1>e, <2>2 DEF UndoIp, At, authVars, rateVars
  <1>14. ASSUME NEW r \in Reqs, DropIp(r) PROVE IInv'
    <2>1. Typed(r) /\ req'[r].pc = "idle"
      BY <1>0, <1>14, RefuseStep DEF DropIp
    <2>. QED BY <1>14, <1>e, <2>1 DEF DropIp, At, authVars, rateVars
  <1>i. ASSUME NEW r \in Reqs, NEW p \in {"serving", "body", "dropKey"}, Goto(r, p),
               req[r].pc \in Served, UNCHANGED <<authVars, window, rateVars, inflight>>
        PROVE  IInv'
    <2>1. p \in Pcs
      BY DEF Pcs
    <2>2. Typed(r) /\ req'[r].pc = p /\ KeyOf(r)' = KeyOf(r) /\ req'[r].hdr = req[r].hdr
      BY <1>0, <1>i, <2>1, GotoStep
    <2>3. TypeOK'
      BY <1>0, <1>i, <2>2 DEF Typed, TypeOK, ReqType, authVars, rateVars
    <2>4. KeyBooks' /\ AddrBooks'
      BY <1>0, <1>i, <2>2, InsideBooks DEF Typed, Served
    <2>. QED BY <2>2, <2>3, <2>4 DEF IInv, Typed
  <1>15. ASSUME NEW r \in Reqs, RequireIdentity(r) PROVE IInv'
    BY <1>15, <1>i DEF RequireIdentity, At, Served
  <1>16. ASSUME NEW r \in Reqs, HandlerReturns(r) PROVE IInv'
    BY <1>16, <1>i DEF HandlerReturns, At, Served
  <1>17. ASSUME NEW r \in Reqs, Finished(r) PROVE IInv'
    BY <1>17, <1>i DEF Finished, Served
  <1>u. ASSUME UNCHANGED <<req, inflight, bucket, admitted, late>>, TypeOK' PROVE IInv'
    <2>1. \A r : KeyOf(r)' = KeyOf(r) /\ TokenOf(r)' = TokenOf(r)
      BY <1>u DEF KeyOf, TokenOf
    <2>2. Vouched'
      BY <1>0, <1>u, <2>1 DEF Vouched
    <2>3. \A S, k : KeyHold(S, k)' = KeyHold(S, k) /\ AddrHold(S, k)' = AddrHold(S, k)
      BY <1>u, <2>1 DEF KeyHold, AddrHold
    <2>4. KeyBooks' /\ AddrBooks'
      BY <1>0, <1>u, <2>3 DEF KeyBooks, AddrBooks
    <2>. QED BY <1>u, <2>2, <2>4 DEF IInv
  <1>18. ASSUME NEW t \in Pats, Evict(t) \/ ChangeToken(t) PROVE IInv'
    <2>1. TypeOK'
      BY <1>0, <1>18 DEF Evict, ChangeToken, TypeOK, rateVars
    <2>. QED BY <1>18, <1>u, <2>1 DEF Evict, ChangeToken, rateVars
  <1>19. ASSUME Age PROVE IInv'
    <2>1. \A t \in Pats : cache[t] # None /\ ~Expires(cache[t]) =>
             [cache[t] EXCEPT !.age = @ + 1] \in [ok : BOOLEAN, age : 0 .. Ttl - 1]
      BY <1>0, GateConstants DEF TypeOK, Expires
    <2>2. cache' \in [Pats -> [ok : BOOLEAN, age : 0 .. Ttl - 1] \cup {None}]
      BY <1>19, <2>1 DEF Age
    <2>3. TypeOK'
      BY <1>0, <1>19, <2>2 DEF Age, TypeOK, rateVars
    <2>. QED BY <1>19, <1>u, <2>3 DEF Age, rateVars
  <1>21. ASSUME NextWindow PROVE IInv'
    <2>1. TypeOK'
      BY <1>0, <1>21, GateConstants DEF NextWindow, TypeOK, Windows, authVars, rateVars
    <2>. QED BY <1>21, <1>u, <2>1 DEF NextWindow, authVars, rateVars
  <1>22. ASSUME UNCHANGED vars PROVE IInv'
    <2>1. TypeOK'
      BY <1>0, <1>22 DEF vars, TypeOK
    <2>. QED BY <1>22, <1>u, <2>1 DEF vars
  <1>23. ASSUME NEW r \in Reqs, Step(r) PROVE IInv'
    BY <1>23, <1>2, <1>3, <1>4, <1>5, <1>6, <1>7, <1>8, <1>9, <1>10, <1>11, <1>12, <1>13, <1>14,
       <1>15, <1>16 DEF Step
  <1>. QED BY <1>1, <1>17, <1>18, <1>19, <1>20, <1>21, <1>22, <1>23 DEF Next

(* The invariant says what the limiter promises: the served are among those *)
(* that were granted.                                                       *)
LEMMA GateSays == IInv => GateInv
  <1>. SUFFICES ASSUME IInv PROVE GateInv
    OBVIOUS
  <1>1. SlotsAccounted
    BY Holders DEF IInv, KeyBooks, AddrBooks, SlotsAccounted
  <1>2. \A k \in Keys : Cardinality({r \in HoldersOfKey(k) : req[r].pc \in Served}) <= PerKey
    <2>. SUFFICES ASSUME NEW k \in Keys
                  PROVE  Cardinality({r \in HoldersOfKey(k) : req[r].pc \in Served}) <= PerKey
      OBVIOUS
    <2>. DEFINE S == {r \in HoldersOfKey(k) : req[r].pc \in Served}
    <2>1. S \subseteq KeyHold(KeyGranted, k)
      BY DEF HoldersOfKey, KeyHold, KeyGranted, KeyHeld, Served
    <2>2. Cardinality(S) <= Cardinality(KeyHold(KeyGranted, k)) /\ Cardinality(S) \in Nat
      BY <2>1, HoldFinite, FS_Subset, FS_CardinalityType
    <2>. QED BY <2>2, HoldFinite, GateConstants DEF IInv, KeyBooks
  <1>3. \A i \in Ips : Cardinality({r \in HoldersOfAddr(i) : req[r].pc \in Served}) <= PerIp
    <2>. SUFFICES ASSUME NEW i \in Ips
                  PROVE  Cardinality({r \in HoldersOfAddr(i) : req[r].pc \in Served}) <= PerIp
      OBVIOUS
    <2>. DEFINE S == {r \in HoldersOfAddr(i) : req[r].pc \in Served}
    <2>1. S \subseteq AddrHold(AddrGranted, i)
      BY DEF HoldersOfAddr, AddrHold, AddrGranted, AddrHeld, Served
    <2>2. Cardinality(S) <= Cardinality(AddrHold(AddrGranted, i)) /\ Cardinality(S) \in Nat
      BY <2>1, HoldFinite, FS_Subset, FS_CardinalityType
    <2>. QED BY <2>2, HoldFinite, GateConstants DEF IInv, AddrBooks
  <1>. QED BY <1>1, <1>2, <1>3 DEF IInv, GateInv, WithinLimits

(* ConcurrencyLimiter::acquire and its guards: in every reachable state     *)
(* each counter is the number of requests that hold a slot, and no key and  *)
(* no address has more served requests than its limit.                      *)
THEOREM LimiterSafe == Spec => []GateInv
  <1>1. Spec => []IInv
    BY GateInit, GateStep, PTL DEF Spec
  <1>. QED BY <1>1, GateSays, PTL

(***************************************************************************)
(* Windows.                                                                *)
(***************************************************************************)

(* What a window may have admitted depends on where the bucket stands: in   *)
(* the bucket's own window the count says it, up to the limit; a later      *)
(* window can only have been admitted to before a late request set the      *)
(* bucket back; an earlier one is reached again by a late request alone.    *)
Granted(k, count) == IF count <= LimitOf(k) THEN count ELSE LimitOf(k)
Allowance(k, w) ==
    IF w > bucket[k].win THEN LimitOf(k) * late[k]
    ELSE IF w = bucket[k].win THEN LimitOf(k) * late[k] + Granted(k, bucket[k].count)
    ELSE LimitOf(k) * late[k] + LimitOf(k)
WindowInv == \A k \in Keys, w \in Windows : admitted[k][w] <= Allowance(k, w)

LEMMA Limits ==
    ASSUME NEW k
    PROVE  LimitOf(k) \in Nat
  BY GateConstants DEF LimitOf

(* One more late request is one limit more. *)
LEMMA OneMore ==
    ASSUME NEW l \in Nat, NEW n \in Nat
    PROVE  l * n \in Nat /\ l * (n + 1) = l * n + l /\ l * (1 + n) = l * n + l
  OBVIOUS

LEMMA WindowInit == Init => WindowInv
  <1>. SUFFICES ASSUME Init, NEW k \in Keys, NEW w \in Windows
                PROVE  admitted[k][w] <= Allowance(k, w)
    BY DEF WindowInv
  <1>1. admitted[k][w] = 0 /\ bucket[k].win = 0 /\ bucket[k].count = 0 /\ late[k] = 0
    BY DEF Init
  <1>2. LimitOf(k) \in Nat /\ LimitOf(k) * 0 = 0
    BY Limits
  <1>. QED BY <1>1, <1>2 DEF Allowance, Granted

(* A step that does not count leaves the windows alone. *)
LEMMA WindowIdle ==
    ASSUME WindowInv, UNCHANGED rateVars
    PROVE  WindowInv'
  BY DEF WindowInv, rateVars, Allowance

(* A request is counted in the window it read: the bucket's own, one that   *)
(* comes after it, or, late, one before it.                                 *)
LEMMA WindowCheck ==
    ASSUME TypeOK, Vouched, WindowInv, NEW r \in Reqs, Check(r), NEW k, k = KeyOf(r)
    PROVE  WindowInv'
  <1>. DEFINE w == req[r].win
              v == bucket[k].win
              n == bucket[k].count
              c == Counted(k, w)
              L == LimitOf(k)
              A == LimitOf(k) * late[k]
  <1>1. k \in Keys /\ w \in Windows
    BY KeyIsKey DEF TypeOK
  <1>2. /\ bucket' = [bucket EXCEPT ![k] = [win |-> w, count |-> c]]
        /\ late' = IF v > w THEN [late EXCEPT ![k] = @ + 1] ELSE late
        /\ admitted' = IF c <= L THEN [admitted EXCEPT ![k][w] = @ + 1] ELSE admitted
    BY DEF Check
  <1>3. /\ v \in Nat /\ n \in Nat /\ w \in Nat /\ L \in Nat /\ late[k] \in Nat
        /\ Windows \subseteq Nat
    BY <1>1, Limits DEF TypeOK, Windows
  <1>4. c = IF v # w THEN 1 ELSE IF n > L THEN n ELSE n + 1
    BY DEF Counted
  <1>5. A \in Nat /\ L * (late[k] + 1) = A + L
    BY <1>3, OneMore
  <1>6. bucket'[k].win = w /\ bucket'[k].count = c
    BY <1>1, <1>2 DEF TypeOK
  <1>7. late'[k] = IF v > w THEN late[k] + 1 ELSE late[k]
    BY <1>1, <1>2 DEF TypeOK
  <1>8. ASSUME NEW x \in Windows PROVE admitted'[k][x] <= Allowance(k, x)'
    <2>1. admitted[k][x] \in Nat /\ x \in Nat
      BY <1>1, <1>3 DEF TypeOK
    <2>2. admitted[k][x] <= IF x > v THEN A ELSE IF x = v THEN A + Granted(k, n) ELSE A + L
      BY <1>1 DEF WindowInv, Allowance
    <2>3. admitted'[k][x] = IF c <= L /\ x = w THEN admitted[k][x] + 1 ELSE admitted[k][x]
      BY <1>1, <1>2 DEF TypeOK
    <2>4. LimitOf(k) * late'[k] = IF v > w THEN A + L ELSE A
      BY <1>5, <1>7
    <2>5. Allowance(k, x)' = IF x > w THEN LimitOf(k) * late'[k]
                             ELSE IF x = w THEN LimitOf(k) * late'[k] + Granted(k, c)
                             ELSE LimitOf(k) * late'[k] + L
      BY <1>6 DEF Allowance, Granted, LimitOf
    <2>6. Granted(k, n) = (IF n <= L THEN n ELSE L) /\ Granted(k, c) = (IF c <= L THEN c ELSE L)
      BY DEF Granted
    <2>. HIDE DEF A, L, v, n, c, w
    <2>. QED BY <1>3, <1>4, <1>5, <2>1, <2>2, <2>3, <2>4, <2>5, <2>6
  <1>9. ASSUME NEW j \in Keys, j # k, NEW x \in Windows
        PROVE  admitted'[j][x] <= Allowance(j, x)'
    <2>1. admitted'[j] = admitted[j] /\ bucket'[j] = bucket[j] /\ late'[j] = late[j]
      BY <1>1, <1>2, <1>9 DEF TypeOK
    <2>2. Allowance(j, x)' = Allowance(j, x)
      BY <2>1 DEF Allowance, Granted, LimitOf
    <2>. QED BY <2>1, <2>2 DEF WindowInv
  <1>. QED BY <1>8, <1>9 DEF WindowInv

(* RateLimiter::check: whatever the order in which requests read the clock  *)
(* and take the bucket, a window lets through its limit, and one limit more *)
(* for each request that was counted in it after the bucket had moved on.   *)
THEOREM WindowsBounded == Spec => []WindowBounded
  <1>1. Spec => []IInv
    BY GateInit, GateStep, PTL DEF Spec
  <1>2. IInv /\ WindowInv /\ [Next]_vars => WindowInv'
    <2>. SUFFICES ASSUME IInv, WindowInv, [Next]_vars
                  PROVE  WindowInv'
      OBVIOUS
    <2>1. ASSUME NEW r \in Reqs, Check(r) PROVE WindowInv'
      BY <2>1, WindowCheck DEF IInv
    <2>2. ASSUME NEW r \in Reqs, Step(r), ~Check(r) PROVE UNCHANGED rateVars
      BY <2>2 DEF Step, ResolveLocally, ResolveCached, Ask, LumidAnswers, Introspected, ReadClock,
                  AcquireKey, UndoKey, AcquireIp, UndoIp, RequireIdentity, HandlerReturns,
                  DropKey, DropIp
    <2>3. ASSUME NEW r \in Reqs, Arrive(r) \/ Finished(r) \/ WsClosed(r) PROVE UNCHANGED rateVars
      BY <2>3 DEF Arrive, Finished, WsClosed
    <2>4. ASSUME NEW t \in Pats, Evict(t) \/ ChangeToken(t) PROVE UNCHANGED rateVars
      BY <2>4 DEF Evict, ChangeToken
    <2>5. ASSUME Age \/ NextWindow \/ UNCHANGED vars PROVE UNCHANGED rateVars
      BY <2>5 DEF Age, NextWindow, vars, rateVars
    <2>. QED BY <2>1, <2>2, <2>3, <2>4, <2>5, WindowIdle DEF Next
  <1>3. IInv /\ WindowInv => WindowBounded
    <2>. SUFFICES ASSUME IInv, WindowInv, NEW k \in Keys, NEW w \in Windows
                  PROVE  admitted[k][w] <= LimitOf(k) * (1 + late[k])
      BY DEF WindowBounded
    <2>1. /\ LimitOf(k) \in Nat /\ late[k] \in Nat /\ admitted[k][w] \in Nat
          /\ bucket[k].count \in Nat
      BY Limits DEF IInv, TypeOK
    <2>2. LimitOf(k) * late[k] \in Nat
          /\ LimitOf(k) * (1 + late[k]) = LimitOf(k) * late[k] + LimitOf(k)
      BY <2>1, OneMore
    <2>3. Granted(k, bucket[k].count) \in Nat /\ Granted(k, bucket[k].count) <= LimitOf(k)
      BY <2>1 DEF Granted
    <2>4. admitted[k][w] <= Allowance(k, w)
      BY DEF WindowInv
    <2>5. Allowance(k, w) <= LimitOf(k) * late[k] + LimitOf(k) /\ Allowance(k, w) \in Nat
      BY <2>1, <2>2, <2>3 DEF Allowance
    <2>. QED BY <2>1, <2>2, <2>4, <2>5
  <1>. QED BY <1>1, <1>2, <1>3, WindowInit, PTL DEF Spec
=============================================================================
