------------------------- MODULE RealtimeHubProofs -------------------------
(***************************************************************************)
(* The hub's three indices stay consistent for every set of connections,   *)
(* identities and symbols, however subscribes, takeovers, disconnects and  *)
(* dropped requests interleave, and the demand the upstream is told of is  *)
(* the demand there is.  The last part is about the queue of one of its    *)
(* connections, the subject of ClientQueue.                                *)
(***************************************************************************)
EXTENDS RealtimeHub, ClientQueue, FiniteSetTheorems, SequenceTheorems, TLAPS

HubInv == TypeOK /\ RegistryConsistent

(* A set of symbols has a natural number of elements. *)
LEMMA CardNat == ASSUME NEW S \in SUBSET Symbols PROVE Cardinality(S) \in Nat
  BY HubConstants, FS_Subset, FS_CardinalityType

(* Adding a connection to symbols keeps the types of what it changes. *)
LEMMA AddType ==
    ASSUME TypeOK, NEW c \in Conns, NEW S \in SUBSET Symbols, AddTo(c, S)
    PROVE  /\ subs' \in [Symbols -> SUBSET Conns]
           /\ life' \in [Conns -> Nat]
           /\ fire' \in [Conns -> SUBSET Events]
  <1>1. subs' \in [Symbols -> SUBSET Conns]
    BY DEF TypeOK, AddTo
  <1>2. Cardinality({s \in S : c \notin subs[s]}) \in Nat
    BY CardNat
  <1>3. life' \in [Conns -> Nat]
    BY <1>2 DEF TypeOK, AddTo
  <1>4. NewDemand(c, S) \in SUBSET Events
    <2>1. \A s \in Symbols : <<s, TRUE>> \in Events
      BY DEF Events
    <2>. QED BY <2>1 DEF NewDemand
  <1>. QED BY <1>1, <1>3, <1>4 DEF TypeOK, AddTo

(* So does taking it out. *)
LEMMA DropType ==
    ASSUME TypeOK, NEW c \in Conns, NEW S \in SUBSET Symbols, DropFrom(c, S)
    PROVE  /\ subs' \in [Symbols -> SUBSET Conns]
           /\ fire' \in [Conns -> SUBSET Events]
  <1>1. subs' \in [Symbols -> SUBSET Conns]
    BY DEF TypeOK, DropFrom
  <1>2. EndedDemand(c, S) \in SUBSET Events
    <2>1. \A s \in Symbols : <<s, FALSE>> \in Events
      BY DEF Events
    <2>. QED BY <2>1 DEF EndedDemand
  <1>. QED BY <1>1, <1>2 DEF TypeOK, DropFrom

(* Nobody is displaced in silence by a step that registers nobody. *)
LEMMA SameTold ==
    ASSUME DisplacedAreTold, UNCHANGED <<prev, conns, bySub, told>>,
           \A d \in Conns : pc[d] \in {"tell", "leaked"} => pc'[d] \in {"tell", "leaked"}
    PROVE  DisplacedAreTold'
  BY DEF DisplacedAreTold

(* The initial state satisfies the invariant. *)
LEMMA HubInit == Init => HubInv
  BY DEF Init, HubInv, TypeOK, RegistryConsistent, DisplacedAreTold, NoEvents, Events

(* Every step keeps it: one case per action. *)
LEMMA HubStep == HubInv /\ [Next]_vars => HubInv'
  <1>. SUFFICES ASSUME HubInv, [Next]_vars PROVE HubInv'
    OBVIOUS
  <1>0. TypeOK /\ RegistryConsistent
    BY DEF HubInv
  <1>1. ASSUME NEW c \in Conns, Register(c) PROVE HubInv'
    <2>0. SubOf[c] \in Identities
      BY HubConstants
    <2>1. bySub' \in [Identities -> SUBSET Conns] /\ bySub'[SubOf[c]] = {c}
          /\ \A i \in Identities : i # SubOf[c] => bySub'[i] = bySub[i]
      BY <1>0, <1>1, <2>0 DEF Register, TypeOK
    <2>2. /\ pc' = [pc EXCEPT ![c] = "tell"] /\ pc[c] = "new" /\ conns' = conns \cup {c}
          /\ UNCHANGED <<fire, subs, life, told, tasks, seen, cancels>>
      BY <1>1 DEF Register, upstream
    <2>3. Displaced(c) \in SUBSET Conns /\ prev' = [prev EXCEPT ![c] = Displaced(c)]
      BY <1>0, <1>1, <2>0 DEF Register, Displaced, TypeOK
    <2>4. TypeOK'
      BY <1>0, <2>0, <2>1, <2>2, <2>3 DEF TypeOK
    <2>5. \A s \in Symbols : subs'[s] \subseteq conns'
      BY <1>0, <2>2 DEF RegistryConsistent
    <2>6. \A i \in Identities : \A d \in bySub'[i] : d \in conns' /\ SubOf[d] = i
      BY <1>0, <2>0, <2>1, <2>2 DEF RegistryConsistent
    <2>7. conns' = {d \in Conns : pc'[d] \notin {"new", "gone"}}
      BY <1>0, <2>2 DEF RegistryConsistent, TypeOK
    <2>8. DisplacedAreTold'
      <3>. SUFFICES ASSUME NEW d \in conns', SubOf[d] \notin Internal, d \notin told',
                           d \notin bySub'[SubOf[d]]
                    PROVE  \E e \in Conns : d \in prev'[e] /\ pc'[e] \in {"tell", "leaked"}
        BY DEF DisplacedAreTold
      <3>1. d # c /\ d \in conns /\ d \in Conns /\ SubOf[d] \in Identities
        BY <1>0, <2>1, <2>2, HubConstants DEF TypeOK
      <3>2. CASE d \in bySub[SubOf[d]]
        <4>1. SubOf[d] = SubOf[c]
          BY <3>1, <3>2, <2>1
        <4>2. d \in Displaced(c)
          BY <4>1, <3>2 DEF Displaced
        <4>. QED BY <4>2, <2>2, <2>3, <1>0 DEF TypeOK
      <3>3. CASE d \notin bySub[SubOf[d]]
        <4>1. PICK e \in Conns : d \in prev[e] /\ pc[e] \in {"tell", "leaked"}
          BY <3>1, <3>3, <1>0, <2>2 DEF RegistryConsistent, DisplacedAreTold
        <4>2. e # c
          BY <4>1, <2>2
        <4>. QED BY <4>1, <4>2, <2>2, <2>3, <1>0 DEF TypeOK
      <3>. QED BY <3>2, <3>3
    <2>. QED BY <2>4, <2>5, <2>6, <2>7, <2>8 DEF HubInv, RegistryConsistent
  <1>10. ASSUME NEW c \in Conns, Tell(c) PROVE HubInv'
    <2>1. /\ UNCHANGED <<fire, conns, bySub, subs, life, tasks, seen, cancels>>
          /\ pc[c] = "tell" /\ \E p \in {"open", "setup"} : pc' = [pc EXCEPT ![c] = p]
          /\ prev' = [prev EXCEPT ![c] = {}] /\ told' = told \cup prev[c]
      BY <1>10 DEF Tell, upstream
    <2>2. TypeOK'
      BY <1>0, <2>1 DEF TypeOK
    <2>3. conns' = {d \in Conns : pc'[d] \notin {"new", "gone"}}
      BY <1>0, <2>1 DEF RegistryConsistent, TypeOK
    <2>4. DisplacedAreTold'
      <3>. SUFFICES ASSUME NEW d \in conns, SubOf[d] \notin Internal, d \notin told \cup prev[c],
                           d \notin bySub[SubOf[d]]
                    PROVE  \E e \in Conns : d \in prev'[e] /\ pc'[e] \in {"tell", "leaked"}
        BY <2>1 DEF DisplacedAreTold
      <3>1. PICK e \in Conns : d \in prev[e] /\ pc[e] \in {"tell", "leaked"}
        BY <1>0 DEF RegistryConsistent, DisplacedAreTold
      <3>2. e # c
        BY <3>1
      <3>. QED BY <3>1, <3>2, <2>1, <1>0 DEF TypeOK
    <2>. QED BY <1>0, <2>1, <2>2, <2>3, <2>4 DEF HubInv, RegistryConsistent
  <1>2. ASSUME NEW c \in Conns, NEW S \in SUBSET Symbols, WsSubscribe(c, S) PROVE HubInv'
    <2>1. AddTo(c, S) /\ UNCHANGED <<pc, prev, conns, bySub, told, tasks, seen, cancels>>
      BY <1>2 DEF WsSubscribe, upstream
    <2>2. TypeOK'
      BY <1>0, <2>1, AddType DEF TypeOK
    <2>3. c \in conns
      BY <1>0, <1>2 DEF WsSubscribe, RegistryConsistent
    <2>4. \A s \in Symbols : subs'[s] \subseteq conns
      BY <1>0, <2>1, <2>3 DEF AddTo, RegistryConsistent
    <2>. QED BY <1>0, <2>1, <2>2, <2>4, SameTold DEF HubInv, RegistryConsistent
  <1>3. ASSUME NEW c \in Conns, NEW S \in SUBSET Symbols, WsUnsubscribe(c, S) PROVE HubInv'
    <2>1. DropFrom(c, S) /\ UNCHANGED <<pc, prev, conns, bySub, life, told, tasks, seen, cancels>>
      BY <1>3 DEF WsUnsubscribe, upstream
    <2>2. TypeOK'
      BY <1>0, <2>1, DropType DEF TypeOK
    <2>4. \A s \in Symbols : subs'[s] \subseteq conns
      BY <1>0, <2>1 DEF DropFrom, RegistryConsistent
    <2>. QED BY <1>0, <2>1, <2>2, <2>4, SameTold DEF HubInv, RegistryConsistent
  <1>4. ASSUME NEW c \in Conns, NEW S \in SUBSET Symbols, SetupSubscribe(c, S) PROVE HubInv'
    <2>1. /\ AddTo(c, S) /\ UNCHANGED <<prev, conns, bySub, told, tasks, seen, cancels>>
          /\ pc[c] = "setup" /\ pc' = [pc EXCEPT ![c] = "asked"]
      BY <1>4 DEF SetupSubscribe, upstream
    <2>2. TypeOK'
      BY <1>0, <2>1, AddType DEF TypeOK
    <2>3. c \in conns
      BY <1>0, <2>1 DEF RegistryConsistent
    <2>4. \A s \in Symbols : subs'[s] \subseteq conns
      BY <1>0, <2>1, <2>3 DEF AddTo, RegistryConsistent
    <2>5. conns' = {d \in Conns : pc'[d] \notin {"new", "gone"}}
      BY <1>0, <2>1 DEF RegistryConsistent, TypeOK
    <2>6. \A d \in Conns : pc[d] \in {"tell", "leaked"} => pc'[d] = pc[d]
      BY <1>0, <2>1 DEF TypeOK
    <2>. QED BY <1>0, <2>1, <2>2, <2>4, <2>5, <2>6, SameTold DEF HubInv, RegistryConsistent
  <1>5. ASSUME NEW c \in Conns, StreamOpens(c) \/ Close(c) \/ CancelSetup(c) PROVE HubInv'
    <2>1. /\ UNCHANGED <<prev, conns, bySub, subs, life, told, tasks, seen>>
          /\ pc[c] \in {"tell", "setup", "asked", "open"}
          /\ \E p \in {"open", "closed", "leaked"} :
               pc' = [pc EXCEPT ![c] = p] /\ (pc[c] = "tell" => p = "leaked")
          /\ fire' \in [Conns -> SUBSET Events]
          /\ cancels' \in Nat
      BY <1>0, <1>5 DEF StreamOpens, Close, CancelSetup, index, upstream, TypeOK
    <2>2. TypeOK'
      BY <1>0, <2>1 DEF TypeOK
    <2>3. conns' = {d \in Conns : pc'[d] \notin {"new", "gone"}}
      BY <1>0, <2>1 DEF RegistryConsistent, TypeOK
    <2>4. \A d \in Conns : pc[d] \in {"tell", "leaked"} => pc'[d] \in {"tell", "leaked"}
      BY <1>0, <2>1 DEF TypeOK
    <2>. QED BY <1>0, <2>1, <2>2, <2>3, <2>4, SameTold DEF HubInv, RegistryConsistent
  <1>6. ASSUME NEW c \in Conns, Unregister(c) PROVE HubInv'
    <2>0. SubOf[c] \in Identities
      BY HubConstants
    <2>1. /\ DropFrom(c, Symbols) /\ UNCHANGED <<prev, life, told, tasks, seen, cancels>>
          /\ pc[c] = "closed" /\ pc' = [pc EXCEPT ![c] = "gone"] /\ conns' = conns \ {c}
      BY <1>6 DEF Unregister, upstream
    <2>2. \A i \in Identities : bySub'[i] = IF i = SubOf[c] THEN bySub[i] \ {c} ELSE bySub[i]
      BY <1>0, <1>6, <2>0 DEF Unregister, TypeOK
    <2>3. bySub' \in [Identities -> SUBSET Conns]
      BY <1>0, <1>6, <2>0 DEF Unregister, TypeOK
    <2>4. TypeOK'
      <3>1. subs' \in [Symbols -> SUBSET Conns] /\ fire' \in [Conns -> SUBSET Events]
        BY <1>0, <2>1, DropType
      <3>2. \A i \in Identities : \A d, e \in bySub'[i] : d = e
        <4>1. \A i \in Identities : bySub'[i] \subseteq bySub[i]
          BY <2>2
        <4>2. \A i \in Identities : \A d, e \in bySub[i] : d = e
          BY <1>0 DEF TypeOK
        <4>. QED BY <4>1, <4>2
      <3>. QED BY <1>0, <2>1, <2>3, <3>1, <3>2 DEF TypeOK
    <2>5. \A s \in Symbols : subs'[s] \subseteq conns'
      BY <1>0, <2>1 DEF DropFrom, RegistryConsistent
    <2>6. \A i \in Identities : \A d \in bySub'[i] : d \in conns' /\ SubOf[d] = i
      <3>. SUFFICES ASSUME NEW i \in Identities, NEW d \in bySub'[i]
                    PROVE  d \in conns' /\ SubOf[d] = i
        OBVIOUS
      <3>1. d \in bySub[i] /\ (i = SubOf[c] => d # c)
        BY <2>2
      <3>2. d \in conns /\ SubOf[d] = i
        BY <1>0, <3>1 DEF RegistryConsistent
      <3>3. d # c
        BY <3>1, <3>2
      <3>. QED BY <2>1, <3>2, <3>3
    <2>7. conns' = {d \in Conns : pc'[d] \notin {"new", "gone"}}
      BY <1>0, <2>1 DEF RegistryConsistent, TypeOK
    <2>8. \A d \in Conns : pc[d] \in {"tell", "leaked"} => pc'[d] = pc[d]
      BY <1>0, <2>1 DEF TypeOK
    <2>9. \A d \in conns' : d \in bySub[SubOf[d]] => d \in bySub'[SubOf[d]]
      <3>1. \A d \in conns' : d # c /\ SubOf[d] \in Identities
        BY <1>0, <2>1, HubConstants DEF TypeOK
      <3>. QED BY <3>1, <2>2
    <2>10. DisplacedAreTold'
      BY <1>0, <2>1, <2>8, <2>9 DEF DisplacedAreTold, RegistryConsistent
    <2>. QED BY <2>4, <2>5, <2>6, <2>7, <2>10 DEF HubInv, RegistryConsistent
  <1>7. ASSUME NEW c \in Conns, NEW e \in Events, FireDemand(c, e) PROVE HubInv'
    <2>1. /\ fire' \in [Conns -> SUBSET Events] /\ tasks' \in [Events -> Nat]
          /\ UNCHANGED <<pc, prev, conns, bySub, subs, life, told, seen, cancels>>
      BY <1>0, <1>7 DEF FireDemand, index, TypeOK
    <2>. QED BY <1>0, <2>1, SameTold DEF HubInv, TypeOK, RegistryConsistent
  <1>8. ASSUME NEW e \in Events, ListenerRuns(e) PROVE HubInv'
    <2>1. /\ tasks' \in [Events -> Nat] /\ seen' \in [Events -> Nat]
          /\ UNCHANGED <<pc, prev, fire, conns, bySub, subs, life, told, cancels>>
      BY <1>0, <1>8 DEF ListenerRuns, index, TypeOK
    <2>. QED BY <1>0, <2>1, SameTold DEF HubInv, TypeOK, RegistryConsistent
  <1>9. CASE UNCHANGED vars
    BY <1>0, <1>9, SameTold DEF vars, HubInv, TypeOK, RegistryConsistent
  <1>. QED
    BY <1>1, <1>2, <1>3, <1>4, <1>5, <1>6, <1>7, <1>8, <1>9, <1>10
    DEF Next, ConnStep, ClientStep

(* subs_by_symbol and connections_by_sub never name a connection that is   *)
(* not registered, and a connection is registered exactly from register to *)
(* unregister: takeovers and disconnects in any order leave no residue,    *)
(* and displace nobody in silence.                                         *)
THEOREM RegistrySafe == Spec => []RegistryConsistent
  <1>1. HubInv => RegistryConsistent
    BY DEF HubInv
  <1>. QED BY <1>1, HubInit, HubStep, PTL DEF Spec
-----------------------------------------------------------------------------
(* Demand *)

Claim(s) == <<s, TRUE>>
Release(s) == <<s, FALSE>>

LEMMA EventsApart ==
    /\ \A s \in Symbols : Claim(s) \in Events /\ Release(s) \in Events
    /\ \A s, t : Claim(s) # Release(t)
    /\ \A s, t : Claim(s) = Claim(t) => s = t
    /\ \A s, t : Release(s) = Release(t) => s = t
  <1>1. TRUE # FALSE
    OBVIOUS
  <1>2. \A s, t : Claim(s) # Release(t)
    BY <1>1, Zenon DEF Claim, Release
  <1>. QED BY <1>2, Zenon DEF Claim, Release, Events

(* Who has decided an event and not fired it yet. *)
Pending(e) == {c \in Conns : e \in fire[c]}

(* A connection has events to fire only after a subscribe, an unsubscribe  *)
(* or an unregister.                                                       *)
NothingToFire == \A c \in Conns : pc[c] \in {"new", "tell", "setup", "closed"} => fire[c] = {}

Balanced ==
    cancels = 0 => \A s \in Symbols :
        Owed(Claim(s)) = Owed(Release(s)) + (IF subs[s] = {} THEN 0 ELSE 1)

DemandInv == TypeOK /\ NothingToFire /\ Balanced

(* The number of those who have an event to fire follows the change of one *)
(* connection's set.                                                       *)
LEMMA PendingStep ==
    ASSUME IsFiniteSet(Conns), TypeOK, NEW c \in Conns, NEW F \in SUBSET Events,
           fire' = [fire EXCEPT ![c] = F], NEW e
    PROVE  /\ Cardinality(Pending(e)) \in Nat /\ Cardinality(Pending(e)') \in Nat
           /\ (e \in F <=> e \in fire[c]) => Cardinality(Pending(e)') = Cardinality(Pending(e))
           /\ e \in F /\ e \notin fire[c]
                => Cardinality(Pending(e)') = Cardinality(Pending(e)) + 1
           /\ e \notin F /\ e \in fire[c]
                => Cardinality(Pending(e)') = Cardinality(Pending(e)) - 1
  <1>. DEFINE P == Pending(e)
              Q == {d \in Conns : e \in fire'[d]}
  <1>1. /\ P \in SUBSET Conns /\ Q \in SUBSET Conns /\ Q = Pending(e)'
    BY DEF Pending
  <1>2. /\ IsFiniteSet(P) /\ IsFiniteSet(Q)
        /\ Cardinality(P) \in Nat /\ Cardinality(Q) \in Nat
    <2>. HIDE DEF P, Q
    <2>. QED BY <1>1, FS_Subset, FS_CardinalityType
  <1>3. /\ c \in Q <=> e \in F
        /\ c \in P <=> e \in fire[c]
        /\ \A d \in Conns \ {c} : d \in Q <=> d \in P
    BY DEF TypeOK, Pending
  <1>. HIDE DEF P, Q
  <1>4. CASE e \in F <=> e \in fire[c]
    <2>1. P = Q
      BY <1>1, <1>3, <1>4
    <2>. QED BY <1>1, <1>2, <1>4, <2>1 DEF P
  <1>5. CASE e \in F /\ e \notin fire[c]
    <2>1. Q = P \cup {c} /\ c \notin P
      BY <1>1, <1>3, <1>5
    <2>2. Cardinality(Q) = Cardinality(P) + 1
      BY <1>2, <2>1, FS_AddElement
    <2>. QED BY <1>1, <1>2, <1>5, <2>2 DEF P
  <1>6. CASE e \notin F /\ e \in fire[c]
    <2>1. Q = P \ {c} /\ c \in P
      BY <1>1, <1>3, <1>6
    <2>2. Cardinality(Q) = Cardinality(P) - 1
      BY <1>2, <2>1, FS_RemoveElement
    <2>. QED BY <1>1, <1>2, <1>6, <2>2 DEF P
  <1>. QED BY <1>4, <1>5, <1>6

(* A subscribe decides to claim just the symbols that get their first      *)
(* subscriber.                                                             *)
LEMMA AddBalances ==
    ASSUME IsFiniteSet(Conns), DemandInv, NEW c \in Conns, NEW S \in SUBSET Symbols,
           fire[c] = {}, AddTo(c, S), UNCHANGED <<tasks, seen, cancels>>
    PROVE  Balanced'
  <1>. DEFINE F == NewDemand(c, S)
  <1>1. /\ TypeOK /\ F \in SUBSET Events /\ fire' = [fire EXCEPT ![c] = F]
    <2>1. F \in SUBSET Events
      BY EventsApart DEF NewDemand, Claim
    <2>. QED BY <2>1 DEF DemandInv, AddTo
  <1>. SUFFICES ASSUME cancels' = 0, NEW s \in Symbols
                PROVE  Owed(Claim(s))' = Owed(Release(s))' + (IF subs'[s] = {} THEN 0 ELSE 1)
    BY DEF Balanced, Claim, Release
  <1>2. Owed(Claim(s)) = Owed(Release(s)) + (IF subs[s] = {} THEN 0 ELSE 1)
    BY DEF DemandInv, Balanced
  <1>3. /\ Claim(s) \in F <=> s \in S /\ subs[s] = {}
        /\ Release(s) \notin F
    <2>1. F = {Claim(t) : t \in {u \in S : subs[u] = {}}}
      BY DEF NewDemand, Claim
    <2>. HIDE DEF F
    <2>. QED BY <2>1, EventsApart
  <1>4. subs'[s] = {} <=> subs[s] = {} /\ s \notin S
    BY <1>1 DEF TypeOK, AddTo
  <1>. HIDE DEF F
  <1>5. /\ Cardinality(Pending(Release(s))') = Cardinality(Pending(Release(s)))
        /\ Claim(s) \notin F =>
             Cardinality(Pending(Claim(s))') = Cardinality(Pending(Claim(s)))
        /\ Claim(s) \in F =>
             Cardinality(Pending(Claim(s))') = Cardinality(Pending(Claim(s))) + 1
        /\ Cardinality(Pending(Claim(s))) \in Nat /\ Cardinality(Pending(Release(s))) \in Nat
    BY <1>1, <1>3, PendingStep
  <1>6. /\ tasks[Claim(s)] \in Nat /\ tasks[Release(s)] \in Nat
        /\ seen[Claim(s)] \in Nat /\ seen[Release(s)] \in Nat
    BY <1>1, EventsApart DEF TypeOK
  <1>7. \A e : /\ Owed(e) = Cardinality(Pending(e)) + tasks[e] + seen[e]
               /\ Owed(e)' = Cardinality(Pending(e)') + tasks[e] + seen[e]
    BY DEF Owed, Pending
  <1>. QED BY <1>2, <1>3, <1>4, <1>5, <1>6, <1>7

(* An unsubscribe or an unregister decides to release just the symbols     *)
(* that lose their last subscriber.                                        *)
LEMMA DropBalances ==
    ASSUME IsFiniteSet(Conns), DemandInv, NEW c \in Conns, NEW S \in SUBSET Symbols,
           fire[c] = {}, DropFrom(c, S), UNCHANGED <<tasks, seen, cancels>>
    PROVE  Balanced'
  <1>. DEFINE F == EndedDemand(c, S)
  <1>1. /\ TypeOK /\ F \in SUBSET Events /\ fire' = [fire EXCEPT ![c] = F]
    <2>1. F \in SUBSET Events
      BY EventsApart DEF EndedDemand, Release
    <2>. QED BY <2>1 DEF DemandInv, DropFrom
  <1>. SUFFICES ASSUME cancels' = 0, NEW s \in Symbols
                PROVE  Owed(Claim(s))' = Owed(Release(s))' + (IF subs'[s] = {} THEN 0 ELSE 1)
    BY DEF Balanced, Claim, Release
  <1>2. Owed(Claim(s)) = Owed(Release(s)) + (IF subs[s] = {} THEN 0 ELSE 1)
    BY DEF DemandInv, Balanced
  <1>3. /\ Release(s) \in F <=> s \in S /\ subs[s] = {c}
        /\ Claim(s) \notin F
    <2>1. F = {Release(t) : t \in {u \in S : subs[u] = {c}}}
      BY DEF EndedDemand, Release
    <2>. HIDE DEF F
    <2>. QED BY <2>1, EventsApart
  <1>4. /\ Release(s) \in F => subs[s] # {} /\ subs'[s] = {}
        /\ Release(s) \notin F => (subs'[s] = {} <=> subs[s] = {})
    <2>1. subs'[s] = IF s \in S THEN subs[s] \ {c} ELSE subs[s]
      BY DEF DropFrom
    <2>. HIDE DEF F
    <2>. QED BY <1>3, <2>1
  <1>. HIDE DEF F
  <1>5. /\ Cardinality(Pending(Claim(s))') = Cardinality(Pending(Claim(s)))
        /\ Release(s) \notin F =>
             Cardinality(Pending(Release(s))') = Cardinality(Pending(Release(s)))
        /\ Release(s) \in F =>
             Cardinality(Pending(Release(s))') = Cardinality(Pending(Release(s))) + 1
        /\ Cardinality(Pending(Claim(s))) \in Nat /\ Cardinality(Pending(Release(s))) \in Nat
    BY <1>1, <1>3, PendingStep
  <1>6. /\ tasks[Claim(s)] \in Nat /\ tasks[Release(s)] \in Nat
        /\ seen[Claim(s)] \in Nat /\ seen[Release(s)] \in Nat
    BY <1>1, EventsApart DEF TypeOK
  <1>7. \A e : /\ Owed(e) = Cardinality(Pending(e)) + tasks[e] + seen[e]
               /\ Owed(e)' = Cardinality(Pending(e)') + tasks[e] + seen[e]
    BY DEF Owed, Pending
  <1>. QED BY <1>2, <1>4, <1>5, <1>6, <1>7

(* An event that moves on, from its connection to its task and from there  *)
(* to the upstream, stays owed once.                                       *)
LEMMA MoveBalances ==
    ASSUME IsFiniteSet(Conns), DemandInv, NEW e \in Events,
           (\E c \in Conns : FireDemand(c, e)) \/ ListenerRuns(e)
    PROVE  Balanced'
  <1>1. TypeOK
    BY DEF DemandInv
  <1>2. UNCHANGED <<subs, cancels>>
    BY DEF FireDemand, ListenerRuns, index
  <1>3. ASSUME NEW x \in Events PROVE Owed(x)' = Owed(x)
    <2>1. tasks[x] \in Nat /\ seen[x] \in Nat
      BY <1>1 DEF TypeOK
    <2>2. ASSUME NEW c \in Conns, FireDemand(c, e) PROVE Owed(x)' = Owed(x)
      <3>. DEFINE F == fire[c] \ {e}
      <3>1. /\ F \in SUBSET Events /\ fire' = [fire EXCEPT ![c] = F] /\ e \in fire[c]
            /\ tasks' = [tasks EXCEPT ![e] = @ + 1] /\ seen' = seen
        BY <1>1, <2>2 DEF TypeOK, FireDemand
      <3>2. /\ x # e => (x \in F <=> x \in fire[c])
            /\ x = e => x \notin F /\ x \in fire[c]
        BY <3>1
      <3>3. tasks'[x] = IF x = e THEN tasks[x] + 1 ELSE tasks[x]
        BY <1>1, <3>1 DEF TypeOK
      <3>. HIDE DEF F
      <3>4. /\ Cardinality(Pending(x)) \in Nat
            /\ x # e => Cardinality(Pending(x)') = Cardinality(Pending(x))
            /\ x = e => Cardinality(Pending(x)') = Cardinality(Pending(x)) - 1
        BY <1>1, <3>1, <3>2, PendingStep
      <3>5. /\ Owed(x) = Cardinality(Pending(x)) + tasks[x] + seen[x]
            /\ Owed(x)' = Cardinality(Pending(x)') + tasks'[x] + seen[x]
        BY <3>1 DEF Owed, Pending
      <3>. QED BY <2>1, <3>3, <3>4, <3>5
    <2>3. ASSUME ListenerRuns(e) PROVE Owed(x)' = Owed(x)
      <3>. DEFINE n == Cardinality(Pending(x))
      <3>1. n \in Nat
        <4>1. Pending(x) \in SUBSET Conns
          BY DEF Pending
        <4>. QED BY <4>1, FS_Subset, FS_CardinalityType
      <3>2. /\ tasks'[x] = IF x = e THEN tasks[x] - 1 ELSE tasks[x]
            /\ seen'[x] = IF x = e THEN seen[x] + 1 ELSE seen[x]
        BY <1>1, <2>3 DEF TypeOK, ListenerRuns
      <3>3. Owed(x) = n + tasks[x] + seen[x] /\ Owed(x)' = n + tasks'[x] + seen'[x]
        BY <2>3 DEF Owed, Pending, ListenerRuns
      <3>. HIDE DEF n
      <3>. QED BY <2>1, <3>1, <3>2, <3>3
    <2>. QED BY <2>2, <2>3
  <1>. QED BY <1>2, <1>3, EventsApart DEF DemandInv, Balanced

(* Every other step leaves the books alone, or drops events and is counted. *)
LEMMA StillBalanced ==
    ASSUME DemandInv, UNCHANGED <<fire, subs, tasks, seen, cancels>>
    PROVE  Balanced'
  BY DEF DemandInv, Balanced, Owed

LEMMA DemandStep ==
    ASSUME IsFiniteSet(Conns), HubInv, DemandInv, [Next]_vars, TypeOK'
    PROVE  DemandInv'
  <1>0. TypeOK /\ NothingToFire
    BY DEF DemandInv
  <1>1. ASSUME NEW c \in Conns, Register(c) \/ Tell(c) \/ StreamOpens(c) \/ Close(c)
        PROVE  DemandInv'
    <2>1. UNCHANGED <<fire, subs, tasks, seen, cancels>>
      BY <1>1 DEF Register, Tell, StreamOpens, Close, index, upstream
    <2>2. /\ fire[c] = {} \/ pc'[c] \notin {"new", "tell", "setup", "closed"}
          /\ \A d \in Conns \ {c} : pc'[d] = pc[d]
      BY <1>0, <1>1 DEF Register, Tell, StreamOpens, Close, TypeOK, NothingToFire
    <2>3. NothingToFire'
      BY <1>0, <2>1, <2>2 DEF NothingToFire
    <2>. QED BY <2>1, <2>3, StillBalanced DEF DemandInv
  <1>2. ASSUME NEW c \in Conns, NEW S \in SUBSET Symbols,
               SetupSubscribe(c, S) \/ WsSubscribe(c, S)
        PROVE  DemandInv'
    <2>1. /\ fire[c] = {} /\ AddTo(c, S) /\ UNCHANGED <<tasks, seen, cancels>>
          /\ pc'[c] \in {"asked", "open"} /\ \A d \in Conns \ {c} : pc'[d] = pc[d]
      BY <1>0, <1>2 DEF SetupSubscribe, WsSubscribe, TypeOK, NothingToFire, upstream
    <2>2. \A d \in Conns \ {c} : fire'[d] = fire[d]
      BY <1>0, <2>1 DEF AddTo, TypeOK
    <2>3. NothingToFire'
      BY <1>0, <2>1, <2>2 DEF NothingToFire
    <2>. QED BY <2>1, <2>3, AddBalances DEF DemandInv
  <1>3. ASSUME NEW c \in Conns, NEW S \in SUBSET Symbols,
               WsUnsubscribe(c, S) \/ (Unregister(c) /\ S = Symbols)
        PROVE  DemandInv'
    <2>1. /\ fire[c] = {} /\ DropFrom(c, S) /\ UNCHANGED <<tasks, seen, cancels>>
          /\ pc'[c] \in {"gone", "open"} /\ \A d \in Conns \ {c} : pc'[d] = pc[d]
      BY <1>0, <1>3 DEF WsUnsubscribe, Unregister, TypeOK, NothingToFire, upstream
    <2>2. \A d \in Conns \ {c} : fire'[d] = fire[d]
      BY <1>0, <2>1 DEF DropFrom, TypeOK
    <2>3. NothingToFire'
      BY <1>0, <2>1, <2>2 DEF NothingToFire
    <2>. QED BY <2>1, <2>3, DropBalances DEF DemandInv
  <1>4. ASSUME NEW c \in Conns, CancelSetup(c) PROVE DemandInv'
    <2>1. /\ cancels' = cancels + 1 /\ cancels \in Nat
          /\ pc' = [pc EXCEPT ![c] = "leaked"] /\ fire' = [fire EXCEPT ![c] = {}]
      BY <1>0, <1>4 DEF CancelSetup, TypeOK
    <2>2. Balanced'
      BY <2>1 DEF Balanced
    <2>3. NothingToFire'
      BY <1>0, <2>1 DEF NothingToFire, TypeOK
    <2>. QED BY <2>2, <2>3 DEF DemandInv
  <1>5. ASSUME NEW e \in Events, (\E c \in Conns : FireDemand(c, e)) \/ ListenerRuns(e)
        PROVE  DemandInv'
    <2>1. pc' = pc /\ \A d \in Conns : fire[d] = {} => fire'[d] = {}
      BY <1>0, <1>5 DEF FireDemand, ListenerRuns, TypeOK
    <2>2. NothingToFire'
      BY <1>0, <2>1 DEF NothingToFire
    <2>. QED BY <1>5, <2>2, MoveBalances DEF DemandInv
  <1>6. CASE UNCHANGED vars
    <2>1. UNCHANGED <<pc, fire, subs, tasks, seen, cancels>>
      BY <1>6 DEF vars
    <2>. QED BY <1>0, <2>1, StillBalanced DEF DemandInv, NothingToFire
  <1>. QED
    BY <1>1, <1>2, <1>3, <1>4, <1>5, <1>6 DEF Next, ConnStep, ClientStep

(* fire_demand loses no event and repeats none while no SSE request is      *)
(* dropped half-way: claims and releases of a symbol, those still on their  *)
(* way counted, differ by one exactly while it has a subscriber.            *)
THEOREM DemandIsSound ==
    ASSUME IsFiniteSet(Conns)
    PROVE  Spec => []DemandSound
  <1>1. Init => HubInv /\ DemandInv
    <2>. SUFFICES ASSUME Init PROVE DemandInv
      BY HubInit
    <2>1. TypeOK /\ NothingToFire
      BY HubInit DEF HubInv, Init, NothingToFire
    <2>2. \A e \in Events : Owed(e) = 0
      <3>1. \A e \in Events : {c \in Conns : e \in fire[c]} = {} /\ tasks[e] = 0 /\ seen[e] = 0
        BY DEF Init, NoEvents
      <3>. QED BY <3>1, FS_EmptySet DEF Owed
    <2>3. Balanced
      BY <2>2, EventsApart DEF Balanced, Init
    <2>. QED BY <2>1, <2>3 DEF DemandInv
  <1>2. HubInv /\ DemandInv /\ [Next]_vars => (HubInv /\ DemandInv)'
    <2>. SUFFICES ASSUME HubInv, DemandInv, [Next]_vars PROVE HubInv' /\ DemandInv'
      OBVIOUS
    <2>1. HubInv' /\ TypeOK'
      BY HubStep DEF HubInv
    <2>. QED BY <2>1, DemandStep
  <1>3. DemandInv => DemandSound
    BY DEF DemandInv, Balanced, DemandSound, DemandBalanced, Claim, Release
  <1>. QED BY <1>1, <1>2, <1>3, PTL DEF Spec
-----------------------------------------------------------------------------
(* The queue of one of the connections, for any bound of it, any number of *)
(* ticks, heartbeats and replies, and any order of pushes and drains: it   *)
(* keeps within its bound, loses its oldest frames only and counts them.   *)

(* q is the newest part of p, frame by frame. *)
Newest(q, p) ==
    /\ Len(q) <= Len(p)
    /\ \A i \in 1 .. Len(q) : q[i] = p[Len(p) - Len(q) + i]

(* Every frame is in the queue, was drained or was counted as dropped. *)
QueueSteady ==
    /\ QueueTypeOK
    /\ Len(pushed) = taken + dropped + Len(queue)
    /\ Newest(queue, pushed)

(* One frame more on both. *)
LEMMA NewestAppend ==
    ASSUME NEW q \in Seq(Frames), NEW p \in Seq(Frames), NEW f \in Frames, Newest(q, p)
    PROVE  Newest(Append(q, f), Append(p, f))
  <1>. DEFINE a == Append(q, f)
              b == Append(p, f)
  <1>1. /\ Len(q) \in Nat /\ Len(p) \in Nat
        /\ Len(a) = Len(q) + 1 /\ Len(b) = Len(p) + 1
        /\ \A i \in 1 .. Len(q) : a[i] = q[i]
        /\ \A i \in 1 .. Len(p) : b[i] = p[i]
        /\ a[Len(q) + 1] = f /\ b[Len(p) + 1] = f
    BY AppendProperties, LenProperties
  <1>2. Len(q) <= Len(p) /\ \A i \in 1 .. Len(q) : q[i] = p[Len(p) - Len(q) + i]
    BY DEF Newest
  <1>. HIDE DEF a, b
  <1>3. Len(a) <= Len(b)
    BY <1>1, <1>2
  <1>4. ASSUME NEW i \in 1 .. Len(a) PROVE a[i] = b[Len(b) - Len(a) + i]
    <2>1. CASE i = Len(q) + 1
      BY <1>1, <2>1
    <2>2. CASE i # Len(q) + 1
      <3>1. i \in 1 .. Len(q) /\ Len(p) - Len(q) + i \in 1 .. Len(p)
        BY <1>1, <1>2, <2>2
      <3>2. Len(b) - Len(a) + i = Len(p) - Len(q) + i
        BY <1>1
      <3>. QED BY <1>1, <1>2, <3>1, <3>2
    <2>. QED BY <2>1, <2>2
  <1>5. Newest(a, b)
    BY <1>3, <1>4 DEF Newest
  <1>. QED BY <1>5 DEF a, b

(* The oldest frame of the queue goes. *)
LEMMA NewestTail ==
    ASSUME NEW q \in Seq(Frames), NEW p \in Seq(Frames), q # << >>, Newest(q, p)
    PROVE  Tail(q) \in Seq(Frames) /\ Len(Tail(q)) = Len(q) - 1 /\ Newest(Tail(q), p)
  <1>. DEFINE t == Tail(q)
  <1>1. /\ t \in Seq(Frames) /\ Len(t) = Len(q) - 1 /\ Len(q) \in Nat /\ Len(p) \in Nat
        /\ Len(t) \in Nat
        /\ \A i \in 1 .. Len(t) : t[i] = q[i + 1]
    BY HeadTailProperties, LenProperties
  <1>2. Len(q) <= Len(p) /\ \A i \in 1 .. Len(q) : q[i] = p[Len(p) - Len(q) + i]
    BY DEF Newest
  <1>. HIDE DEF t
  <1>3. ASSUME NEW i \in 1 .. Len(t) PROVE t[i] = p[Len(p) - Len(t) + i]
    <2>1. i + 1 \in 1 .. Len(q) /\ Len(p) - Len(q) + (i + 1) = Len(p) - Len(t) + i
      BY <1>1
    <2>. QED BY <1>1, <1>2, <2>1
  <1>4. Newest(t, p)
    BY <1>1, <1>2, <1>3 DEF Newest
  <1>. QED BY <1>1, <1>4 DEF t

(* Connection::push keeps the bound and the books: on overflow one frame    *)
(* goes for the one that comes, and no room is left for a warning.         *)
LEMMA PushKeeps ==
    ASSUME QueueSteady, NEW f \in Frames, Push(f)
    PROVE  /\ queue' \in Seq(Frames) /\ Len(queue') <= MaxQueue
           /\ pushed' \in Seq(Frames)
           /\ dropped' \in Nat /\ owed' \in Nat /\ due' \in BOOLEAN
           /\ Len(pushed') = taken + dropped' + Len(queue')
           /\ Newest(queue', pushed')
  <1>a. /\ queue \in Seq(Frames) /\ pushed \in Seq(Frames) /\ Len(queue) <= MaxQueue
        /\ dropped \in Nat /\ owed \in Nat /\ taken \in Nat /\ due \in BOOLEAN
        /\ Len(queue) \in Nat /\ Len(pushed) \in Nat
        /\ Len(pushed) = taken + dropped + Len(queue) /\ Newest(queue, pushed)
    BY LenProperties DEF QueueSteady, QueueTypeOK
  <1>b. /\ Append(pushed, f) \in Seq(Frames) /\ Len(Append(pushed, f)) = Len(pushed) + 1
        /\ Append(queue, f) \in Seq(Frames) /\ Len(Append(queue, f)) = Len(queue) + 1
    BY <1>a, AppendProperties
  <1>c. owed' \in Nat
    BY <1>a DEF Push
  <1>1. CASE Len(queue) < MaxQueue
    <2>1. queue' = Append(queue, f) /\ pushed' = Append(pushed, f) /\ UNCHANGED <<dropped, due>>
      BY <1>1 DEF Push
    <2>2. Newest(queue', pushed')
      BY <1>a, <2>1, NewestAppend
    <2>3. Len(queue') <= MaxQueue
      BY <1>1, <1>a, <1>b, <2>1, QueueConstants
    <2>. QED BY <1>a, <1>b, <1>c, <2>1, <2>2, <2>3
  <1>2. CASE ~(Len(queue) < MaxQueue)
    <2>. DEFINE q == Append(Tail(queue), f)
                warning == IF due /\ Len(q) < MaxQueue THEN <<SlowClient>> ELSE << >>
    <2>1. Len(queue) = MaxQueue /\ queue # << >>
      BY <1>2, <1>a, QueueConstants, EmptySeq
    <2>2. /\ Tail(queue) \in Seq(Frames) /\ Len(Tail(queue)) = Len(queue) - 1
          /\ Newest(Tail(queue), pushed)
      BY <1>a, <2>1, NewestTail
    <2>3. q \in Seq(Frames) /\ Len(q) = MaxQueue
      <3>1. q \in Seq(Frames) /\ Len(q) = Len(Tail(queue)) + 1
        BY <2>2, AppendProperties
      <3>. QED BY <2>1, <2>2, <3>1
    <2>4. Newest(q, Append(pushed, f))
      BY <1>a, <2>2, NewestAppend
    <2>5. warning = << >>
      BY <2>3
    <2>6. /\ queue' = q \o warning /\ pushed' = Append(pushed, f) \o warning
          /\ dropped' = dropped + 1 /\ due' = FALSE
      BY <1>2 DEF Push
    <2>. HIDE DEF q, warning
    <2>7. queue' = q /\ pushed' = Append(pushed, f)
      BY <1>b, <2>3, <2>5, <2>6, ConcatEmptySeq
    <2>8. Len(pushed') = taken + dropped' + Len(queue')
      <3>1. Len(pushed') = Len(pushed) + 1 /\ Len(queue') = Len(queue)
        BY <1>b, <2>1, <2>3, <2>7
      <3>2. dropped' = dropped + 1
        BY <2>6
      <3>3. /\ taken \in Nat /\ dropped \in Nat /\ Len(queue) \in Nat
            /\ Len(pushed) = taken + dropped + Len(queue)
        BY <1>a
      <3>. QED BY <3>1, <3>2, <3>3
    <2>9. Len(queue') <= MaxQueue /\ dropped' \in Nat /\ due' \in BOOLEAN
      <3>1. Len(queue') = MaxQueue /\ MaxQueue \in Nat
        BY <2>3, <2>7
      <3>2. Len(queue') <= MaxQueue
        BY <3>1
      <3>3. dropped \in Nat /\ dropped' = dropped + 1 /\ due' = FALSE
        BY <1>a, <2>6
      <3>4. dropped' \in Nat
        BY <3>3
      <3>5. due' \in BOOLEAN
        BY <3>3
      <3>. QED BY <3>2, <3>4, <3>5
    <2>10. queue' \in Seq(Frames) /\ pushed' \in Seq(Frames) /\ Newest(queue', pushed')
      BY <1>b, <2>3, <2>4, <2>7
    <2>. QED BY <1>c, <2>8, <2>9, <2>10
  <1>. QED BY <1>1, <1>2

(* A step that leaves the queue alone leaves its books alone. *)
LEMMA QueueStays ==
    ASSUME QueueSteady, QueueTypeOK', UNCHANGED <<queue, dropped, pushed, taken>>
    PROVE  QueueSteady'
  BY DEF QueueSteady, Newest

(* A fresh connection has pushed nothing. *)
LEMMA QueueStarts == QueueInit => QueueSteady
  <1>. SUFFICES ASSUME QueueInit PROVE QueueSteady
    OBVIOUS
  <1>1. << >> \in Seq(Frames) /\ Len(<< >>) = 0
    BY EmptySeq
  <1>2. QueueTypeOK
    <2>1. sender \in {"off", "drain"}
      BY DEF QueueInit
    <2>2. /\ queue \in Seq(Frames) /\ Len(queue) <= MaxQueue /\ pushed \in Seq(Frames)
      <3>1. queue = << >> /\ pushed = << >>
        BY DEF QueueInit
      <3>2. 0 <= MaxQueue
        BY QueueConstants
      <3>. QED BY <1>1, <3>1, <3>2
    <2>. QED BY <2>1, <2>2 DEF QueueInit, QueueTypeOK
  <1>3. Newest(queue, pushed)
    BY <1>1 DEF QueueInit, Newest
  <1>. QED BY <1>1, <1>2, <1>3 DEF QueueInit, QueueSteady

(* No step leaves the invariant. *)
LEMMA QueueStep == QueueSteady /\ [QueueNext]_connVars => QueueSteady'
  <1>. SUFFICES ASSUME QueueSteady, [QueueNext]_connVars PROVE QueueSteady'
    OBVIOUS
  <1>a. QueueTypeOK /\ Len(queue) \in Nat /\ Len(pushed) \in Nat
    BY LenProperties DEF QueueSteady, QueueTypeOK
  <1>f. ASSUME NEW k \in {"tick", "cache", "subscribed", "heartbeat", "reply"}, NEW n \in Nat
        PROVE  Frame(k, n) \in Frames
    BY DEF Frame, Frames
  <1>p. ASSUME NEW f \in Frames, Push(f), UNCHANGED transport,
               stash' \in Nat, feed' \in Nat, fetched' \in Nat, ticks' \in Nat, beats' \in Nat,
               sub' \in {"none", "indexed", "fetched", "replayed", "replied"}
        PROVE  QueueSteady'
    <2>1. /\ queue' \in Seq(Frames) /\ Len(queue') <= MaxQueue
          /\ pushed' \in Seq(Frames)
          /\ dropped' \in Nat /\ owed' \in Nat /\ due' \in BOOLEAN
          /\ Len(pushed') = taken + dropped' + Len(queue')
          /\ Newest(queue', pushed')
      BY <1>p, PushKeeps
    <2>2. taken' = taken /\ kind' = kind /\ permit' = permit /\ sender' = sender
      BY <1>p DEF transport
    <2>3. QueueTypeOK'
      BY <1>a, <1>p, <2>1, <2>2 DEF QueueTypeOK
    <2>. QED BY <2>1, <2>2, <2>3 DEF QueueSteady
  <1>1. CASE Drain
    <2>1. /\ queue' = << >> /\ taken' = taken + Len(queue)
          /\ UNCHANGED <<dropped, pushed>>
      BY <1>1 DEF Drain
    <2>2. << >> \in Seq(Frames) /\ Len(<< >>) = 0
      BY EmptySeq
    <2>3. sender' \in {"empty", "send"}
      BY <1>1 DEF Drain
    <2>4. taken' \in Nat /\ Len(queue') <= MaxQueue
      BY <1>a, <2>1, <2>2, QueueConstants DEF QueueTypeOK
    <2>5. QueueTypeOK'
      BY <1>1, <1>a, <2>1, <2>2, <2>3, <2>4 DEF Drain, QueueTypeOK
    <2>6. Len(pushed') = taken' + dropped' + Len(queue')
      BY <1>a, <2>1, <2>2 DEF QueueSteady, QueueTypeOK
    <2>7. Newest(queue', pushed')
      BY <1>a, <2>1, <2>2 DEF Newest
    <2>. QED BY <2>5, <2>6, <2>7 DEF QueueSteady
  <1>2. CASE Sent
    <2>1. sender' \in {"drain", "wait"}
      BY <1>2 DEF Sent
    <2>2. QueueTypeOK'
      BY <1>2, <1>a, <2>1 DEF Sent, QueueTypeOK, queueVars
    <2>. QED BY <1>2, <2>2, QueueStays DEF Sent, queueVars
  <1>3. CASE Wake
    <2>1. QueueTypeOK'
      BY <1>3, <1>a DEF Wake, QueueTypeOK, queueVars
    <2>. QED BY <1>3, <2>1, QueueStays DEF Wake, queueVars
  <1>4. CASE NotifyOne
    <2>1. QueueTypeOK'
      BY <1>4, <1>a DEF NotifyOne, QueueTypeOK
    <2>. QED BY <1>4, <2>1, QueueStays DEF NotifyOne
  <1>5. CASE WarnIntervalPasses
    <2>1. QueueTypeOK'
      BY <1>5, <1>a DEF WarnIntervalPasses, QueueTypeOK, transport
    <2>. QED BY <1>5, <2>1, QueueStays DEF WarnIntervalPasses, transport
  <1>6. CASE Stash \/ StashExpires \/ Subscribe \/ FetchLast \/ SseOpens
    <2>1. UNCHANGED <<queue, dropped, due, owed, pushed, kind, permit, taken>>
      BY <1>6 DEF Stash, StashExpires, Subscribe, FetchLast, SseOpens,
             queueVars, transport
    <2>2. /\ sender' \in {sender, "send"} /\ beats' = beats
          /\ stash' \in Nat /\ feed' \in Nat /\ fetched' \in Nat /\ ticks' \in Nat
          /\ sub' \in {"none", "indexed", "fetched", "replayed", "replied"}
      BY <1>6, <1>a DEF Stash, StashExpires, Subscribe, FetchLast, SseOpens,
                   QueueTypeOK, transport
    <2>3. QueueTypeOK'
      BY <1>a, <2>1, <2>2 DEF QueueTypeOK
    <2>. QED BY <2>1, <2>3, QueueStays
  <1>7. CASE FanOut
    <2>1. /\ UNCHANGED <<transport, stash, sub, fetched, ticks, beats>> /\ feed' = 0
          /\ IF sub = "none" THEN UNCHANGED queueVars ELSE Push(Frame("tick", feed))
      BY <1>7 DEF FanOut
    <2>2. CASE sub = "none"
      <3>1. QueueTypeOK'
        BY <1>a, <2>1, <2>2 DEF QueueTypeOK, transport, queueVars
      <3>. QED BY <2>1, <2>2, <3>1, QueueStays DEF transport, queueVars
    <2>3. CASE sub # "none"
      <3>1. Frame("tick", feed) \in Frames
        BY <1>a, <1>f DEF QueueTypeOK
      <3>. QED BY <1>a, <1>p, <2>1, <2>3, <3>1 DEF QueueTypeOK
    <2>. QED BY <2>2, <2>3
  <1>8. CASE ReplayLast
    <2>1. /\ UNCHANGED <<transport, stash, feed, fetched, ticks, beats>> /\ sub' = "replayed"
          /\ IF fetched = 0 THEN UNCHANGED queueVars ELSE Push(Frame("cache", fetched))
      BY <1>8 DEF ReplayLast
    <2>2. CASE fetched = 0
      <3>1. QueueTypeOK'
        BY <1>a, <2>1, <2>2 DEF QueueTypeOK, transport, queueVars
      <3>. QED BY <2>1, <2>2, <3>1, QueueStays DEF transport, queueVars
    <2>3. CASE fetched # 0
      <3>1. Frame("cache", fetched) \in Frames
        BY <1>a, <1>f DEF QueueTypeOK
      <3>. QED BY <1>a, <1>p, <2>1, <2>3, <3>1 DEF QueueTypeOK
    <2>. QED BY <2>2, <2>3
  <1>9. CASE WsReply
    <2>1. Frame("subscribed", 0) \in Frames
      BY <1>f
    <2>. QED BY <1>9, <1>a, <1>p, <2>1 DEF WsReply, QueueTypeOK
  <1>10. CASE Heartbeat
    <2>1. Frame("heartbeat", 0) \in Frames
      BY <1>f
    <2>. QED BY <1>10, <1>a, <1>p, <2>1 DEF Heartbeat, QueueTypeOK
  <1>11. CASE OtherReply
    <2>1. Frame("reply", 0) \in Frames
      BY <1>f
    <2>. QED BY <1>11, <1>a, <1>p, <2>1 DEF OtherReply, QueueTypeOK
  <1>12. CASE UNCHANGED connVars
    <2>1. QueueTypeOK'
      BY <1>12, <1>a DEF connVars, QueueTypeOK
    <2>. QED BY <1>12, <2>1, QueueStays DEF connVars
  <1>. QED BY <1>1, <1>2, <1>3, <1>4, <1>5, <1>6, <1>7, <1>8, <1>9, <1>10, <1>11, <1>12
           DEF QueueNext, Transport

(* Frame by frame is the sequence itself. *)
LEMMA NewestIsSubSeq ==
    ASSUME NEW q \in Seq(Frames), NEW p \in Seq(Frames), Newest(q, p)
    PROVE  q = SubSeq(p, Len(p) - Len(q) + 1, Len(p))
  <1>. DEFINE m == Len(p) - Len(q) + 1
              t == SubSeq(p, m, Len(p))
  <1>1. Len(q) \in Nat /\ Len(p) \in Nat /\ Len(q) <= Len(p)
    BY LenProperties DEF Newest
  <1>2. m \in Int /\ m >= 1 /\ Len(p) - m + 1 = Len(q)
    BY <1>1
  <1>3. \A i \in m .. Len(p) : p[i] \in Frames
    <2>1. \A i \in m .. Len(p) : i \in 1 .. Len(p)
      BY <1>1, <1>2
    <2>. QED BY <2>1, ElementOfSeq
  <1>4. /\ t \in Seq(Frames) /\ Len(t) = (IF m <= Len(p) THEN Len(p) - m + 1 ELSE 0)
        /\ \A i \in 1 .. Len(p) - m + 1 : t[i] = p[m + i - 1]
    BY <1>1, <1>2, <1>3, SubSeqProperties
  <1>5. Len(t) = Len(q)
    BY <1>1, <1>2, <1>4
  <1>6. ASSUME NEW i \in 1 .. Len(q) PROVE q[i] = t[i]
    <2>1. q[i] = p[Len(p) - Len(q) + i]
      BY DEF Newest
    <2>2. t[i] = p[m + i - 1]
      BY <1>2, <1>4
    <2>3. m + i - 1 = Len(p) - Len(q) + i
      BY <1>1
    <2>. QED BY <2>1, <2>2, <2>3
  <1>7. q = t
    <2>. HIDE DEF t
    <2>. QED BY <1>4, <1>5, <1>6, SeqEqual
  <1>. QED BY <1>7

(* Connection::push and drain under any load: the queue keeps within        *)
(* rt_slowclient_queue, what is in it is the newest of what was pushed, and *)
(* every other frame was drained or counted as dropped.                    *)
THEOREM QueueSafe == QueueSpec => []QueueInv
  <1>1. QueueSpec => []QueueSteady
    BY QueueStarts, QueueStep, PTL DEF QueueSpec
  <1>2. QueueSteady => QueueInv
    <2>. SUFFICES ASSUME QueueSteady PROVE QueueInv
      OBVIOUS
    <2>1. queue = SubSeq(pushed, Len(pushed) - Len(queue) + 1, Len(pushed))
      BY NewestIsSubSeq DEF QueueSteady, QueueTypeOK
    <2>. QED BY <2>1 DEF QueueSteady, QueueInv, QueueIsNewest
  <1>. QED BY <1>1, <1>2, PTL
=============================================================================
