---------------------------- MODULE RealtimeHub ----------------------------
(***************************************************************************)
(* The registry of realtime/hub.rs as its three kinds of client use it:    *)
(* the WebSocket loop (handlers/ws.rs), the SSE stream                     *)
(* (handlers/sse_quotes.rs) and the warm set (Hub::warm).                  *)
(*                                                                         *)
(* HubState sits behind one mutex, so each critical section is one step;   *)
(* the demand events it decides are fired after the lock is released, and  *)
(* each runs in a detached task: nothing orders the tasks.  What flows to  *)
(* the clients is the subject of ClientQueue.                              *)
(***************************************************************************)
EXTENDS Integers, FiniteSets

CONSTANTS
    Conns,        \* connections; an id is used once
    Kind,         \* "ws", "sse" or "warm", per connection
    Identities,
    SubOf,        \* the identity of each connection
    Internal,     \* identities exempt from the one-stream rule
    Symbols,
    LifetimeCap,  \* rt_ws_lifetime_syms
    MaxCancels    \* bound: SSE requests dropped before their stream exists

ASSUME HubConstants ==
    /\ Kind \in [Conns -> {"ws", "sse", "warm"}]
    /\ SubOf \in [Conns -> Identities]
    /\ Internal \subseteq Identities
    /\ IsFiniteSet(Symbols)
    /\ LifetimeCap \in Nat
    /\ MaxCancels \in Nat

VARIABLES
    pc,        \* where the task or request of each connection is
    prev,      \* the stream each displaced and has not yet told
    fire,      \* the demand events each has decided and not yet fired
    conns,     \* HubState.connections
    bySub,     \* HubState.connections_by_sub
    subs,      \* HubState.subs_by_symbol
    life,      \* Connection.lifetime_symbols
    told,      \* the connections told that another stream took over
    tasks,     \* the detached demand tasks, per symbol and direction
    seen,      \* the events the upstream has been handed
    cancels    \* bound

vars == <<pc, prev, fire, conns, bySub, subs, life, told, tasks, seen, cancels>>
index == <<conns, bySub, subs, life, told>>
upstream == <<tasks, seen>>

Events == Symbols \X BOOLEAN
NoEvents == [e \in Events |-> 0]

Init ==
    /\ pc = [c \in Conns |-> "new"]
    /\ prev = [c \in Conns |-> {}]
    /\ fire = [c \in Conns |-> {}]
    /\ conns = {}
    /\ bySub = [i \in Identities |-> {}]
    /\ subs = [s \in Symbols |-> {}]
    /\ life = [c \in Conns |-> 0]
    /\ told = {}
    /\ tasks = NoEvents
    /\ seen = NoEvents
    /\ cancels = 0
-----------------------------------------------------------------------------
(* Whom a newcomer displaces; enforce_concurrent is off for the internal.  *)
Displaced(c) == IF SubOf[c] \in Internal THEN {} ELSE bySub[SubOf[c]]

Register(c) ==
    /\ pc[c] = "new"
    /\ pc' = [pc EXCEPT ![c] = "tell"]
    /\ prev' = [prev EXCEPT ![c] = Displaced(c)]
    /\ conns' = conns \cup {c}
    /\ bySub' = [bySub EXCEPT ![SubOf[c]] = {c}]
    /\ UNCHANGED <<fire, subs, life, told, upstream, cancels>>

(* After the lock: the displaced stream gets a frame saying so.  Every     *)
(* caller of register drops the connection it returns.                     *)
Tell(c) ==
    /\ pc[c] = "tell"
    /\ pc' = [pc EXCEPT ![c] = IF Kind[c] = "ws" THEN "open" ELSE "setup"]
    /\ told' = told \cup prev[c]
    /\ prev' = [prev EXCEPT ![c] = {}]
    /\ UNCHANGED <<fire, conns, bySub, subs, life, upstream, cancels>>

(* Mutant of NewDemand: every new subscriber counts as the first. *)
NewDemandEach(c, S) == {<<s, TRUE>> : s \in {u \in S : c \notin subs[u]}}
(* The symbols of S that had no subscriber. *)
NewDemand(c, S) == {<<s, TRUE>> : s \in {u \in S : subs[u] = {}}}
(* The symbols of S that lose their last one. *)
EndedDemand(c, S) == {<<s, FALSE>> : s \in {u \in S : subs[u] = {c}}}

AddTo(c, S) ==
    /\ subs' = [s \in Symbols |-> IF s \in S THEN subs[s] \cup {c} ELSE subs[s]]
    /\ life' = [life EXCEPT ![c] = @ + Cardinality({s \in S : c \notin subs[s]})]
    /\ fire' = [fire EXCEPT ![c] = NewDemand(c, S)]

DropFrom(c, S) ==
    /\ subs' = [s \in Symbols |-> IF s \in S THEN subs[s] \ {c} ELSE subs[s]]
    /\ fire' = [fire EXCEPT ![c] = EndedDemand(c, S)]

(* A subscribe message of a WebSocket: refused past the lifetime cap. *)
WsSubscribe(c, S) ==
    /\ Kind[c] = "ws" /\ pc[c] = "open" /\ fire[c] = {}
    /\ life[c] + Cardinality(S) <= LifetimeCap
    /\ AddTo(c, S)
    /\ UNCHANGED <<pc, prev, conns, bySub, told, upstream, cancels>>

WsUnsubscribe(c, S) ==
    /\ Kind[c] = "ws" /\ pc[c] = "open" /\ fire[c] = {}
    /\ DropFrom(c, S)
    /\ UNCHANGED <<pc, prev, conns, bySub, life, told, upstream, cancels>>

(* An SSE request, or the warm set, subscribes once, right after register. *)
SetupSubscribe(c, S) ==
    /\ pc[c] = "setup"
    /\ pc' = [pc EXCEPT ![c] = "asked"]
    /\ AddTo(c, S)
    /\ UNCHANGED <<prev, conns, bySub, told, upstream, cancels>>

(* The CleanupGuard exists from here on. *)
StreamOpens(c) ==
    /\ pc[c] = "asked" /\ fire[c] = {}
    /\ pc' = [pc EXCEPT ![c] = "open"]
    /\ UNCHANGED <<prev, fire, index, upstream, cancels>>

(* The client leaves while the request's future is still before the guard. *)
CancelSetup(c) ==
    /\ Kind[c] = "sse" /\ pc[c] \in {"tell", "setup", "asked"}
    /\ cancels < MaxCancels
    /\ cancels' = cancels + 1
    /\ pc' = [pc EXCEPT ![c] = "leaked"]
    /\ fire' = [fire EXCEPT ![c] = {}]
    /\ UNCHANGED <<prev, index, upstream>>

(* The receiver loop ends, or the stream is dropped; warm never does. *)
Close(c) ==
    /\ Kind[c] # "warm" /\ pc[c] = "open" /\ fire[c] = {}
    /\ pc' = [pc EXCEPT ![c] = "closed"]
    /\ UNCHANGED <<prev, fire, index, upstream, cancels>>

(* Mutant of Unregister: the identity's entry is left behind. *)
UnregisterKeepsSub(c) ==
    /\ pc[c] = "closed"
    /\ pc' = [pc EXCEPT ![c] = "gone"]
    /\ conns' = conns \ {c}
    /\ DropFrom(c, Symbols)
    /\ UNCHANGED <<prev, bySub, life, told, upstream, cancels>>

Unregister(c) ==
    /\ pc[c] = "closed"
    /\ pc' = [pc EXCEPT ![c] = "gone"]
    /\ conns' = conns \ {c}
    /\ bySub' = [bySub EXCEPT ![SubOf[c]] = @ \ {c}]
    /\ DropFrom(c, Symbols)
    /\ UNCHANGED <<prev, life, told, upstream, cancels>>

(* fire_demand: a detached task per event. *)
FireDemand(c, e) ==
    /\ e \in fire[c]
    /\ fire' = [fire EXCEPT ![c] = @ \ {e}]
    /\ tasks' = [tasks EXCEPT ![e] = @ + 1]
    /\ UNCHANGED <<pc, prev, index, seen, cancels>>

(* The upstream's listener is told to claim or to release the symbol. *)
ListenerRuns(e) ==
    /\ tasks[e] > 0
    /\ tasks' = [tasks EXCEPT ![e] = @ - 1]
    /\ seen' = [seen EXCEPT ![e] = @ + 1]
    /\ UNCHANGED <<pc, prev, fire, index, cancels>>
-----------------------------------------------------------------------------
ConnStep(c) ==
    \/ Register(c)
    \/ Tell(c)
    \/ \E S \in SUBSET Symbols \ {{}} : SetupSubscribe(c, S)
    \/ StreamOpens(c)
    \/ Unregister(c)
    \/ \E e \in Events : FireDemand(c, e)

(* What a client does of its own will. *)
ClientStep(c) ==
    \/ \E S \in SUBSET Symbols \ {{}} : WsSubscribe(c, S) \/ WsUnsubscribe(c, S)
    \/ Close(c)
    \/ CancelSetup(c)

Next ==
    \/ \E c \in Conns : ConnStep(c) \/ ClientStep(c)
    \/ \E e \in Events : ListenerRuns(e)

Spec == Init /\ [][Next]_vars
-----------------------------------------------------------------------------
(* Every variable holds a value of its kind, and an identity names at most *)
(* one connection.                                                         *)
TypeOK ==
    /\ pc \in [Conns -> {"new", "tell", "setup", "asked", "open", "closed", "gone", "leaked"}]
    /\ prev \in [Conns -> SUBSET Conns]
    /\ fire \in [Conns -> SUBSET Events]
    /\ conns \subseteq Conns
    /\ bySub \in [Identities -> SUBSET Conns]
    /\ \A i \in Identities : \A c, d \in bySub[i] : c = d
    /\ subs \in [Symbols -> SUBSET Conns]
    /\ life \in [Conns -> Nat]
    /\ told \subseteq Conns
    /\ tasks \in [Events -> Nat]
    /\ seen \in [Events -> Nat]
    /\ cancels \in Nat

(* A stream that its identity no longer names has been told so, or its     *)
(* successor is about to tell it, or was dropped before it could.          *)
DisplacedAreTold ==
    \A c \in conns : \/ c \in bySub[SubOf[c]] \cup told
                     \/ SubOf[c] \in Internal
                     \/ \E d \in Conns : c \in prev[d] /\ pc[d] \in {"tell", "leaked"}

(* The three indices agree: subs_by_symbol and connections_by_sub hold     *)
(* only registered connections, filed under their own identity; a          *)
(* connection is registered exactly while its task or stream (or, for a    *)
(* dropped request, nobody) is there to take it out again; and nobody is   *)
(* displaced in silence.                                                   *)
RegistryConsistent ==
    /\ \A s \in Symbols : subs[s] \subseteq conns
    /\ \A i \in Identities : \A c \in bySub[i] : c \in conns /\ SubOf[c] = i
    /\ conns = {c \in Conns : pc[c] \notin {"new", "gone"}}
    /\ DisplacedAreTold

Owed(e) == Cardinality({c \in Conns : e \in fire[c]}) + tasks[e] + seen[e]
(* fire_demand loses nothing and repeats nothing: counting the events      *)
(* still on their way, a symbol has been claimed once more than released   *)
(* while it has a subscriber, and as often when it has none; as long as no *)
(* SSE request was dropped with events it had decided.                     *)
DemandBalanced ==
    cancels = 0 => \A s \in Symbols :
        Owed(<<s, TRUE>>) = Owed(<<s, FALSE>>) + (IF subs[s] = {} THEN 0 ELSE 1)

(* Types, one connection per identity, and no demand event lost or         *)
(* repeated: the safety of fire_demand's bookkeeping.                      *)
DemandSound == TypeOK /\ DemandBalanced
=============================================================================
