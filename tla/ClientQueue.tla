---------------------------- MODULE ClientQueue ----------------------------
(***************************************************************************)
(* One Connection of realtime/hub.rs: the bounded queue between those who  *)
(* push frames (the hub's listener, the replay and the replies of a        *)
(* subscribe, the heartbeat) and the transport that drains it, woken by a  *)
(* tokio Notify.  One symbol; a tick is its number in the upstream's order.*)
(***************************************************************************)
EXTENDS Integers, Sequences

CONSTANTS
    MaxQueue,   \* rt_slowclient_queue
    Kinds,      \* the transports to consider: "ws", "sse"
    MaxTicks,   \* bound: ticks the upstream publishes
    MaxBeats    \* bound: heartbeats, and replies to frames that subscribe nothing

ASSUME QueueConstants ==
    /\ MaxQueue \in Nat \ {0}
    /\ Kinds \subseteq {"ws", "sse"}
    /\ MaxTicks \in Nat
    /\ MaxBeats \in Nat

VARIABLES
    kind,     \* the connection's transport
    queue,    \* Connection.queue
    dropped,  \* Connection.dropped
    due,      \* is a slow-client warning due
    owed,     \* pushes that have released the queue and not yet notified
    permit,   \* the Notify's stored permit
    sender,   \* the transport: off, drain, send, empty or wait
    taken,    \* frames drained so far
    pushed,   \* every frame put into the queue so far, in order
    stash,    \* last:tick of the symbol in Redis, 0 if none
    feed,     \* the hub's listener: the tick it has stashed and not fanned out
    sub,      \* the subscribe: none, indexed, fetched, replied
    fetched,  \* the tick its replay has read
    ticks,    \* bound
    beats     \* bound

connVars == <<kind, queue, dropped, due, owed, permit, sender, taken, pushed, stash,
              feed, sub, fetched, ticks, beats>>
queueVars == <<queue, dropped, due, owed, pushed>>
transport == <<kind, permit, sender, taken>>
Sse == kind = "sse"

Frame(k, n) == [kind |-> k, n |-> n]
SlowClient == Frame("slow", 0)

QueueInit ==
    /\ kind \in Kinds
    /\ queue = << >>
    /\ dropped = 0
    /\ due = TRUE
    /\ owed = 0
    /\ permit = FALSE
    /\ sender = IF Sse THEN "off" ELSE "drain"
    /\ taken = 0
    /\ pushed = << >>
    /\ stash = 0
    /\ feed = 0
    /\ sub = "none"
    /\ fetched = 0
    /\ ticks = 0
    /\ beats = 0
-----------------------------------------------------------------------------
(* Mutant of Push: an overflow drops the frame that does not fit. *)
PushDropsNewest(f) ==
    /\ owed' = owed + 1
    /\ IF Len(queue) < MaxQueue
       THEN /\ queue' = Append(queue, f)
            /\ pushed' = Append(pushed, f)
            /\ UNCHANGED <<dropped, due>>
       ELSE /\ dropped' = dropped + 1
            /\ pushed' = Append(pushed, f)
            /\ UNCHANGED <<queue, due>>

(* Connection::push under the queue's lock: on overflow the oldest frame   *)
(* goes, and a warning follows when it is due and there is room for it.    *)
Push(f) ==
    /\ owed' = owed + 1
    /\ IF Len(queue) < MaxQueue
       THEN /\ queue' = Append(queue, f)
            /\ pushed' = Append(pushed, f)
            /\ UNCHANGED <<dropped, due>>
       ELSE LET q == Append(Tail(queue), f)
                warning == IF due /\ Len(q) < MaxQueue THEN <<SlowClient>> ELSE << >>
            IN /\ queue' = q \o warning
               /\ pushed' = Append(pushed, f) \o warning
               /\ dropped' = dropped + 1
               /\ due' = FALSE

(* DROP_WARN_INTERVAL has passed. *)
WarnIntervalPasses ==
    /\ ~due
    /\ due' = TRUE
    /\ UNCHANGED <<queue, dropped, owed, pushed, transport, stash, feed, sub, fetched,
                   ticks, beats>>

(* Mutant of NotifyOne: only a transport already waiting is woken. *)
NotifyOneIfWaiting ==
    /\ owed > 0
    /\ owed' = owed - 1
    /\ permit' = (sender = "wait")
    /\ UNCHANGED <<kind, queue, dropped, due, pushed, sender, taken, stash, feed, sub, fetched,
                   ticks, beats>>

NotifyOne ==
    /\ owed > 0
    /\ owed' = owed - 1
    /\ permit' = TRUE
    /\ UNCHANGED <<kind, queue, dropped, due, pushed, sender, taken, stash, feed, sub, fetched,
                   ticks, beats>>
-----------------------------------------------------------------------------
(* The transport.  A WebSocket sends what it drained and waits; an SSE     *)
(* stream waits only when it drained nothing.                              *)
Drain ==
    /\ sender = "drain"
    /\ taken' = taken + Len(queue)
    /\ queue' = << >>
    /\ sender' = IF Sse /\ queue = << >> THEN "empty" ELSE "send"
    /\ UNCHANGED <<kind, dropped, due, owed, permit, pushed, stash, feed, sub, fetched,
                   ticks, beats>>

Sent ==
    /\ sender \in {"send", "empty"}
    /\ sender' = IF Sse /\ sender = "send" THEN "drain" ELSE "wait"
    /\ UNCHANGED <<kind, queueVars, permit, taken, stash, feed, sub, fetched, ticks, beats>>

Wake ==
    /\ sender = "wait" /\ permit
    /\ permit' = FALSE
    /\ sender' = "drain"
    /\ UNCHANGED <<kind, queueVars, taken, stash, feed, sub, fetched, ticks, beats>>
-----------------------------------------------------------------------------
(* Hub::on_payload: the tick is stashed (an error of Redis is ignored), then *)
(* fanned out to whoever is in the index at that moment.                     *)
Stash ==
    /\ feed = 0
    /\ ticks < MaxTicks
    /\ ticks' = ticks + 1
    /\ stash' \in {stash, ticks + 1}
    /\ feed' = ticks + 1
    /\ UNCHANGED <<queueVars, transport, sub, fetched, beats>>

(* LAST_TICK_TTL_S has passed since the last tick. *)
StashExpires ==
    /\ stash # 0
    /\ stash' = 0
    /\ UNCHANGED <<queueVars, transport, feed, sub, fetched, ticks, beats>>

FanOut ==
    /\ feed # 0
    /\ feed' = 0
    /\ IF sub = "none" THEN UNCHANGED queueVars ELSE Push(Frame("tick", feed))
    /\ UNCHANGED <<transport, stash, sub, fetched, ticks, beats>>

(* Hub::subscribe: the index first, then the replay, then the reply. *)
Subscribe ==
    /\ sub = "none"
    /\ sub' = "indexed"
    /\ UNCHANGED <<queueVars, transport, stash, feed, fetched, ticks, beats>>

FetchLast ==
    /\ sub = "indexed"
    /\ sub' = "fetched"
    /\ fetched' = stash
    /\ UNCHANGED <<queueVars, transport, stash, feed, ticks, beats>>

ReplayLast ==
    /\ sub = "fetched"
    /\ sub' = "replayed"
    /\ IF fetched = 0 THEN UNCHANGED queueVars ELSE Push(Frame("cache", fetched))
    /\ UNCHANGED <<transport, stash, feed, fetched, ticks, beats>>

(* The reply: a WebSocket queues it, an SSE stream opens with it as the    *)
(* first event of its own buffer.                                          *)
WsReply ==
    /\ ~Sse /\ sub = "replayed"
    /\ sub' = "replied"
    /\ Push(Frame("subscribed", 0))
    /\ UNCHANGED <<transport, stash, feed, fetched, ticks, beats>>

SseOpens ==
    /\ Sse /\ sub = "replayed"
    /\ sub' = "replied"
    /\ sender' = "send"
    /\ UNCHANGED <<kind, queueVars, permit, taken, stash, feed, fetched, ticks, beats>>

(* The heartbeat task runs beside the transport. *)
Heartbeat ==
    /\ sender # "off"
    /\ beats < MaxBeats
    /\ beats' = beats + 1
    /\ Push(Frame("heartbeat", 0))
    /\ UNCHANGED <<transport, stash, feed, sub, fetched, ticks>>

(* The WebSocket's receiver answers a ping or a bad frame, between subscribes. *)
OtherReply ==
    /\ ~Sse /\ sub \in {"none", "replied"}
    /\ beats < MaxBeats
    /\ beats' = beats + 1
    /\ Push(Frame("reply", 0))
    /\ UNCHANGED <<transport, stash, feed, sub, fetched, ticks>>
-----------------------------------------------------------------------------
Transport == Drain \/ Sent \/ Wake

QueueNext ==
    \/ Transport
    \/ NotifyOne
    \/ WarnIntervalPasses
    \/ Stash \/ StashExpires \/ FanOut
    \/ Subscribe \/ FetchLast \/ ReplayLast \/ WsReply \/ SseOpens
    \/ Heartbeat \/ OtherReply

QueueSpec == QueueInit /\ [][QueueNext]_connVars

(* A push that has released the queue goes on to notify, a subscribe runs  *)
(* to its reply, and a client that reads lets every send finish.           *)
FairSpec ==
    /\ QueueSpec
    /\ WF_connVars(NotifyOne)
    /\ WF_connVars(FetchLast \/ ReplayLast \/ WsReply \/ SseOpens)
    /\ WF_connVars(Transport)
-----------------------------------------------------------------------------
Frames == [kind : {"tick", "cache", "subscribed", "heartbeat", "reply", "slow"}, n : Nat]

(* Every variable holds a value of its kind, and the queue its bound. *)
QueueTypeOK ==
    /\ kind \in Kinds
    /\ queue \in Seq(Frames) /\ Len(queue) <= MaxQueue
    /\ pushed \in Seq(Frames)
    /\ dropped \in Nat /\ owed \in Nat /\ taken \in Nat
    /\ due \in BOOLEAN /\ permit \in BOOLEAN
    /\ sender \in {"off", "drain", "send", "empty", "wait"}
    /\ stash \in Nat /\ feed \in Nat /\ fetched \in Nat
    /\ sub \in {"none", "indexed", "fetched", "replayed", "replied"}
    /\ ticks \in Nat /\ beats \in Nat

(* "on overflow the OLDEST frame is dropped": the queue is always the      *)
(* newest part of what was pushed, and every other frame was either        *)
(* drained or counted as dropped.                                          *)
QueueIsNewest ==
    /\ Len(pushed) = taken + dropped + Len(queue)
    /\ queue = SubSeq(pushed, Len(pushed) - Len(queue) + 1, Len(pushed))

(* A frame in the queue is never left there while the transport sleeps:    *)
(* the wakeup of a push cannot be lost, whether it comes before, during or *)
(* after a drain.                                                          *)
QueueIsDrained == queue # << >> ~> queue = << >>

(* "on overflow the OLDEST frame is dropped and the client is notified":   *)
(* a connection that lost a frame has been sent the warning.               *)
SlowClientTold ==
    dropped > 0 => \E i \in 1 .. Len(pushed) : pushed[i] = SlowClient

(* The queue stays within its bound, its loss is counted, and what is left *)
(* is the newest: the safety of Connection::push and drain.                *)
QueueInv == QueueTypeOK /\ QueueIsNewest
=============================================================================
