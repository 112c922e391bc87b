------------------------ MODULE NotificationDelivery ------------------------
(***************************************************************************)
(* A notification's way from the NOTIFICATIONS stream to the WebSocket     *)
(* hub: NATSBroker.SubscribeNotifications with its durable consumer, the   *)
(* NotificationBridge as its callback, Redis pub/sub, and the hub's        *)
(* subscriber (PubSubAdapter.Subscribe).                                   *)
(*                                                                         *)
(* The durable consumer outlives a crash, is bound until the server has    *)
(* noticed that the connection is gone, and is deleted by the client that  *)
(* created it when that client unsubscribes.  Redis keeps nothing for a    *)
(* hub that is not subscribed.                                             *)
(***************************************************************************)
EXTENDS ServerProcess, Sequences, FiniteSets

CONSTANTS
  Notifications,           \* messages of the stream, by sequence number
  MaxFaults                \* bound: failed publishes, lost or late acks

ASSUME DeliveryAssumption ==
  /\ Notifications \subseteq Nat \ {0}
  /\ MaxFaults \in Nat

VARIABLES
  msg, open, inbox, cur, handler, again,  \* the subscription: PushConsumer
  durable,                 \* the consumer does not exist, is free or is bound
  creator,                 \* this process created it
  hub,                     \* the hub is subscribed to the Redis channel
  feed,                    \* published messages on their way to the hub
  faults,                  \* counted against MaxFaults
  forwarded,               \* history: the notifications Redis took
  got                      \* history: what the hub was handed, in order

sub  == <<msg, open, inbox, cur, handler, again>>
rest == <<hub, feed, got>>
notifyVars == <<process, sub, durable, creator, rest, faults, forwarded>>

Sub == INSTANCE PushConsumer WITH Items <- Notifications

NotifyInit ==
  /\ Sub!Init
  /\ durable = "none" /\ creator = FALSE
  /\ hub = FALSE /\ feed = << >>
  /\ faults = 0 /\ forwarded = {} /\ got = << >>

Fault == faults < MaxFaults /\ faults' = faults + 1

-----------------------------------------------------------------------------
(* JetStream                                                               *)

\* PublishNotification: the message is in the stream.
Post(i) ==
  /\ Sub!Store(i)
  /\ UNCHANGED <<process, durable, creator, rest, faults, forwarded>>

Deliver(i) ==
  /\ Sub!Deliver(i)
  /\ UNCHANGED <<process, durable, creator, rest, faults, forwarded>>

\* A callback that is slow, or that died: 30 seconds pass.
AckWaitExpire(i) ==
  /\ Sub!AckWaitExpire(i)
  /\ IF \/ \E k \in DOMAIN inbox : inbox[k] = i
        \/ cur = i
     THEN Fault ELSE UNCHANGED faults
  /\ UNCHANGED <<process, durable, creator, rest, forwarded>>

\* The server notices that the connection is gone.
Unbind ==
  /\ durable = "bound" /\ ~open
  /\ durable' = "free"
  /\ UNCHANGED <<process, sub, creator, rest, faults, forwarded>>

-----------------------------------------------------------------------------
(* NATSBroker.SubscribeNotifications                                       *)

SubscribeNewOnly ==
  /\ proc = "serving" /\ ~open /\ durable # "bound"
  /\ open' = TRUE /\ durable' = "bound" /\ creator' = (durable = "none")
  /\ msg' = [i \in Notifications |->
               IF msg[i] = "stored" /\ durable = "none" THEN "acked" ELSE msg[i]]
  /\ UNCHANGED <<process, inbox, cur, handler, again, rest, faults, forwarded>>

\* js.Subscribe creates the durable consumer, or attaches to the one that is
\* there.  (It fails if that one is still bound: log.Fatal, which is ProcessEnds.)
Subscribe ==
  /\ proc = "serving" /\ ~open /\ durable # "bound"
  /\ open' = TRUE /\ durable' = "bound" /\ creator' = (durable = "none")
  /\ UNCHANGED <<process, msg, inbox, cur, handler, again, rest, faults, forwarded>>

UnsubscribeDrain ==
  /\ open /\ proc = "stopping"
  /\ open' = FALSE /\ creator' = FALSE
  /\ IF creator
     THEN durable' = "none" /\ msg' = Sub!Forgotten /\ again' = Sub!Replayed
     ELSE durable' = "free" /\ UNCHANGED <<msg, again>>
  /\ UNCHANGED <<process, inbox, cur, handler, rest, faults, forwarded>>

\* The context is done: sub.Unsubscribe() drops the deliveries that wait and,
\* in the client that created the consumer, deletes it.
Unsubscribe ==
  /\ open /\ proc = "stopping"
  /\ open' = FALSE /\ inbox' = << >> /\ creator' = FALSE
  /\ IF creator
     THEN durable' = "none" /\ msg' = Sub!Forgotten /\ again' = Sub!Replayed
     ELSE durable' = "free" /\ UNCHANGED <<msg, again>>
  /\ UNCHANGED <<process, cur, handler, rest, faults, forwarded>>

Dispatch ==
  /\ Sub!Dispatch("publish")
  /\ UNCHANGED <<process, durable, creator, rest, faults, forwarded>>

-----------------------------------------------------------------------------
(* NotificationBridge: one callback, PubSubAdapter.Publish in it            *)

Taken ==
  /\ forwarded' = forwarded \cup {cur}
  /\ feed' = IF hub THEN Append(feed, cur) ELSE feed

PublishOrAck ==
  /\ handler = "publish"
  /\ \/ proc = "serving" /\ Taken /\ Sub!Calls("ack") /\ UNCHANGED faults
     \/ /\ IF proc = "serving" THEN Fault ELSE UNCHANGED faults
        /\ UNCHANGED <<feed, forwarded>> /\ Sub!Calls("ack")
  /\ UNCHANGED <<process, durable, creator, hub, got>>

\* Redis takes the message and hands it to the hub if it is subscribed; or the
\* call fails, with or without effect.  It always fails once the context,
\* which is the subscription's, is done.
Publish ==
  /\ handler = "publish"
  /\ \/ proc = "serving" /\ Taken /\ Sub!Calls("ack") /\ UNCHANGED faults
     \/ proc = "serving" /\ Taken /\ Sub!Calls("nak") /\ Fault
     \/ /\ IF proc = "serving" THEN Fault ELSE UNCHANGED faults
        /\ UNCHANGED <<feed, forwarded>> /\ Sub!Calls("nak")
  /\ UNCHANGED <<process, durable, creator, hub, got>>

\* msg.Ack() or msg.Nak(), and the callback is over.
Reply ==
  /\ \/ (Sub!Ack \/ Sub!Nak) /\ UNCHANGED faults
     \/ Sub!ReplyLost /\ Fault
  /\ UNCHANGED <<process, durable, creator, rest, forwarded>>

-----------------------------------------------------------------------------
(* Redis pub/sub and the hub's subscriber                                  *)

\* SUBSCRIBE reaches Redis, some time after hub.Run asked for it or after a
\* connection was lost.
HubSubscribe ==
  /\ Up /\ ~hub
  /\ hub' = TRUE
  /\ UNCHANGED <<process, sub, durable, creator, feed, got, faults, forwarded>>

\* The connection breaks and what was on its way is lost.
HubDisconnect ==
  /\ hub
  /\ hub' = FALSE /\ feed' = << >>
  /\ UNCHANGED <<process, sub, durable, creator, got, faults, forwarded>>

HandleConcurrently ==
  /\ feed # << >>
  /\ \E k \in DOMAIN feed :
       /\ got' = Append(got, feed[k])
       /\ feed' = SubSeq(feed, 1, k - 1) \o SubSeq(feed, k + 1, Len(feed))
  /\ UNCHANGED <<process, sub, durable, creator, hub, faults, forwarded>>

\* The subscriber's loop calls handleRedisMessage for one message at a time.
Handle ==
  /\ feed # << >>
  /\ got' = Append(got, Head(feed)) /\ feed' = Tail(feed)
  /\ UNCHANGED <<process, sub, durable, creator, hub, faults, forwarded>>

-----------------------------------------------------------------------------
(* The process                                                             *)

ProcessStarts == Boot /\ UNCHANGED <<sub, durable, creator, rest, faults, forwarded>>

ProcessSignalled == Signal /\ UNCHANGED <<sub, durable, creator, rest, faults, forwarded>>

\* The process ends, with or without Unsubscribe.  The durable consumer stays
\* as it is.
ProcessEnds ==
  /\ Ends
  /\ Sub!Gone /\ creator' = FALSE
  /\ hub' = FALSE /\ feed' = << >>
  /\ UNCHANGED <<msg, again, durable, got, faults, forwarded>>

\* The client runs the callback.
Callback == Dispatch \/ Publish \/ Reply

BridgeNext ==
  \/ \E i \in Notifications : Deliver(i) \/ AckWaitExpire(i)
  \/ Subscribe \/ Unsubscribe \/ Callback \/ Unbind

NotifyNext ==
  \/ \E i \in Notifications : Post(i)
  \/ BridgeNext
  \/ HubSubscribe \/ HubDisconnect \/ Handle
  \/ ProcessStarts \/ ProcessSignalled \/ ProcessEnds

NotifySpec == NotifyInit /\ ProcessInit /\ [][NotifyNext]_notifyVars

\* NATS delivers and notices connections that are gone, and the client's
\* goroutines run.
BridgeFairness ==
  /\ \A i \in Notifications :
       WF_notifyVars(Deliver(i)) /\ WF_notifyVars(AckWaitExpire(i))
  /\ WF_notifyVars(Unbind)
  /\ WF_notifyVars(Callback)

\* So does the goroutine of main that subscribes.
NotifyFairness == BridgeFairness /\ WF_notifyVars(Subscribe)

-----------------------------------------------------------------------------
(* What the users may rely on                                              *)

NotifyTypeOK ==
  /\ ProcessTypeOK
  /\ Sub!TypeOK
  /\ durable \in {"none", "free", "bound"}
  /\ creator \in BOOLEAN /\ hub \in BOOLEAN
  /\ feed \in Seq(Notifications)
  /\ faults \in 0 .. MaxFaults
  /\ forwarded \in SUBSET Notifications
  /\ got \in Seq(Notifications)
  /\ open => durable = "bound" /\ Up
  /\ inbox # << >> => open
  /\ cur # 0 => Up
  /\ feed # << >> => hub /\ Up

\* The bridge is a relay: no notification is acknowledged before Redis took it,
\* through lost replies, restarts and consumers that are deleted and created
\* again.
Relay == INSTANCE RelayContract WITH
  Items <- Notifications,
  posted <- {i \in Notifications : msg[i] # "absent"},
  settled <- {i \in Notifications : msg[i] = "acked"}
NotificationRelay == Relay!Spec

\* The hub is handed the notifications in the order of the stream, each once,
\* but for those that were delivered to the bridge more than once.
InOrder ==
  \A a, b \in DOMAIN got : a < b /\ got[a] >= got[b] => got[b] \in again

\* A notification that is in the stream while a process serves reaches Redis,
\* unless that process stops: whatever earlier processes left undone.
Forwarded ==
  \A i \in Notifications :
    msg[i] # "absent" /\ proc = "serving" ~>
      i \in forwarded \/ proc # "serving"
=============================================================================
