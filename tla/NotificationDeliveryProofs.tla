--------------------- MODULE NotificationDeliveryProofs ---------------------
(***************************************************************************)
(* NotificationDelivery, for any set of notifications and any number of    *)
(* faults and process runs: it implements RelayContract, hands the hub the *)
(* notifications in the stream's order and none that was not published.    *)
(***************************************************************************)
EXTENDS NotificationDelivery, QueueLemmas, TLAPS

-----------------------------------------------------------------------------
(* Types                                                                   *)

\* What a process that is down holds nothing of.
PlaceOK ==
  /\ ProcessTypeOK
  /\ durable \in {"none", "free", "bound"} /\ creator \in BOOLEAN
  /\ faults \in 0 .. MaxFaults
  /\ open => durable = "bound" /\ Up
  /\ inbox # << >> => open
  /\ cur # 0 => Up

HubOK ==
  /\ hub \in BOOLEAN
  /\ feed \in Seq(Notifications) /\ got \in Seq(Notifications)
  /\ forwarded \in SUBSET Notifications
  /\ feed # << >> => hub /\ Up

LEMMA NotifyTypeParts == NotifyTypeOK <=> PlaceOK /\ Sub!TypeOK /\ HubOK
BY DEF NotifyTypeOK, PlaceOK, HubOK

LEMMA NotifyTypeInit == NotifyInit /\ ProcessInit => NotifyTypeOK
<1> SUFFICES ASSUME NotifyInit, ProcessInit PROVE PlaceOK /\ Sub!TypeOK /\ HubOK
  BY NotifyTypeParts
<1> USE DEF NotifyInit, ProcessInit, Sub!Init
<1>0. << >> \in Seq(Notifications)
  OBVIOUS
<1>1. PlaceOK
  <2>1. ProcessTypeOK
    BY RunsAssumption DEF ProcessTypeOK
  <2>2. faults \in 0 .. MaxFaults
    BY DeliveryAssumption
  <2> QED BY <2>1, <2>2, Zenon DEF PlaceOK
<1>2. Sub!TypeOK
  <2>1. msg \in [Notifications -> {"absent", "stored", "outstanding", "due", "acked"}]
    OBVIOUS
  <2> QED BY <1>0, <2>1, Zenon DEF Sub!TypeOK
<1>3. HubOK
  BY <1>0, Zenon DEF HubOK
<1> QED BY <1>1, <1>2, <1>3

LEMMA NotifyTypeStep ==
  NotifyTypeOK /\ [NotifyNext]_notifyVars => NotifyTypeOK'
<1> SUFFICES ASSUME PlaceOK, Sub!TypeOK, HubOK, [NotifyNext]_notifyVars
             PROVE  PlaceOK' /\ Sub!TypeOK' /\ HubOK'
  BY DEF NotifyTypeOK, PlaceOK, HubOK
<1>0. << >> \in Seq(Notifications)
  OBVIOUS
<1> USE DeliveryAssumption, RunsAssumption
<1> USE DEF process, sub, rest
<1>1. ASSUME NEW i \in Notifications, Post(i) PROVE PlaceOK' /\ Sub!TypeOK' /\ HubOK'
  <2>1. PlaceOK'
    BY <1>1 DEF Post, Sub!Store, PlaceOK, ProcessTypeOK, Up, Sub!TypeOK
  <2>2. Sub!TypeOK'
    BY <1>1 DEF Post, Sub!Store, Sub!TypeOK
  <2>3. HubOK'
    BY <1>1 DEF Post, Sub!Store, HubOK, Up, Sub!TypeOK
  <2> QED BY <2>1, <2>2, <2>3
<1>2. ASSUME NEW i \in Notifications, Deliver(i) PROVE PlaceOK' /\ Sub!TypeOK' /\ HubOK'
  <2>1. PlaceOK'
    BY <1>2 DEF Deliver, Sub!Deliver, PlaceOK, ProcessTypeOK, Up, Sub!TypeOK
  <2>2. Sub!TypeOK'
    BY <1>2 DEF Deliver, Sub!Deliver, Sub!TypeOK
  <2>3. HubOK'
    BY <1>2 DEF Deliver, Sub!Deliver, HubOK, Up, Sub!TypeOK
  <2> QED BY <2>1, <2>2, <2>3
<1>3. ASSUME NEW i \in Notifications, AckWaitExpire(i) PROVE PlaceOK' /\ Sub!TypeOK' /\ HubOK'
  <2>1. PlaceOK'
    BY <1>3 DEF AckWaitExpire, Sub!AckWaitExpire, Fault, PlaceOK, ProcessTypeOK, Up, Sub!TypeOK
  <2>2. Sub!TypeOK'
    BY <1>3 DEF AckWaitExpire, Sub!AckWaitExpire, Fault, Sub!TypeOK
  <2>3. HubOK'
    BY <1>3 DEF AckWaitExpire, Sub!AckWaitExpire, Fault, HubOK, Up, Sub!TypeOK
  <2> QED BY <2>1, <2>2, <2>3
<1>4. CASE Unbind
  <2>1. PlaceOK'
    BY <1>4 DEF Unbind, PlaceOK, ProcessTypeOK, Up, Sub!TypeOK
  <2>2. Sub!TypeOK'
    BY <1>4 DEF Unbind, Sub!TypeOK
  <2>3. HubOK'
    BY <1>4 DEF Unbind, HubOK, Up, Sub!TypeOK
  <2> QED BY <2>1, <2>2, <2>3
<1>5. CASE Subscribe
  <2>1. PlaceOK'
    BY <1>5 DEF Subscribe, PlaceOK, ProcessTypeOK, Up, Sub!TypeOK
  <2>2. Sub!TypeOK'
    BY <1>5 DEF Subscribe, Sub!TypeOK
  <2>3. HubOK'
    BY <1>5 DEF Subscribe, HubOK, Up, Sub!TypeOK
  <2> QED BY <2>1, <2>2, <2>3
<1>6. CASE Unsubscribe
  <2>1. PlaceOK'
    BY <1>6 DEF Unsubscribe, Sub!Forgotten, Sub!Replayed, PlaceOK, ProcessTypeOK, Up, Sub!TypeOK
  <2>2. Sub!TypeOK'
    BY <1>0, <1>6 DEF Unsubscribe, Sub!Forgotten, Sub!Replayed, Sub!TypeOK
  <2>3. HubOK'
    BY <1>6 DEF Unsubscribe, Sub!Forgotten, Sub!Replayed, HubOK, Up, Sub!TypeOK
  <2> QED BY <2>1, <2>2, <2>3
<1>7. CASE Dispatch
  <2>1. PlaceOK'
    BY <1>7 DEF Dispatch, Sub!Dispatch, PlaceOK, ProcessTypeOK, Up, Sub!TypeOK
  <2>2. Sub!TypeOK'
    BY <1>7 DEF Dispatch, Sub!Dispatch, Sub!TypeOK
  <2>3. HubOK'
    BY <1>7 DEF Dispatch, Sub!Dispatch, HubOK, Up, Sub!TypeOK
  <2> QED BY <2>1, <2>2, <2>3
<1>8. CASE Publish
  <2>1. PlaceOK'
    BY <1>8 DEF Publish, Taken, Fault, Sub!Calls, PlaceOK, ProcessTypeOK, Up, Sub!TypeOK
  <2>2. Sub!TypeOK'
    BY <1>8 DEF Publish, Taken, Fault, Sub!Calls, Sub!TypeOK
  <2>3. HubOK'
    <3>1. cur \in Notifications /\ hub' = hub /\ got' = got /\ proc' = proc
      BY <1>8 DEF Publish, Sub!TypeOK
    <3>2. CASE proc = "serving" /\ Taken
      <4>1. feed' \in Seq(Notifications) /\ (feed' # << >> => hub)
        BY <3>1, <3>2 DEF Taken, HubOK
      <4> QED BY <3>1, <3>2, <4>1 DEF Taken, HubOK, Up
    <3>3. CASE UNCHANGED <<feed, forwarded>>
      BY <3>1, <3>3 DEF HubOK, Up
    <3> QED BY <1>8, <3>2, <3>3 DEF Publish
  <2> QED BY <2>1, <2>2, <2>3
<1>9. CASE Reply
  <2>1. PlaceOK'
    BY <1>9 DEF Reply, Sub!Ack, Sub!Nak, Sub!ReplyLost, Sub!Done, Fault, PlaceOK, ProcessTypeOK, Up, Sub!TypeOK
  <2>2. Sub!TypeOK'
    BY <1>9 DEF Reply, Sub!Ack, Sub!Nak, Sub!ReplyLost, Sub!Done, Fault, Sub!TypeOK
  <2>3. HubOK'
    BY <1>9 DEF Reply, Sub!Ack, Sub!Nak, Sub!ReplyLost, Sub!Done, Fault, HubOK, Up, Sub!TypeOK
  <2> QED BY <2>1, <2>2, <2>3
<1>10. CASE HubSubscribe
  <2>1. PlaceOK'
    BY <1>10 DEF HubSubscribe, PlaceOK, ProcessTypeOK, Up, Sub!TypeOK
  <2>2. Sub!TypeOK'
    BY <1>10 DEF HubSubscribe, Sub!TypeOK
  <2>3. HubOK'
    BY <1>10 DEF HubSubscribe, HubOK, Up, Sub!TypeOK
  <2> QED BY <2>1, <2>2, <2>3
<1>11. CASE HubDisconnect
  <2>1. PlaceOK'
    BY <1>11 DEF HubDisconnect, PlaceOK, ProcessTypeOK, Up, Sub!TypeOK
  <2>2. Sub!TypeOK'
    BY <1>11 DEF HubDisconnect, Sub!TypeOK
  <2>3. HubOK'
    BY <1>0, <1>11 DEF HubDisconnect, HubOK, Up, Sub!TypeOK
  <2> QED BY <2>1, <2>2, <2>3
<1>12. CASE Handle
  <2>1. PlaceOK'
    BY <1>12 DEF Handle, PlaceOK, ProcessTypeOK, Up, Sub!TypeOK
  <2>2. Sub!TypeOK'
    BY <1>12 DEF Handle, Sub!TypeOK
  <2>3. HubOK'
    BY <1>12 DEF Handle, HubOK, Up, Sub!TypeOK
  <2> QED BY <2>1, <2>2, <2>3
<1>13. CASE ProcessStarts
  <2>1. PlaceOK'
    BY <1>13 DEF ProcessStarts, Boot, PlaceOK, ProcessTypeOK, Up, Sub!TypeOK
  <2>2. Sub!TypeOK'
    BY <1>13 DEF ProcessStarts, Boot, Sub!TypeOK
  <2>3. HubOK'
    BY <1>13 DEF ProcessStarts, Boot, HubOK, Up, Sub!TypeOK
  <2> QED BY <2>1, <2>2, <2>3
<1>14. CASE ProcessSignalled
  <2>1. PlaceOK'
    BY <1>14 DEF ProcessSignalled, Signal, PlaceOK, ProcessTypeOK, Up, Sub!TypeOK
  <2>2. Sub!TypeOK'
    BY <1>14 DEF ProcessSignalled, Signal, Sub!TypeOK
  <2>3. HubOK'
    BY <1>14 DEF ProcessSignalled, Signal, HubOK, Up, Sub!TypeOK
  <2> QED BY <2>1, <2>2, <2>3
<1>15. CASE ProcessEnds
  <2>1. PlaceOK'
    BY <1>15 DEF ProcessEnds, Ends, Sub!Gone, PlaceOK, ProcessTypeOK, Up, Sub!TypeOK
  <2>2. Sub!TypeOK'
    BY <1>0, <1>15 DEF ProcessEnds, Ends, Sub!Gone, Sub!TypeOK
  <2>3. HubOK'
    BY <1>0, <1>15 DEF ProcessEnds, Ends, Sub!Gone, HubOK, Up, Sub!TypeOK
  <2> QED BY <2>1, <2>2, <2>3
<1>16. CASE UNCHANGED notifyVars
  <2>1. PlaceOK'
    BY <1>16 DEF notifyVars, PlaceOK, ProcessTypeOK, Up, Sub!TypeOK
  <2>2. Sub!TypeOK'
    BY <1>16 DEF notifyVars, Sub!TypeOK
  <2>3. HubOK'
    BY <1>16 DEF notifyVars, HubOK, Up, Sub!TypeOK
  <2> QED BY <2>1, <2>2, <2>3
<1> QED
  BY <1>1, <1>2, <1>3, <1>4, <1>5, <1>6, <1>7, <1>8, <1>9, <1>10, <1>11, <1>12, <1>13, <1>14, <1>15, <1>16
  DEF NotifyNext, BridgeNext, Callback

-----------------------------------------------------------------------------
(* The refinement                                                          *)

\* What has been delivered is in the stream, and neither the callback's ack nor
\* an earlier one is about a notification that Redis has not taken.
RelayInv ==
  /\ \A i \in Range(inbox) : msg[i] # "absent"
  /\ cur # 0 => msg[cur] # "absent"
  /\ handler = "ack" => cur \in forwarded
  /\ \A i \in Notifications : msg[i] = "acked" => i \in forwarded

Posted  == {i \in Notifications : msg[i] # "absent"}
Settled == {i \in Notifications : msg[i] = "acked"}

LEMMA RelayInit == NotifyInit => RelayInv /\ Relay!Init
<1> SUFFICES ASSUME NotifyInit PROVE RelayInv /\ Relay!Init
  OBVIOUS
<1>1. Range(inbox) = {} /\ msg = [i \in Notifications |-> "absent"]
  BY DEF NotifyInit, Sub!Init, Range
<1> QED BY <1>1 DEF NotifyInit, RelayInv, Sub!Init, Relay!Init

LEMMA RelayStep ==
  NotifyTypeOK /\ RelayInv /\ [NotifyNext]_notifyVars => RelayInv' /\ [Relay!Next]_(Relay!vars)
<1> SUFFICES ASSUME NotifyTypeOK, RelayInv, [NotifyNext]_notifyVars
             PROVE  RelayInv' /\ [Relay!Next]_(Relay!vars)
  OBVIOUS
<1> DEFINE Stutters == Posted' = Posted /\ Settled' = Settled /\ forwarded' = forwarded
<1>0. Stutters => [Relay!Next]_(Relay!vars)
  BY DEF Posted, Settled, Relay!vars
<1>a. /\ msg \in [Notifications -> {"absent", "stored", "outstanding", "due", "acked"}]
      /\ inbox \in Seq(Notifications) /\ cur \in Notifications \cup {0}
      /\ (cur = 0 <=> handler = "none")
  BY DEF NotifyTypeOK, Sub!TypeOK
<1>b. ASSUME UNCHANGED <<msg, inbox, cur, handler, forwarded>>
      PROVE  RelayInv' /\ Stutters
  BY <1>b DEF RelayInv, Posted, Settled
<1>1. ASSUME NEW i \in Notifications, Post(i)
      PROVE  RelayInv' /\ [Relay!Next]_(Relay!vars)
  <2>1. /\ msg[i] = "absent" /\ msg' = [msg EXCEPT ![i] = "stored"]
        /\ UNCHANGED <<inbox, cur, handler, forwarded>>
    BY <1>1 DEF Post, Sub!Store
  <2>2. RelayInv'
    BY <2>1, <1>a DEF RelayInv
  <2>3. Relay!Post(i)
    BY <2>1, <1>a DEF Relay!Post
  <2> QED BY <2>2, <2>3 DEF Relay!Next
<1>2. ASSUME NEW i \in Notifications, Deliver(i)
      PROVE  RelayInv' /\ [Relay!Next]_(Relay!vars)
  <2>1. /\ msg[i] \in {"due", "stored"} /\ msg' = [msg EXCEPT ![i] = "outstanding"]
        /\ inbox' = Append(inbox, i) /\ UNCHANGED <<cur, handler, forwarded>>
    BY <1>2 DEF Deliver, Sub!Deliver
  <2>2. Range(inbox') = Range(inbox) \cup {i}
    BY <2>1, <1>a, RangeAppend
  <2>3. RelayInv'
    BY <2>1, <2>2, <1>a DEF RelayInv
  <2>4. Stutters
    BY <2>1, <1>a DEF Posted, Settled
  <2> QED BY <2>3, <2>4, <1>0
<1>3. ASSUME NEW i \in Notifications, AckWaitExpire(i)
      PROVE  RelayInv' /\ [Relay!Next]_(Relay!vars)
  <2>1. /\ msg[i] = "outstanding" /\ msg' = [msg EXCEPT ![i] = "due"]
        /\ UNCHANGED <<inbox, cur, handler, forwarded>>
    BY <1>3 DEF AckWaitExpire, Sub!AckWaitExpire
  <2>2. RelayInv'
    BY <2>1, <1>a DEF RelayInv
  <2>3. Stutters
    BY <2>1, <1>a DEF Posted, Settled
  <2> QED BY <2>2, <2>3, <1>0
<1>4. CASE Unsubscribe
  <2>1. inbox' = << >> /\ UNCHANGED <<cur, handler, forwarded>>
    BY <1>4 DEF Unsubscribe
  <2>2. Range(inbox') = {}
    BY <2>1 DEF Range
  <2>3. CASE creator
    <3>1. msg' = [i \in Notifications |-> IF msg[i] = "absent" THEN "absent" ELSE "stored"]
      BY <1>4, <2>3 DEF Unsubscribe, Sub!Forgotten
    <3>2. RelayInv'
      BY <2>1, <2>2, <3>1, <1>a DEF RelayInv
    <3>3. Relay!Replay
      BY <2>1, <3>1, <1>a DEF Relay!Replay
    <3> QED BY <3>2, <3>3 DEF Relay!Next
  <2>4. CASE ~creator
    <3>1. msg' = msg
      BY <1>4, <2>4 DEF Unsubscribe
    <3>2. RelayInv' /\ Stutters
      BY <2>1, <2>2, <3>1 DEF RelayInv, Posted, Settled
    <3> QED BY <3>2, <1>0
  <2> QED BY <2>3, <2>4
<1>5. CASE Dispatch
  <2>1. /\ inbox # << >> /\ cur' = Head(inbox) /\ inbox' = Tail(inbox)
        /\ handler' = "publish" /\ UNCHANGED <<msg, forwarded>>
    BY <1>5 DEF Dispatch, Sub!Dispatch
  <2>2. Range(inbox) = Range(inbox') \cup {cur'}
    BY <2>1, <1>a, RangeTail
  <2>3. RelayInv' /\ Stutters
    BY <2>1, <2>2 DEF RelayInv, Posted, Settled
  <2> QED BY <2>3, <1>0
<1>6. CASE Publish
  <2>1. handler = "publish" /\ UNCHANGED <<msg, inbox, cur>>
    BY <1>6 DEF Publish, Sub!Calls
  <2>2. cur \in Notifications
    BY <2>1, <1>a
  <2>3. CASE Taken
    <3>1. forwarded' = forwarded \cup {cur}
      BY <2>3 DEF Taken
    <3>2. RelayInv'
      BY <2>1, <3>1 DEF RelayInv
    <3>3. msg[cur] # "absent"
      BY <2>2, DeliveryAssumption DEF RelayInv
    <3>4. Relay!Forward(cur)
      BY <2>1, <2>2, <3>1, <3>3 DEF Relay!Forward
    <3> QED BY <2>2, <3>2, <3>4 DEF Relay!Next
  <2>4. CASE ~Taken
    <3>1. handler' = "nak" /\ forwarded' = forwarded
      BY <1>6, <2>4 DEF Publish, Sub!Calls
    <3>2. RelayInv' /\ Stutters
      BY <2>1, <3>1 DEF RelayInv, Posted, Settled
    <3> QED BY <3>2, <1>0
  <2> QED BY <2>3, <2>4
<1>7. CASE Reply
  <2>1. /\ handler \in {"ack", "nak"}
        /\ cur' = 0 /\ handler' = "none" /\ UNCHANGED <<inbox, forwarded>>
    BY <1>7 DEF Reply, Sub!Ack, Sub!Nak, Sub!ReplyLost, Sub!Done
  <2>2. cur \in Notifications
    BY <2>1, <1>a
  <2>3. CASE Sub!Ack
    <3>1. /\ handler = "ack"
          /\ msg' = [msg EXCEPT ![cur] = IF @ \in {"outstanding", "due"} THEN "acked" ELSE @]
      BY <2>3 DEF Sub!Ack
    <3>2. RelayInv'
      BY <2>1, <2>2, <3>1, <1>a DEF RelayInv
    <3>3. CASE msg[cur] \in {"outstanding", "due"}
      <4>1. Relay!Settle(cur)
        BY <2>1, <2>2, <3>1, <3>3, <1>a DEF RelayInv, Relay!Settle
      <4>2. Relay!Next
        BY <2>2, <4>1 DEF Relay!Next, Relay!Settle
      <4> QED BY <3>2, <4>2
    <3>4. CASE msg[cur] \notin {"outstanding", "due"}
      <4>1. Stutters
        BY <2>1, <3>1, <3>4, <1>a DEF Posted, Settled
      <4> QED BY <3>2, <4>1, <1>0
    <3> QED BY <3>3, <3>4
  <2>4. CASE ~Sub!Ack
    <3>1. msg' = msg \/ msg' = [msg EXCEPT ![cur] = IF @ = "outstanding" THEN "due" ELSE @]
      BY <1>7, <2>4 DEF Reply, Sub!Nak, Sub!ReplyLost
    <3>2. \A i \in Notifications :
            (msg'[i] = "absent" <=> msg[i] = "absent") /\ (msg'[i] = "acked" <=> msg[i] = "acked")
      BY <2>2, <3>1, <1>a
    <3>3. Range(inbox) \subseteq Notifications
      BY <1>a DEF Range
    <3>4. RelayInv'
      BY <2>1, <3>2, <3>3 DEF RelayInv
    <3>5. Stutters
      BY <2>1, <3>2 DEF Posted, Settled
    <3> QED BY <3>4, <3>5, <1>0
  <2> QED BY <2>3, <2>4
<1>8. CASE ProcessEnds
  <2>1. /\ inbox' = << >> /\ cur' = 0 /\ handler' = "none"
        /\ UNCHANGED <<msg, forwarded>>
    BY <1>8 DEF ProcessEnds, Sub!Gone
  <2>2. Range(inbox') = {}
    BY <2>1 DEF Range
  <2>3. RelayInv' /\ Stutters
    BY <2>1, <2>2 DEF RelayInv, Posted, Settled
  <2> QED BY <2>3, <1>0
<1>9. CASE \/ Unbind \/ Subscribe \/ HubSubscribe \/ HubDisconnect \/ Handle
           \/ ProcessStarts \/ ProcessSignalled \/ UNCHANGED notifyVars
  <2>1. UNCHANGED <<msg, inbox, cur, handler, forwarded>>
    BY <1>9 DEF Unbind, Subscribe, HubSubscribe, HubDisconnect, Handle, ProcessStarts,
                ProcessSignalled, notifyVars, sub
  <2> QED BY <2>1, <1>b, <1>0
<1> QED
  BY <1>1, <1>2, <1>3, <1>4, <1>5, <1>6, <1>7, <1>8, <1>9
  DEF NotifyNext, BridgeNext, Callback

\* The state is well typed, and nothing of a subscription outlives its process
\* (main.go:249-266).
THEOREM NotifyTypeCorrect == NotifySpec => []NotifyTypeOK
BY NotifyTypeInit, NotifyTypeStep, PTL DEF NotifySpec

\* The bridge is a relay: no notification is acknowledged (broker.go:348) that
\* Redis has not taken (notification_bridge.go:40), and only a deleted consumer
\* (broker.go:355) forgets an acknowledgement.
THEOREM BridgeRelays == NotifySpec => NotificationRelay
BY NotifyTypeInit, NotifyTypeStep, RelayInit, RelayStep, PTL
DEF NotifySpec, NotificationRelay, Relay!Spec
-----------------------------------------------------------------------------
(* The order of the stream                                                 *)

\* y may follow x on the way to the hub if it is later in the stream, or in G.
Later(G, x, y) == x < y \/ y \in G

Ordered(G, s) == \A a, b \in DOMAIN s : a < b => Later(G, s[a], s[b])

Follows(G, S, T) == \A x \in S, y \in T : Later(G, x, y)

Pending == IF handler = "publish" THEN {cur} ELSE {}

Seen == Range(got) \cup Range(feed) \cup Pending \cup Range(inbox)

\* What the hub got, what Redis hands it, the callback's notification and those
\* that wait for the callback are in order, one after the other.
OrderInv ==
  /\ Ordered(again, got) /\ Ordered(again, feed) /\ Ordered(again, inbox)
  /\ Follows(again, Range(got), Range(feed) \cup Pending \cup Range(inbox))
  /\ Follows(again, Range(feed), Pending \cup Range(inbox))
  /\ Follows(again, Pending, Range(inbox))

\* The consumer goes through the stream from its first message, and begins
\* again only with messages that it has delivered before.
StreamInv ==
  /\ \A i, j \in Notifications : i < j =>
       /\ msg[i] = "absent" => msg[j] = "absent"
       /\ msg[i] = "stored" => msg[j] \in {"absent", "stored"}
  /\ \A x \in Seen : msg[x] # "absent"
  /\ \A x \in Seen : \A i \in Notifications :
       i <= x /\ msg[i] = "stored" => i \in again

LEMMA OrderedAppend ==
  ASSUME NEW G, NEW s \in Seq(Notifications), NEW x \in Notifications,
         Ordered(G, s), Follows(G, Range(s), {x})
  PROVE  Ordered(G, Append(s, x))
<1>1. /\ Len(s) \in Nat /\ DOMAIN s = 1 .. Len(s)
      /\ DOMAIN Append(s, x) = 1 .. Len(s) + 1
      /\ Append(s, x)[Len(s) + 1] = x
      /\ \A n \in 1 .. Len(s) : Append(s, x)[n] = s[n]
  OBVIOUS
<1> DEFINE t == Append(s, x)
<1>2. /\ DOMAIN t = 1 .. Len(s) + 1 /\ t[Len(s) + 1] = x
      /\ \A n \in 1 .. Len(s) : t[n] = s[n]
  BY <1>1
<1> HIDE DEF t
<1>3. ASSUME NEW a \in DOMAIN t, NEW b \in DOMAIN t, a < b PROVE Later(G, t[a], t[b])
  <2>1. a \in 1 .. Len(s) /\ t[a] = s[a]
    BY <1>1, <1>2, <1>3
  <2>2. CASE b \in 1 .. Len(s)
    BY <1>1, <1>2, <1>3, <2>1, <2>2 DEF Ordered
  <2>3. CASE b = Len(s) + 1
    <3>1. s[a] \in Range(s)
      BY <1>1, <2>1 DEF Range
    <3> QED BY <1>2, <2>1, <2>3, <3>1 DEF Follows
  <2> QED BY <1>1, <1>2, <2>2, <2>3
<1>4. Ordered(G, t)
  BY <1>3 DEF Ordered
<1> QED BY <1>4 DEF t

LEMMA OrderedTail ==
  ASSUME NEW G, NEW s \in Seq(Notifications), s # << >>, Ordered(G, s)
  PROVE  Ordered(G, Tail(s)) /\ Follows(G, {Head(s)}, Range(Tail(s)))
<1>1. /\ Len(s) \in Nat \ {0} /\ DOMAIN s = 1 .. Len(s) /\ Head(s) = s[1]
      /\ DOMAIN Tail(s) = 1 .. Len(s) - 1
      /\ \A n \in 1 .. Len(s) - 1 : Tail(s)[n] = s[n + 1]
  OBVIOUS
<1> DEFINE t == Tail(s)
<1>2. /\ DOMAIN t = 1 .. Len(s) - 1 /\ \A n \in 1 .. Len(s) - 1 : t[n] = s[n + 1]
  BY <1>1
<1> HIDE DEF t
<1>3. ASSUME NEW a \in DOMAIN t, NEW b \in DOMAIN t, a < b PROVE Later(G, t[a], t[b])
  <2>1. a + 1 \in DOMAIN s /\ b + 1 \in DOMAIN s /\ a + 1 < b + 1
    BY <1>1, <1>2, <1>3
  <2> QED BY <1>2, <2>1 DEF Ordered
<1>4. ASSUME NEW b \in DOMAIN t PROVE Later(G, s[1], t[b])
  <2>1. 1 \in DOMAIN s /\ b + 1 \in DOMAIN s /\ 1 < b + 1
    BY <1>1, <1>2
  <2> QED BY <1>2, <2>1 DEF Ordered
<1>5. Ordered(G, t) /\ Follows(G, {s[1]}, Range(t))
  BY <1>3, <1>4 DEF Ordered, Follows, Range
<1> QED BY <1>1, <1>5 DEF t

LEMMA OrderedTypes ==
  NotifyTypeOK =>
    /\ inbox \in Seq(Notifications) /\ feed \in Seq(Notifications) /\ got \in Seq(Notifications)
    /\ cur \in Notifications \cup {0} /\ (cur = 0 <=> handler = "none")
    /\ msg \in [Notifications -> {"absent", "stored", "outstanding", "due", "acked"}]
    /\ Seen \subseteq Notifications
<1> SUFFICES ASSUME NotifyTypeOK
             PROVE  /\ inbox \in Seq(Notifications) /\ feed \in Seq(Notifications)
                    /\ got \in Seq(Notifications)
                    /\ cur \in Notifications \cup {0} /\ (cur = 0 <=> handler = "none")
                    /\ msg \in [Notifications -> {"absent", "stored", "outstanding", "due", "acked"}]
                    /\ Seen \subseteq Notifications
  OBVIOUS
<1>1. /\ inbox \in Seq(Notifications) /\ feed \in Seq(Notifications) /\ got \in Seq(Notifications)
      /\ cur \in Notifications \cup {0} /\ (cur = 0 <=> handler = "none")
      /\ msg \in [Notifications -> {"absent", "stored", "outstanding", "due", "acked"}]
  BY DEF NotifyTypeOK, Sub!TypeOK
<1>2. /\ Range(inbox) \subseteq Notifications /\ Range(feed) \subseteq Notifications
      /\ Range(got) \subseteq Notifications
  BY <1>1 DEF Range
<1>3. Pending \subseteq Notifications
  BY <1>1 DEF Pending
<1> QED BY <1>1, <1>2, <1>3 DEF Seen

LEMMA OrderStart == NotifyInit => OrderInv /\ StreamInv
<1> SUFFICES ASSUME NotifyInit PROVE OrderInv /\ StreamInv
  OBVIOUS
<1>1. /\ inbox = << >> /\ feed = << >> /\ got = << >> /\ handler = "none"
      /\ msg = [i \in Notifications |-> "absent"]
  BY DEF NotifyInit, Sub!Init
<1>2. /\ Range(inbox) = {} /\ Range(feed) = {} /\ Range(got) = {} /\ Pending = {}
      /\ DOMAIN inbox = {} /\ DOMAIN feed = {} /\ DOMAIN got = {}
  BY <1>1 DEF Range, Pending
<1>3. OrderInv
  BY <1>2 DEF OrderInv, Ordered, Follows
<1>4. Seen = {}
  BY <1>2 DEF Seen
<1>5. StreamInv
  BY <1>1, <1>4 DEF StreamInv
<1> QED BY <1>3, <1>5

\* Losing what is on its way, and delivering again, keeps what is left in order.
LEMMA OrderKept ==
  ASSUME OrderInv, got' = got, feed' \in {feed, << >>}, inbox' \in {inbox, << >>},
         Pending' \subseteq Pending, again \subseteq again'
  PROVE  OrderInv' /\ Seen' \subseteq Seen
<1>1. Range(<< >>) = {} /\ DOMAIN << >> = {}
  BY DEF Range
<1>2. /\ Range(got') = Range(got) /\ Range(feed') \subseteq Range(feed)
      /\ Range(inbox') \subseteq Range(inbox)
  BY <1>1
<1>3. Ordered(again', got') /\ Ordered(again', feed') /\ Ordered(again', inbox')
  BY <1>1 DEF OrderInv, Ordered, Later
<1>4. /\ Follows(again', Range(got'), Range(feed') \cup Pending' \cup Range(inbox'))
      /\ Follows(again', Range(feed'), Pending' \cup Range(inbox'))
      /\ Follows(again', Pending', Range(inbox'))
  BY <1>2 DEF OrderInv, Follows, Later
<1> QED BY <1>2, <1>3, <1>4 DEF OrderInv, Seen

LEMMA StreamKept ==
  ASSUME StreamInv, msg' = msg, Seen' \subseteq Seen, again \subseteq again'
  PROVE  StreamInv'
BY DEF StreamInv

\* A message that is delivered comes after all that were delivered before it, or
\* it was delivered before.
LEMMA DeliveredLater ==
  ASSUME NotifyTypeOK, StreamInv, NEW i \in Notifications, Deliver(i), NEW x \in Seen
  PROVE  Later(again', x, i)
<1>1. x \in Notifications /\ x \in Nat /\ i \in Nat
  BY OrderedTypes, DeliveryAssumption
<1>2. msg[i] \in {"due", "stored"} /\ again' = IF msg[i] = "due" THEN again \cup {i} ELSE again
  BY DEF Deliver, Sub!Deliver
<1>3. CASE msg[i] = "due"
  BY <1>2, <1>3 DEF Later
<1>4. CASE msg[i] = "stored"
  <2>1. i <= x => i \in again
    BY <1>4 DEF StreamInv
  <2> QED BY <1>1, <1>2, <1>4, <2>1 DEF Later
<1> QED BY <1>2, <1>3, <1>4

LEMMA OrderStep ==
  NotifyTypeOK /\ OrderInv /\ StreamInv /\ [NotifyNext]_notifyVars => OrderInv' /\ StreamInv'
<1> SUFFICES ASSUME NotifyTypeOK, OrderInv, StreamInv, [NotifyNext]_notifyVars
             PROVE  OrderInv' /\ StreamInv'
  OBVIOUS
<1>a. /\ inbox \in Seq(Notifications) /\ feed \in Seq(Notifications) /\ got \in Seq(Notifications)
      /\ cur \in Notifications \cup {0} /\ (cur = 0 <=> handler = "none")
      /\ msg \in [Notifications -> {"absent", "stored", "outstanding", "due", "acked"}]
      /\ Seen \subseteq Notifications
  BY OrderedTypes
<1>b. Notifications \subseteq Nat
  BY DeliveryAssumption
<1>1. ASSUME NEW i \in Notifications, Post(i) PROVE OrderInv' /\ StreamInv'
  <2>1. /\ msg[i] = "absent" /\ \A j \in Notifications : j < i => msg[j] # "absent"
        /\ msg' = [msg EXCEPT ![i] = "stored"]
        /\ UNCHANGED <<inbox, cur, handler, again, feed, got>>
    BY <1>1 DEF Post, Sub!Store, rest
  <2>2. OrderInv' /\ Seen' \subseteq Seen
    BY <2>1, OrderKept DEF Pending
  <2>3. \A a, b \in Notifications : a < b =>
          /\ msg'[a] = "absent" => msg'[b] = "absent"
          /\ msg'[a] = "stored" => msg'[b] \in {"absent", "stored"}
    BY <1>a, <1>b, <2>1 DEF StreamInv
  <2>4. \A x \in Seen' : msg'[x] # "absent"
    BY <1>a, <2>1, <2>2 DEF StreamInv
  <2>5. ASSUME NEW x \in Seen', NEW j \in Notifications, j <= x, msg'[j] = "stored"
        PROVE  j \in again'
    <3>1. x \in Notifications /\ msg[x] # "absent"
      BY <1>a, <2>2 DEF StreamInv
    <3>2. j # i
      BY <1>b, <2>1, <2>5, <3>1 DEF StreamInv
    <3> QED BY <1>a, <2>1, <2>2, <2>5, <3>2 DEF StreamInv
  <2> QED BY <2>2, <2>3, <2>4, <2>5 DEF StreamInv
<1>2. ASSUME NEW i \in Notifications, Deliver(i) PROVE OrderInv' /\ StreamInv'
  <2>1. /\ \/ msg[i] = "due"
           \/ msg[i] = "stored" /\ \A j \in Notifications : j < i => msg[j] # "stored"
        /\ msg' = [msg EXCEPT ![i] = "outstanding"] /\ inbox' = Append(inbox, i)
        /\ again \subseteq again' /\ UNCHANGED <<cur, handler, feed, got>>
    BY <1>2 DEF Deliver, Sub!Deliver, rest
  <2>2. Range(inbox') = Range(inbox) \cup {i} /\ Pending' = Pending
    BY <1>a, <2>1, RangeAppend DEF Pending
  <2>3. \A x \in Seen : Later(again', x, i)
    BY <1>2, DeliveredLater
  <2>4. Ordered(again', got') /\ Ordered(again', feed') /\ Ordered(again', inbox)
    BY <2>1 DEF OrderInv, Ordered, Later
  <2>5. Follows(again', Range(inbox), {i})
    BY <2>3 DEF Follows, Seen
  <2>6. Ordered(again', inbox')
    BY <1>a, <2>1, <2>4, <2>5, OrderedAppend
  <2>7. /\ Follows(again', Range(got'), Range(feed') \cup Pending' \cup Range(inbox'))
        /\ Follows(again', Range(feed'), Pending' \cup Range(inbox'))
        /\ Follows(again', Pending', Range(inbox'))
    <3>1. /\ Follows(again', Range(got), Range(feed) \cup Pending \cup Range(inbox))
          /\ Follows(again', Range(feed), Pending \cup Range(inbox))
          /\ Follows(again', Pending, Range(inbox))
      BY <2>1 DEF OrderInv, Follows, Later
    <3>2. \A x \in Range(got) \cup Range(feed) \cup Pending : Later(again', x, i)
      BY <2>3 DEF Seen
    <3> QED BY <2>1, <2>2, <3>1, <3>2 DEF Follows
  <2>8. Seen' = Seen \cup {i}
    BY <2>1, <2>2 DEF Seen
  <2>9. \A a, b \in Notifications : a < b =>
          /\ msg'[a] = "absent" => msg'[b] = "absent"
          /\ msg'[a] = "stored" => msg'[b] \in {"absent", "stored"}
    BY <1>a, <1>b, <2>1 DEF StreamInv
  <2>10. \A x \in Seen' : msg'[x] # "absent"
    BY <1>a, <2>1, <2>8 DEF StreamInv
  <2>11. ASSUME NEW x \in Seen', NEW j \in Notifications, j <= x, msg'[j] = "stored"
         PROVE  j \in again'
    <3>1. j # i /\ msg[j] = "stored"
      BY <1>a, <2>1, <2>11
    <3>2. CASE x \in Seen
      BY <2>1, <2>11, <3>1, <3>2 DEF StreamInv
    <3>3. CASE x = i
      BY <1>b, <2>1, <2>11, <3>1, <3>3 DEF StreamInv
    <3> QED BY <2>8, <3>2, <3>3
  <2> QED BY <2>4, <2>6, <2>7, <2>9, <2>10, <2>11 DEF OrderInv, StreamInv
<1>3. ASSUME NEW i \in Notifications, AckWaitExpire(i) PROVE OrderInv' /\ StreamInv'
  <2>1. /\ msg[i] = "outstanding" /\ msg' = [msg EXCEPT ![i] = "due"]
        /\ UNCHANGED <<inbox, cur, handler, again, feed, got>>
    BY <1>3 DEF AckWaitExpire, Sub!AckWaitExpire, rest
  <2>2. OrderInv' /\ Seen' \subseteq Seen
    BY <2>1, OrderKept DEF Pending
  <2>3. StreamInv'
    BY <1>a, <2>1, <2>2 DEF StreamInv
  <2> QED BY <2>2, <2>3
<1>4. CASE Unsubscribe
  <2>1. inbox' = << >> /\ UNCHANGED <<cur, handler, feed, got>> /\ again \subseteq again'
    BY <1>4 DEF Unsubscribe, Sub!Replayed, rest
  <2>2. OrderInv' /\ Seen' \subseteq Seen
    BY <2>1, OrderKept DEF Pending
  <2>3. CASE creator
    <3>1. /\ msg' = [i \in Notifications |-> IF msg[i] = "absent" THEN "absent" ELSE "stored"]
          /\ again' = again \cup {i \in Notifications : msg[i] \notin {"absent", "stored"}}
      BY <1>4, <2>3 DEF Unsubscribe, Sub!Forgotten, Sub!Replayed
    <3>2. StreamInv'
      BY <1>a, <2>2, <3>1 DEF StreamInv
    <3> QED BY <2>2, <3>2
  <2>4. CASE ~creator
    <3>1. msg' = msg
      BY <1>4, <2>4 DEF Unsubscribe
    <3> QED BY <2>1, <2>2, <3>1, StreamKept
  <2> QED BY <2>3, <2>4
<1>5. CASE Dispatch
  <2>1. /\ inbox # << >> /\ cur' = Head(inbox) /\ inbox' = Tail(inbox)
        /\ handler = "none" /\ handler' = "publish" /\ UNCHANGED <<msg, again, feed, got>>
    BY <1>5 DEF Dispatch, Sub!Dispatch, rest
  <2>2. Range(inbox) = Range(inbox') \cup {cur'}
    BY <1>a, <2>1, RangeTail
  <2>3. Pending = {} /\ Pending' = {cur'}
    BY <2>1 DEF Pending
  <2>4. Ordered(again', inbox') /\ Follows(again', Pending', Range(inbox'))
    BY <1>a, <2>1, <2>3, OrderedTail DEF OrderInv
  <2>5. OrderInv'
    BY <2>1, <2>2, <2>3, <2>4 DEF OrderInv, Follows
  <2>6. Seen' = Seen
    BY <2>1, <2>2, <2>3 DEF Seen
  <2> QED BY <2>1, <2>5, <2>6, StreamKept
<1>6. CASE Publish
  <2>1. /\ handler = "publish" /\ handler' # "publish"
        /\ UNCHANGED <<msg, inbox, cur, again, got>>
    BY <1>6 DEF Publish, Sub!Calls
  <2>2. Pending = {cur} /\ Pending' = {} /\ cur \in Notifications
    BY <1>a, <2>1 DEF Pending
  <2>3. CASE feed' = feed
    <3>1. OrderInv' /\ Seen' \subseteq Seen
      BY <2>1, <2>2, <2>3, OrderKept
    <3> QED BY <2>1, <3>1, StreamKept
  <2>4. CASE feed' = Append(feed, cur)
    <3>1. Range(feed') = Range(feed) \cup {cur}
      BY <1>a, <2>2, <2>4, RangeAppend
    <3>2. Follows(again, Range(feed), {cur})
      BY <2>2 DEF OrderInv, Follows
    <3>3. Ordered(again', feed')
      BY <1>a, <2>1, <2>2, <2>4, <3>2, OrderedAppend DEF OrderInv
    <3>4. OrderInv'
      BY <2>1, <2>2, <3>1, <3>3 DEF OrderInv, Follows
    <3>5. Seen' = Seen
      BY <2>1, <2>2, <3>1 DEF Seen
    <3> QED BY <2>1, <3>4, <3>5, StreamKept
  <2> QED BY <1>6, <2>3, <2>4 DEF Publish, Taken
<1>7. CASE Reply
  <2>1. /\ handler \in {"ack", "nak"} /\ cur' = 0 /\ handler' = "none"
        /\ UNCHANGED <<inbox, again, feed, got>>
    BY <1>7 DEF Reply, Sub!Ack, Sub!Nak, Sub!ReplyLost, Sub!Done, rest
  <2>2. OrderInv' /\ Seen' \subseteq Seen
    BY <2>1, OrderKept DEF Pending
  <2>3. \/ msg' = msg
        \/ msg' = [msg EXCEPT ![cur] = IF @ \in {"outstanding", "due"} THEN "acked" ELSE @]
        \/ msg' = [msg EXCEPT ![cur] = IF @ = "outstanding" THEN "due" ELSE @]
    BY <1>7 DEF Reply, Sub!Ack, Sub!Nak, Sub!ReplyLost
  <2>4. \A i \in Notifications :
          /\ msg'[i] = "absent" <=> msg[i] = "absent"
          /\ msg'[i] = "stored" <=> msg[i] = "stored"
    BY <1>a, <2>3
  <2>5. StreamInv'
    BY <1>a, <2>1, <2>2, <2>4 DEF StreamInv
  <2> QED BY <2>2, <2>5
<1>8. CASE Handle
  <2>1. /\ feed # << >> /\ got' = Append(got, Head(feed)) /\ feed' = Tail(feed)
        /\ UNCHANGED <<msg, inbox, cur, handler, again>>
    BY <1>8 DEF Handle, sub
  <2>2. Head(feed) \in Notifications /\ Range(feed) = Range(feed') \cup {Head(feed)}
    BY <1>a, <2>1, RangeTail
  <2>3. Range(got') = Range(got) \cup {Head(feed)} /\ Pending' = Pending
    BY <1>a, <2>1, <2>2, RangeAppend DEF Pending
  <2>4. Follows(again, Range(got), {Head(feed)})
    BY <2>2 DEF OrderInv, Follows
  <2>5. Ordered(again', got')
    BY <1>a, <2>1, <2>2, <2>4, OrderedAppend DEF OrderInv
  <2>6. Ordered(again', feed') /\ Follows(again', {Head(feed)}, Range(feed'))
    BY <1>a, <2>1, OrderedTail DEF OrderInv
  <2>7. OrderInv'
    BY <2>1, <2>2, <2>3, <2>5, <2>6 DEF OrderInv, Follows
  <2>8. Seen' = Seen
    BY <2>1, <2>2, <2>3 DEF Seen
  <2> QED BY <2>1, <2>7, <2>8, StreamKept
<1>9. CASE \/ Unbind \/ Subscribe \/ HubSubscribe \/ HubDisconnect
           \/ ProcessStarts \/ ProcessSignalled \/ ProcessEnds \/ UNCHANGED notifyVars
  <2>1. /\ UNCHANGED <<msg, again, got>> /\ feed' \in {feed, << >>} /\ inbox' \in {inbox, << >>}
        /\ (UNCHANGED <<cur, handler>> \/ handler' = "none")
    BY <1>9 DEF Unbind, Subscribe, HubSubscribe, HubDisconnect, ProcessStarts,
                ProcessSignalled, ProcessEnds, Sub!Gone, notifyVars, sub, rest
  <2>2. Pending' \subseteq Pending
    BY <2>1 DEF Pending
  <2>3. OrderInv' /\ Seen' \subseteq Seen
    BY <2>1, <2>2, OrderKept
  <2> QED BY <2>1, <2>3, StreamKept
<1> QED
  BY <1>1, <1>2, <1>3, <1>4, <1>5, <1>6, <1>7, <1>8, <1>9
  DEF NotifyNext, BridgeNext, Callback

LEMMA OrderSuffices == NotifyTypeOK /\ OrderInv => InOrder
<1> SUFFICES ASSUME NotifyTypeOK, OrderInv, NEW a \in DOMAIN got, NEW b \in DOMAIN got,
                    a < b, got[a] >= got[b]
             PROVE  got[b] \in again
  BY DEF InOrder
<1>1. got[a] \in Nat /\ got[b] \in Nat
  <2>1. got \in Seq(Notifications)
    BY OrderedTypes
  <2>2. got[a] \in Notifications /\ got[b] \in Notifications
    BY <2>1
  <2> QED BY <2>2, DeliveryAssumption
<1>2. Later(again, got[a], got[b])
  BY DEF OrderInv, Ordered
<1> QED BY <1>1, <1>2 DEF Later

\* The hub is handed the notifications in the order of the stream, each once,
\* but for those that JetStream delivered more than once: neither the one
\* callback at a time (notification_bridge.go:40) nor Redis, nor the hub's
\* subscriber, nor a restart puts them out of order.
THEOREM NotificationsInOrder == NotifySpec => []InOrder
BY NotifyTypeInit, NotifyTypeStep, OrderStart, OrderStep, OrderSuffices, PTL DEF NotifySpec

-----------------------------------------------------------------------------
(* Nothing out of nothing                                                  *)

\* What the hub was handed or will be, Redis took; what Redis took, a worker
\* published.
FromTheStream ==
  /\ Range(got) \cup Range(feed) \subseteq forwarded
  /\ \A i \in forwarded : msg[i] # "absent"

LEMMA FromTheStreamInit == NotifyInit => FromTheStream
<1> SUFFICES ASSUME NotifyInit PROVE FromTheStream
  OBVIOUS
<1>1. got = << >> /\ feed = << >> /\ forwarded = {}
  BY DEF NotifyInit
<1>2. Range(got) = {} /\ Range(feed) = {}
  BY <1>1 DEF Range
<1> QED BY <1>1, <1>2 DEF FromTheStream

LEMMA FromTheStreamStep ==
  NotifyTypeOK /\ RelayInv /\ FromTheStream /\ [NotifyNext]_notifyVars => FromTheStream'
<1> SUFFICES ASSUME NotifyTypeOK, RelayInv, FromTheStream, [NotifyNext]_notifyVars
             PROVE  FromTheStream'
  OBVIOUS
<1>a. /\ feed \in Seq(Notifications) /\ got \in Seq(Notifications)
      /\ cur \in Notifications \cup {0} /\ (cur = 0 <=> handler = "none")
      /\ msg \in [Notifications -> {"absent", "stored", "outstanding", "due", "acked"}]
      /\ forwarded \subseteq Notifications
  BY DEF NotifyTypeOK, Sub!TypeOK
\* No message leaves the stream.
<1>b. \A i \in Notifications : msg[i] # "absent" => msg'[i] # "absent"
  <2>1. \A i \in Posted : i \in Posted'
    BY RelayStep DEF Relay!Next, Relay!vars, Relay!Post, Relay!Forward, Relay!Settle,
                     Relay!Replay, Posted
  <2> QED BY <2>1 DEF Posted
<1>1. CASE Publish
  <2>1. handler = "publish" /\ UNCHANGED <<msg, got, cur>>
    BY <1>1 DEF Publish, Sub!Calls
  <2>2. cur \in Notifications /\ msg[cur] # "absent"
    BY <1>a, <2>1, DeliveryAssumption DEF RelayInv
  <2>3. \/ /\ forwarded' = forwarded \cup {cur}
           /\ feed' = feed \/ feed' = Append(feed, cur)
        \/ UNCHANGED <<feed, forwarded>>
    BY <1>1 DEF Publish, Taken
  <2>4. Range(Append(feed, cur)) = Range(feed) \cup {cur}
    BY <1>a, <2>2, RangeAppend
  <2> QED BY <2>1, <2>2, <2>3, <2>4 DEF FromTheStream
<1>2. CASE Handle
  <2>1. /\ feed # << >> /\ got' = Append(got, Head(feed)) /\ feed' = Tail(feed)
        /\ UNCHANGED <<msg, forwarded>>
    BY <1>2 DEF Handle, sub
  <2>2. Head(feed) \in Notifications /\ Range(feed) = Range(feed') \cup {Head(feed)}
    BY <1>a, <2>1, RangeTail
  <2>3. Range(got') = Range(got) \cup {Head(feed)}
    BY <1>a, <2>1, <2>2, RangeAppend
  <2> QED BY <2>1, <2>2, <2>3 DEF FromTheStream
<1>3. ASSUME UNCHANGED <<got, forwarded>>, feed' \in {feed, << >>} PROVE FromTheStream'
  <2>1. Range(<< >>) = {}
    BY DEF Range
  <2>2. Range(got') = Range(got) /\ Range(feed') \subseteq Range(feed)
    BY <1>3, <2>1
  <2> QED BY <1>3, <1>a, <1>b, <2>2 DEF FromTheStream
<1>4. CASE ~Publish /\ ~Handle
  <2>1. UNCHANGED <<got, forwarded>> /\ feed' \in {feed, << >>}
    BY <1>4 DEF NotifyNext, BridgeNext, Callback, Post, Deliver, AckWaitExpire, Subscribe,
                Unsubscribe, Dispatch, Reply, Unbind, HubSubscribe, HubDisconnect,
                ProcessStarts, ProcessSignalled, ProcessEnds, notifyVars, rest
  <2> QED BY <1>3, <2>1
<1> QED BY <1>1, <1>2, <1>4

\* The users see no notification that the workers did not publish: through
\* redeliveries, restarts and lost connections, all the hub is handed comes from
\* the stream and went through Redis (broker.go:325-349, notification_bridge.go:40).
THEOREM NothingInvented == NotifySpec => []FromTheStream
BY NotifyTypeInit, NotifyTypeStep, RelayInit, RelayStep, FromTheStreamInit,
   FromTheStreamStep, PTL DEF NotifySpec
=============================================================================
