---------------------------- MODULE PushConsumer ----------------------------
(***************************************************************************)
(* A JetStream push consumer without a limit on deliveries, and the client *)
(* side of its subscription: NATSBroker.SubscribeNotifications and         *)
(* StartDLQMonitor each have one.  The server delivers in stream order,    *)
(* again when a delivery is refused (Nak) or not acknowledged in time; the *)
(* client runs one callback at a time.                                     *)
(***************************************************************************)
EXTENDS Naturals, Sequences

CONSTANT Items             \* the stream's messages, by sequence number

VARIABLES
  msg,                     \* the consumer's view of each message
  open,                    \* the client's subscription is open
  inbox,                   \* deliveries waiting for the callback
  cur, handler,            \* the message of the running callback, 0 if none,
                           \* and the call it makes next
  again                    \* history: messages delivered more than once

vars == <<msg, open, inbox, cur, handler, again>>

Init ==
  /\ msg = [i \in Items |-> "absent"]
  /\ open = FALSE /\ inbox = << >> /\ cur = 0 /\ handler = "none"
  /\ again = {}

TypeOK ==
  /\ msg \in [Items -> {"absent", "stored", "outstanding", "due", "acked"}]
  /\ open \in BOOLEAN
  /\ inbox \in Seq(Items)
  /\ cur \in Items \cup {0}
  /\ handler \in {"none", "fetch", "publish", "ack", "nak"}
  /\ again \in SUBSET Items
  /\ cur = 0 <=> handler = "none"

\* A publisher's message is in the stream.
Store(i) ==
  /\ msg[i] = "absent"
  /\ \A j \in Items : j < i => msg[j] # "absent"
  /\ msg' = [msg EXCEPT ![i] = "stored"]
  /\ UNCHANGED <<open, inbox, cur, handler, again>>

Deliver(i) ==
  /\ open
  /\ \/ msg[i] = "due"
     \/ msg[i] = "stored" /\ \A j \in Items : j < i => msg[j] # "stored"
  /\ msg' = [msg EXCEPT ![i] = "outstanding"]
  /\ inbox' = Append(inbox, i)
  /\ again' = IF msg[i] = "due" THEN again \cup {i} ELSE again
  /\ UNCHANGED <<open, cur, handler>>

\* AckWait passes.
AckWaitExpire(i) ==
  /\ msg[i] = "outstanding"
  /\ msg' = [msg EXCEPT ![i] = "due"]
  /\ UNCHANGED <<open, inbox, cur, handler, again>>

Dispatch(call) ==
  /\ open /\ handler = "none" /\ inbox # << >>
  /\ cur' = Head(inbox) /\ inbox' = Tail(inbox) /\ handler' = call
  /\ UNCHANGED <<msg, open, again>>

Calls(call) == handler' = call /\ UNCHANGED <<msg, open, inbox, cur, again>>

Done == cur' = 0 /\ handler' = "none" /\ UNCHANGED <<open, inbox, again>>

\* msg.Ack(), also for a delivery that is late.  A consumer that was deleted
\* meanwhile knows nothing of the delivery.
Ack ==
  /\ handler = "ack"
  /\ msg' = [msg EXCEPT ![cur] = IF @ \in {"outstanding", "due"} THEN "acked" ELSE @]
  /\ Done

Nak ==
  /\ handler = "nak"
  /\ msg' = [msg EXCEPT ![cur] = IF @ = "outstanding" THEN "due" ELSE @]
  /\ Done

\* Neither of them is confirmed by the server, and either may be lost.
ReplyLost == handler \in {"ack", "nak"} /\ UNCHANGED msg /\ Done

\* The consumer is deleted: the next one begins with the stream's first message.
Forgotten == [i \in Items |-> IF msg[i] = "absent" THEN "absent" ELSE "stored"]

\* Messages that were delivered before and will be again.
Replayed == again \cup {i \in Items : msg[i] \notin {"absent", "stored"}}

\* What is left of the client's side when the process has ended.
Gone ==
  /\ open' = FALSE /\ inbox' = << >> /\ cur' = 0 /\ handler' = "none"
=============================================================================
