---------------------------- MODULE WebSocketHub ----------------------------
(***************************************************************************)
(* internal/adapter/inbound/websocket: the Hub's loop, and the two         *)
(* goroutines of every connection, readPump (with the handler that calls   *)
(* it) and writePump.                                                      *)
(*                                                                         *)
(* register and unregister are unbuffered: the connection and the hub move *)
(* together.  The hub alone changes its clients, takes one case of its     *)
(* select at a time and sends a message to the clients of its user one     *)
(* after the other, while their writers drain their channels.              *)
(***************************************************************************)
EXTENDS Integers, Sequences, FiniteSets, Functions, Queues

CONSTANTS
  Clients,        \* connections, each one *Client
  Users,          \* whom their tokens name
  Nobody,         \* no user
  SendBuffer,     \* capacity of a client's send channel (256)
  BroadcastBuffer,\* capacity of the hub's broadcast channel (100)
  MaxMessages     \* bound: messages Redis hands to the hub

ASSUME HubAssumption ==
  /\ IsFiniteSet(Clients) /\ Nobody \notin Users
  /\ SendBuffer \in Nat \ {0} /\ BroadcastBuffer \in Nat \ {0}
  /\ MaxMessages \in Nat

VARIABLES
  hub,            \* "running", or "stopped" once Run has returned
  clients,        \* h.clients, the sets of all users together
  sending,        \* the rest of the snapshot for the message being sent
  feed,           \* history: the user of each message put in broadcast
  taken,          \* those the loop took out again: broadcast holds the others
  gauge,          \* metrics.ActiveWsConnections
  user,           \* of a connection
  reader,         \* where the handler and its readPump stand
  writer,         \* where writePump stands
  conn,           \* the connection: "open" or "closed"
  send,           \* the messages (indices of feed) in the send channel
  closes,         \* how often the send channel was closed
  delivered,      \* history: the messages written to the connection
  since           \* history: taken when the client was registered

loop  == <<hub, clients, sending, taken, gauge>>
pumps == <<user, reader, writer, conn>>
chans == <<send, closes, delivered, since>>
vars  == <<loop, feed, pumps, chans>>

-----------------------------------------------------------------------------
Init ==
  /\ hub = "running" /\ clients = {} /\ sending = {} /\ taken = 0 /\ gauge = 0
  /\ feed = << >>
  /\ user = [c \in Clients |-> Nobody]
  /\ reader = [c \in Clients |-> "none"]
  /\ writer = [c \in Clients |-> "none"]
  /\ conn = [c \in Clients |-> "open"]
  /\ send = [c \in Clients |-> << >>]
  /\ closes = [c \in Clients |-> 0]
  /\ delivered = [c \in Clients |-> << >>]
  /\ since = [c \in Clients |-> 0]

-----------------------------------------------------------------------------
(* The connection's goroutines                                             *)

\* The handler authenticates the token and blocks on hub.register.
Connect(c) ==
  /\ reader[c] = "none"
  /\ \E u \in Users : user' = [user EXCEPT ![c] = u]
  /\ reader' = [reader EXCEPT ![c] = "register"]
  /\ UNCHANGED <<loop, feed, writer, conn, chans>>

\* ReadMessage fails: the peer left, was silent for 60 seconds or sent too
\* much, or the connection was closed on this side.
ReadFails(c) ==
  /\ reader[c] = "reading"
  /\ reader' = [reader EXCEPT ![c] = "leaving"]
  /\ UNCHANGED <<loop, feed, user, writer, conn, chans>>

\* readPump's deferred conn.Close(); the handler then unregisters once more.
CloseConn(c) ==
  /\ reader[c] = "closing"
  /\ reader' = [reader EXCEPT ![c] = "leavingAgain"]
  /\ conn' = [conn EXCEPT ![c] = "closed"]
  /\ UNCHANGED <<loop, feed, user, writer, chans>>

WriterReturns(c) ==
  /\ writer' = [writer EXCEPT ![c] = "done"]
  /\ conn' = [conn EXCEPT ![c] = "closed"]

\* message, ok := <-c.send; what is in a closed channel comes first.
Write(c) ==
  /\ writer[c] = "select" /\ send[c] # << >>
  /\ send' = [send EXCEPT ![c] = Tail(@)]
  /\ \/ /\ conn[c] = "open"
        /\ delivered' = [delivered EXCEPT ![c] = Append(@, Head(send[c]))]
        /\ UNCHANGED <<writer, conn>>
     \/ WriterReturns(c) /\ UNCHANGED delivered
  /\ UNCHANGED <<loop, feed, user, reader, closes, since>>

WriteClose(c) ==
  /\ writer[c] = "select" /\ send[c] = << >> /\ closes[c] > 0
  /\ WriterReturns(c)
  /\ UNCHANGED <<loop, feed, user, reader, chans>>

\* The ticker's ping cannot be written (a ping that can be changes nothing).
PingFails(c) ==
  /\ writer[c] = "select"
  /\ WriterReturns(c)
  /\ UNCHANGED <<loop, feed, user, reader, chans>>

-----------------------------------------------------------------------------
(* The hub's loop                                                          *)

\* handleRedisMessage: SendToUser blocks while broadcast is full.
SendToUser(u) ==
  /\ Len(feed) < MaxMessages /\ Len(feed) - taken < BroadcastBuffer
  /\ feed' = Append(feed, u)
  /\ UNCHANGED <<loop, pumps, chans>>

Selecting == hub = "running" /\ sending = {}

Register(c) ==
  /\ Selecting /\ reader[c] = "register"
  /\ clients' = clients \cup {c} /\ gauge' = gauge + 1
  /\ reader' = [reader EXCEPT ![c] = "reading"]
  /\ writer' = [writer EXCEPT ![c] = "select"]
  /\ since' = [since EXCEPT ![c] = taken]
  /\ UNCHANGED <<hub, sending, feed, taken, user, conn, send, closes, delivered>>

CloseSend(c) == closes' = [closes EXCEPT ![c] = @ + 1]

Leaves(c) ==
  \/ /\ reader[c] = "leaving"
     /\ reader' = [reader EXCEPT ![c] = "closing"]
  \/ /\ reader[c] = "leavingAgain"
     /\ reader' = [reader EXCEPT ![c] = "done"]

UnregisterUnchecked(c) ==
  /\ Selecting /\ Leaves(c)
  /\ gauge' = gauge - 1
  /\ clients' = clients \ {c} /\ CloseSend(c)
  /\ UNCHANGED <<hub, sending, feed, taken, user, writer, conn, send, delivered, since>>

\* Both of the connection's sends to hub.unregister; the second finds the
\* client gone.
Unregister(c) ==
  /\ Selecting /\ Leaves(c)
  /\ gauge' = gauge - 1
  /\ clients' = clients \ {c}
  /\ IF c \in clients THEN CloseSend(c) ELSE UNCHANGED closes
  /\ UNCHANGED <<hub, sending, feed, taken, user, writer, conn, send, delivered, since>>

\* msg := <-h.broadcast, and the snapshot of its user's clients.
Broadcast ==
  /\ Selecting /\ taken < Len(feed)
  /\ taken' = taken + 1
  /\ sending' = {c \in clients : user[c] = feed[taken + 1]}
  /\ UNCHANGED <<hub, clients, gauge, feed, pumps, chans>>

Enqueue(c) ==
  /\ send' = [send EXCEPT ![c] = Append(@, taken)]
  /\ UNCHANGED <<clients, closes>>

SendUnbounded(c) ==
  /\ c \in sending /\ sending' = sending \ {c}
  /\ Enqueue(c)
  /\ UNCHANGED <<hub, taken, gauge, feed, pumps, delivered, since>>

SendOrBlock(c) ==
  /\ c \in sending /\ sending' = sending \ {c}
  /\ Len(send[c]) < SendBuffer /\ Enqueue(c)
  /\ UNCHANGED <<hub, taken, gauge, feed, pumps, delivered, since>>

SendOrDrop(c) ==
  /\ c \in sending /\ sending' = sending \ {c}
  /\ IF Len(send[c]) < SendBuffer THEN Enqueue(c) ELSE UNCHANGED <<send, clients, closes>>
  /\ UNCHANGED <<hub, taken, gauge, feed, pumps, delivered, since>>

SendOrForget(c) ==
  /\ c \in sending /\ sending' = sending \ {c}
  /\ IF Len(send[c]) < SendBuffer THEN Enqueue(c)
     ELSE clients' = clients \ {c} /\ UNCHANGED <<send, closes>>
  /\ UNCHANGED <<hub, taken, gauge, feed, pumps, delivered, since>>

\* sendToClient: a client whose channel is full is a slow consumer, whose
\* channel is closed and who is dropped.
SendToClient(c) ==
  /\ c \in sending /\ sending' = sending \ {c}
  /\ IF Len(send[c]) < SendBuffer THEN Enqueue(c)
     ELSE CloseSend(c) /\ clients' = clients \ {c} /\ UNCHANGED send
  /\ UNCHANGED <<hub, taken, gauge, feed, pumps, delivered, since>>

\* Shutdown cancels the hub's context and Run returns; nothing else is told.
Shutdown ==
  /\ Selecting /\ hub' = "stopped"
  /\ UNCHANGED <<clients, sending, taken, gauge, feed, pumps, chans>>

HubStep ==
  \/ \E c \in Clients : Register(c) \/ Unregister(c) \/ SendToClient(c)
  \/ Broadcast

Next ==
  \/ \E c \in Clients :
       \/ Connect(c) \/ ReadFails(c) \/ CloseConn(c)
       \/ Write(c) \/ WriteClose(c) \/ PingFails(c)
  \/ \E u \in Users : SendToUser(u)
  \/ HubStep \/ Shutdown

Spec == Init /\ [][Next]_vars

\* The hub's loop and the pumps run; a write ends within its deadline of 10
\* seconds; on a closed connection reads fail, and so does the next ping.
Fairness ==
  /\ WF_vars(HubStep)
  /\ \A c \in Clients :
       /\ WF_vars(CloseConn(c)) /\ WF_vars(Write(c)) /\ WF_vars(WriteClose(c))
       /\ WF_vars(conn[c] = "closed" /\ ReadFails(c))
       /\ WF_vars(conn[c] = "closed" /\ PingFails(c))

FairSpec == Spec /\ Fairness

-----------------------------------------------------------------------------
(* What the hub promises                                                   *)

LoopType ==
  /\ hub \in {"running", "stopped"} /\ clients \in SUBSET Clients
  /\ sending \in SUBSET clients /\ feed \in Seq(Users)
  /\ taken \in 0 .. Len(feed) /\ Len(feed) - taken <= BroadcastBuffer
  /\ gauge \in Int

PumpType ==
  /\ user \in [Clients -> Users \cup {Nobody}]
  /\ reader \in [Clients -> {"none", "register", "reading", "leaving", "closing",
                             "leavingAgain", "done"}]
  /\ writer \in [Clients -> {"none", "select", "done"}]
  /\ conn \in [Clients -> {"open", "closed"}]

ChanType ==
  /\ send \in [Clients -> Seq(Nat)] /\ delivered \in [Clients -> Seq(Nat)]
  /\ \A c \in Clients : Len(send[c]) <= SendBuffer
  /\ closes \in [Clients -> Nat] /\ since \in [Clients -> 0 .. taken]

TypeOK == LoopType /\ PumpType /\ ChanType

\* A client is registered exactly while its send channel is open and its
\* handler has registered it: although every connection unregisters twice and
\* a slow consumer is dropped in between, no channel is closed twice and the
\* hub never sends on a closed one (either would panic the process).
ClosedOnce ==
  \A c \in Clients :
    /\ closes[c] <= 1
    /\ c \in clients <=> writer[c] # "none" /\ closes[c] = 0

\* The messages of its user that the hub has sent a client so far.
Due(c) ==
  {i \in since[c] + 1 .. taken : feed[i] = user[c] /\ ~(c \in sending /\ i = taken)}

Got(c) == delivered[c] \o send[c]

\* A connection sees its own user's messages, in order, without a gap from the
\* moment it is registered: one that cannot be delivered is the last one it
\* could have seen, and while the client is registered and its writer runs
\* nothing is missing.
NoGap ==
  \A c \in Clients : writer[c] # "none" =>
    /\ PrefixOf(delivered[c], Due(c))
    /\ c \in clients /\ writer[c] = "select" => Range(Got(c)) = Due(c)

\* A connection that is closed, or that the hub has dropped, ends: both its
\* goroutines return, unless the hub has stopped taking from unregister.
ConnectionEnds ==
  \A c \in Clients :
    conn[c] = "closed" \/ (writer[c] # "none" /\ c \notin clients)
      ~> (reader[c] = "done" /\ writer[c] = "done") \/ hub = "stopped"

\* No client, however slow or dead, holds up the hub: a message handed to it is
\* sent to all of its user's clients, unless the hub is shut down.
HubServes ==
  \A n \in 1 .. MaxMessages :
    Len(feed) >= n ~> (taken >= n /\ sending = {}) \/ hub = "stopped"

\* The gauge is the number of connections, whenever none is coming or going.
ActiveConnections ==
  (\A c \in Clients : reader[c] \in {"none", "reading", "done"})
    => gauge = Cardinality({c \in Clients : reader[c] = "reading"})
=============================================================================
