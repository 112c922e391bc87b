------------------------- MODULE WebSocketHubProofs -------------------------
(***************************************************************************)
(* Theorems about WebSocketHub for every set of connections and users and  *)
(* all channel capacities: the state is well typed, no send channel is     *)
(* closed twice or used after its close, connections see no gap, no client *)
(* holds up the hub, and by how much the gauge of connections is wrong.    *)
(***************************************************************************)
EXTENDS WebSocketHub, QueueLemmas, SequenceTheorems, TLAPS

-----------------------------------------------------------------------------
(* Type correctness                                                        *)

LEMMA HubTypeInit == Init => TypeOK
<1> SUFFICES ASSUME Init PROVE TypeOK
    OBVIOUS
<1> USE HubAssumption DEF Init
<1>1. LoopType
    BY EmptySeq DEF LoopType
<1>2. PumpType
    BY DEF PumpType
<1>3. ChanType
  <2>1. send \in [Clients -> Seq(Nat)] /\ delivered \in [Clients -> Seq(Nat)]
    BY EmptySeq
  <2> QED
    BY <2>1 DEF ChanType
<1> QED
    BY <1>1, <1>2, <1>3 DEF TypeOK

LEMMA HubTypeStep == TypeOK /\ [Next]_vars => TypeOK'
<1> SUFFICES ASSUME TypeOK, [Next]_vars PROVE TypeOK'
    OBVIOUS
<1> USE HubAssumption DEF TypeOK, LoopType, PumpType, ChanType, loop, pumps, chans
<1>1. ASSUME NEW c \in Clients, Connect(c) \/ ReadFails(c) \/ CloseConn(c)
      PROVE  TypeOK'
  <2>1. UNCHANGED <<loop, feed, chans>>
    BY <1>1 DEF Connect, ReadFails, CloseConn
  <2>2. LoopType' /\ ChanType'
    BY <2>1
  <2>3. Connect(c) => PumpType'
    BY DEF Connect
  <2>4. ReadFails(c) => PumpType'
    BY DEF ReadFails
  <2>5. CloseConn(c) => PumpType'
    BY DEF CloseConn
  <2>6. PumpType'
    BY <1>1, <2>3, <2>4, <2>5
  <2> QED
    BY <2>2, <2>6
<1>2. ASSUME NEW c \in Clients, Write(c) PROVE TypeOK'
  <2>1. Head(send[c]) \in Nat /\ Tail(send[c]) \in Seq(Nat)
        /\ Len(Tail(send[c])) <= SendBuffer
    BY <1>2 DEF Write
  <2>2. send' \in [Clients -> Seq(Nat)] /\ \A k \in Clients : Len(send'[k]) <= SendBuffer
    BY <1>2, <2>1 DEF Write
  <2>3. delivered' \in [Clients -> Seq(Nat)]
    <3>1. Append(delivered[c], Head(send[c])) \in Seq(Nat)
      BY <2>1
    <3>2. \/ delivered' = [delivered EXCEPT ![c] = Append(@, Head(send[c]))]
          \/ delivered' = delivered
      BY <1>2 DEF Write
    <3> QED
      BY <3>1, <3>2
  <2>4. UNCHANGED <<loop, feed, user, reader, closes, since>>
    BY <1>2 DEF Write
  <2>5. LoopType' /\ ChanType'
    BY <2>2, <2>3, <2>4
  <2>6. PumpType'
    BY <1>2, <2>4 DEF Write, WriterReturns
  <2> QED
    BY <2>5, <2>6
<1>3. ASSUME NEW c \in Clients, WriteClose(c) \/ PingFails(c) PROVE TypeOK'
    BY <1>3 DEF WriteClose, PingFails, WriterReturns
<1>4. ASSUME NEW u \in Users, SendToUser(u) PROVE TypeOK'
    BY <1>4 DEF SendToUser
<1>5. ASSUME NEW c \in Clients, Register(c) PROVE TypeOK'
  <2>1. LoopType'
    BY <1>5 DEF Register, Selecting
  <2>2. PumpType'
    BY <1>5 DEF Register
  <2>3. since' \in [Clients -> 0 .. taken']
    BY <1>5 DEF Register
  <2>4. ChanType'
    <3>1. UNCHANGED <<send, closes, delivered>>
      BY <1>5 DEF Register
    <3> QED
      BY <2>3, <3>1
  <2> QED
    BY <2>1, <2>2, <2>4
<1>6. ASSUME NEW c \in Clients, Unregister(c) PROVE TypeOK'
  <2>1. LoopType'
    BY <1>6 DEF Unregister, Selecting
  <2>2. PumpType'
    BY <1>6 DEF Unregister, Leaves
  <2>3. ChanType'
    <3>1. UNCHANGED <<taken, send, delivered, since>>
      BY <1>6 DEF Unregister
    <3>2. c \in clients => closes' = [closes EXCEPT ![c] = @ + 1]
      BY <1>6 DEF Unregister, CloseSend
    <3>3. c \notin clients => closes' = closes
      BY <1>6 DEF Unregister
    <3>4. closes[c] + 1 \in Nat
      OBVIOUS
    <3>5. closes' \in [Clients -> Nat]
      BY <3>2, <3>3, <3>4
    <3> QED
      BY <3>1, <3>5
  <2> QED
    BY <2>1, <2>2, <2>3
<1>7. CASE Broadcast
  <2>1. taken' = taken + 1 /\ taken' \in 0 .. Len(feed)
    BY <1>7 DEF Broadcast
  <2>2. sending' \in SUBSET clients
    BY <1>7 DEF Broadcast
  <2>3. UNCHANGED <<hub, clients, gauge, feed, pumps, chans>>
    BY <1>7 DEF Broadcast
  <2>4. \A k \in Clients : since[k] \in 0 .. taken'
    BY <2>1
  <2>5. since' \in [Clients -> 0 .. taken']
    BY <2>3, <2>4
  <2>6. LoopType'
    BY <2>1, <2>2, <2>3
  <2>7. PumpType' /\ ChanType'
    BY <2>3, <2>5
  <2> QED
    BY <2>6, <2>7
<1>8. ASSUME NEW c \in Clients, SendToClient(c) PROVE TypeOK'
  <2>1. UNCHANGED <<hub, taken, gauge, feed, pumps, delivered, since>>
    BY <1>8 DEF SendToClient
  <2>2. LoopType' /\ PumpType'
    BY <1>8, <2>1 DEF SendToClient, Enqueue
  <2>3. CASE Len(send[c]) < SendBuffer
    <3>1. Append(send[c], taken) \in Seq(Nat) /\ Len(Append(send[c], taken)) <= SendBuffer
      BY <2>3
    <3>2. send' = [send EXCEPT ![c] = Append(@, taken)] /\ UNCHANGED closes
      BY <1>8, <2>3 DEF SendToClient, Enqueue
    <3>3. ChanType'
      BY <2>1, <3>1, <3>2
    <3> QED
      BY <2>2, <3>3
  <2>4. CASE ~(Len(send[c]) < SendBuffer)
    <3>1. closes' = [closes EXCEPT ![c] = @ + 1] /\ UNCHANGED send
      BY <1>8, <2>4 DEF SendToClient, CloseSend
    <3>2. closes' \in [Clients -> Nat]
      BY <3>1
    <3>3. ChanType'
      BY <2>1, <3>1, <3>2
    <3> QED
      BY <2>2, <3>3
  <2> QED
    BY <2>3, <2>4
<1>9. CASE Shutdown
    BY <1>9 DEF Shutdown, Selecting
<1>10. CASE UNCHANGED vars
    BY <1>10 DEF vars
<1> QED
    BY <1>1, <1>2, <1>3, <1>4, <1>5, <1>6, <1>7, <1>8, <1>9, <1>10
    DEF Next, HubStep

\* Every reachable state is well typed: send channels and broadcast never hold
\* more than their capacity (hub.go:16, :50), and the snapshot of a broadcast
\* holds registered clients only (hub.go:141-150).
THEOREM HubTypeCorrect == Spec => []TypeOK
BY HubTypeInit, HubTypeStep, PTL DEF Spec

-----------------------------------------------------------------------------
(* Send channels                                                           *)

\* ClosedOnce, and that a client's channel and its writer are untouched until
\* the hub has registered it.
ChannelInv ==
  /\ ClosedOnce
  /\ \A c \in Clients :
       /\ writer[c] = "none" <=> reader[c] \in {"none", "register"}
       /\ writer[c] = "none" => closes[c] = 0

LEMMA ChannelInit == Init => ChannelInv
BY DEF Init, ChannelInv, ClosedOnce

LEMMA ChannelStep == TypeOK /\ ChannelInv /\ [Next]_vars => ChannelInv'
<1> SUFFICES ASSUME TypeOK, ChannelInv, [Next]_vars PROVE ChannelInv'
    OBVIOUS
<1>t. /\ clients \in SUBSET Clients /\ sending \in SUBSET clients
      /\ reader \in [Clients -> {"none", "register", "reading", "leaving",
                                 "closing", "leavingAgain", "done"}]
      /\ writer \in [Clients -> {"none", "select", "done"}]
      /\ closes \in [Clients -> Nat]
    BY DEF TypeOK, LoopType, PumpType, ChanType
<1> USE DEF ChannelInv, ClosedOnce, loop, pumps, chans
<1>1. ASSUME NEW c \in Clients, Connect(c) \/ ReadFails(c) \/ CloseConn(c)
      PROVE  ChannelInv'
    BY <1>1, <1>t DEF Connect, ReadFails, CloseConn
<1>2. ASSUME NEW c \in Clients, Write(c) \/ WriteClose(c) \/ PingFails(c)
      PROVE  ChannelInv'
    BY <1>2, <1>t DEF Write, WriteClose, PingFails, WriterReturns
<1>3. ASSUME NEW c \in Clients, Register(c) PROVE ChannelInv'
    BY <1>3, <1>t DEF Register
<1>4. ASSUME NEW c \in Clients, Unregister(c) PROVE ChannelInv'
    BY <1>4, <1>t DEF Unregister, Leaves, CloseSend
<1>5. ASSUME NEW c \in Clients, SendToClient(c) PROVE ChannelInv'
    BY <1>5, <1>t DEF SendToClient, Enqueue, CloseSend
<1>6. ASSUME UNCHANGED <<clients, reader, writer, closes>> PROVE ChannelInv'
    BY <1>6
<1> QED
    BY <1>1, <1>2, <1>3, <1>4, <1>5, <1>6
    DEF Next, HubStep, SendToUser, Broadcast, Shutdown, vars

\* No send channel is closed twice (hub.go:130, :168) and the hub sends only to
\* clients whose channel is open (hub.go:165).
THEOREM HubClosesOnce == Spec => []ClosedOnce
<1>1. ChannelInv => ClosedOnce
    BY DEF ChannelInv
<1> QED
    BY HubTypeInit, HubTypeStep, ChannelInit, ChannelStep, <1>1, PTL DEF Spec

-----------------------------------------------------------------------------
(* No gaps                                                                 *)

\* NoGap, with what its steps need: while the writer runs, what is delivered
\* and what is queued are a prefix together; nothing is either before the client
\* is registered; and the message being sent is new to the rest of the snapshot.
Fed(c) ==
  /\ writer[c] = "none" => send[c] = << >> /\ delivered[c] = << >>
  /\ writer[c] # "none" => PrefixOf(delivered[c], Due(c))
  /\ writer[c] = "select" => PrefixOf(Got(c), Due(c))
  /\ c \in clients /\ writer[c] = "select" => Due(c) \subseteq Range(Got(c))
  /\ c \in sending => since[c] < taken /\ feed[taken] = user[c]

FeedInv == \A c \in Clients : Fed(c)

LEMMA FeedGivesNoGap == FeedInv => NoGap
BY DEF FeedInv, Fed, NoGap, PrefixOf

LEMMA FeedInit == TypeOK /\ Init => FeedInv
BY DEF Init, FeedInv, Fed

\* What does not touch a client's messages keeps it fed.
LEMMA FedUnchanged ==
  ASSUME NEW c \in Clients, Fed(c), Due(c)' = Due(c),
         UNCHANGED <<send[c], delivered[c]>>,
         writer'[c] # writer[c] => writer'[c] = "done" /\ writer[c] = "select",
         c \in clients' => c \in clients,
         c \in sending' => c \in sending /\ UNCHANGED <<since[c], taken, feed[taken], user[c]>>
  PROVE  Fed(c)'
<1>1. Got(c)' = Got(c)
    BY DEF Got
<1> QED
    BY <1>1 DEF Fed

LEMMA DueType ==
  ASSUME TypeOK, NEW c \in Clients
  PROVE  /\ Due(c) \in SUBSET Nat /\ \A i \in Due(c) : i <= taken
         /\ c \in sending => \A i \in Due(c) : i < taken
<1>1. since[c] \in Nat /\ taken \in Nat
    BY DEF TypeOK, LoopType, ChanType
<1> QED
    BY <1>1 DEF Due

\* The writer takes a message: it is delivered, or the writer ends with it.
LEMMA WriteFeeds ==
  ASSUME TypeOK, NEW c \in Clients, Fed(c), Write(c)
  PROVE  Fed(c)'
<1>1. /\ send[c] \in Seq(Nat) /\ delivered[c] \in Seq(Nat) /\ send[c] # << >>
      /\ writer[c] = "select" /\ writer \in [Clients -> {"none", "select", "done"}]
      /\ send'[c] = Tail(send[c])
    BY DEF Write, TypeOK, ChanType, PumpType
<1>2. UNCHANGED <<loop, feed, user, reader, closes, since>>
    BY DEF Write
<1>3. Due(c)' = Due(c) /\ Due(c) \in SUBSET Nat
    BY <1>2, DueType DEF Due, loop
<1>4. c \in sending' => since'[c] < taken' /\ feed'[taken'] = user'[c]
    BY <1>2 DEF Fed, loop
<1>5. PrefixOf(delivered[c], Due(c)) /\ PrefixOf(Got(c), Due(c))
    BY <1>1 DEF Fed
<1>6. CASE delivered'[c] = delivered[c] /\ writer'[c] = "done"
    BY <1>3, <1>4, <1>5, <1>6 DEF Fed
<1>7. CASE delivered'[c] = Append(delivered[c], Head(send[c])) /\ writer'[c] = "select"
  <2>1. Got(c)' = Got(c)
    BY <1>1, <1>7, ConcatMove DEF Got
  <2>2. Tail(send[c]) \in Seq(Nat) /\ delivered'[c] \in Seq(Nat)
    BY <1>1, <1>7
  <2>3. Got(c) = delivered'[c] \o Tail(send[c])
    BY <1>1, <1>7, ConcatMove DEF Got
  <2>4. PrefixOf(delivered'[c], Due(c))
    BY <1>3, <1>5, <2>2, <2>3, PrefixCut
  <2>5. c \in clients' => Due(c)' \subseteq Range(Got(c)')
    BY <1>1, <1>2, <1>3, <2>1 DEF Fed, loop
  <2> QED
    BY <1>3, <1>4, <1>5, <1>7, <2>1, <2>4, <2>5 DEF Fed
<1> QED
    BY <1>1, <1>6, <1>7
    DEF Write, WriterReturns, TypeOK, PumpType, ChanType

\* The hub hands a client the message, or drops it.
LEMMA SendFeeds ==
  ASSUME TypeOK, ChannelInv, NEW c \in Clients, Fed(c), SendToClient(c)
  PROVE  Fed(c)'
<1>1. /\ send[c] \in Seq(Nat) /\ delivered[c] \in Seq(Nat) /\ taken \in Nat
      /\ c \in clients /\ c \in sending /\ writer[c] \in {"select", "done"}
      /\ since[c] \in Nat
    BY DEF SendToClient, TypeOK, LoopType, ChanType, PumpType, ChannelInv, ClosedOnce
<1>2. UNCHANGED <<hub, taken, gauge, feed, user, writer, delivered, since>>
      /\ sending' = sending \ {c}
    BY DEF SendToClient, pumps
<1>3. since[c] < taken /\ feed[taken] = user[c]
    BY <1>1 DEF Fed
<1>4. Due(c)' = Due(c) \cup {taken}
    BY <1>1, <1>2, <1>3 DEF Due
<1>5. Due(c) \in SUBSET Nat /\ \A i \in Due(c) : i < taken
    BY <1>1, DueType
<1>6. PrefixOf(delivered'[c], Due(c)')
  <2>1. PrefixOf(delivered[c], Due(c))
    BY <1>1 DEF Fed
  <2>2. PrefixOf(delivered[c], Due(c) \cup {taken})
    BY <1>1, <1>5, <2>1, PrefixKept
  <2> QED
    BY <1>2, <1>4, <2>2
<1>7. c \notin sending'
    BY <1>2
<1>8. CASE UNCHANGED send /\ c \notin clients'
  <2>1. Got(c)' = Got(c)
    BY <1>2, <1>8 DEF Got
  <2>2. ASSUME writer[c] = "select" PROVE PrefixOf(Got(c), Due(c)')
    <3>1. PrefixOf(Got(c), Due(c))
      BY <2>2 DEF Fed
    <3>2. PrefixOf(Got(c), Due(c) \cup {taken})
      BY <1>1, <1>5, <3>1, PrefixKept
    <3> QED
      BY <1>4, <3>2
  <2> QED
    BY <1>1, <1>2, <1>6, <1>7, <1>8, <2>1, <2>2 DEF Fed
<1>9. CASE send'[c] = Append(send[c], taken)
  <2>1. Got(c)' = Append(Got(c), taken) /\ Got(c) \in Seq(Nat)
    <3>1. Got(c)' = delivered[c] \o Append(send[c], taken)
      BY <1>2, <1>9 DEF Got
    <3>2. \A d, s \in Seq(Nat) : d \o Append(s, taken) = Append(d \o s, taken)
      BY <1>1, ConcatAppend
    <3>3. Got(c) = delivered[c] \o send[c] /\ Got(c) \in Seq(Nat)
      BY <1>1 DEF Got
    <3>4. delivered[c] \o Append(send[c], taken) = Append(delivered[c] \o send[c], taken)
      BY <1>1, <3>2
    <3>5. Got(c)' = Append(Got(c), taken)
      BY <3>1, <3>3, <3>4
    <3> QED
      BY <3>3, <3>5
  <2>2. ASSUME writer[c] = "select"
        PROVE  PrefixOf(Got(c)', Due(c)') /\ Due(c)' \subseteq Range(Got(c)')
    <3>1. Increasing(Got(c)) /\ Range(Got(c)) = Due(c)
      BY <1>1, <2>2 DEF Fed, PrefixOf
    <3>2. /\ PrefixOf(Append(Got(c), taken), Due(c) \cup {taken})
          /\ Range(Append(Got(c), taken)) = Due(c) \cup {taken}
      BY <1>1, <1>5, <2>1, <3>1, PrefixGrows
    <3> QED
      BY <1>4, <2>1, <3>2
  <2> QED
    BY <1>1, <1>2, <1>6, <1>7, <2>1, <2>2 DEF Fed
<1> QED
    BY <1>1, <1>8, <1>9 DEF SendToClient, Enqueue, TypeOK, ChanType

\* A step of the hub or of another connection.
LEMMA FeedStep == TypeOK /\ ChannelInv /\ FeedInv /\ [Next]_vars => FeedInv'
<1> SUFFICES ASSUME TypeOK, ChannelInv, FeedInv, [Next]_vars, NEW k \in Clients
             PROVE  Fed(k)'
    BY DEF FeedInv
<1>a. Fed(k)
    BY DEF FeedInv
<1>t. /\ clients \in SUBSET Clients /\ sending \in SUBSET clients
      /\ feed \in Seq(Users) /\ taken \in 0 .. Len(feed)
      /\ user \in [Clients -> Users \cup {Nobody}]
      /\ reader \in [Clients -> {"none", "register", "reading", "leaving",
                                 "closing", "leavingAgain", "done"}]
      /\ writer \in [Clients -> {"none", "select", "done"}]
      /\ send \in [Clients -> Seq(Nat)] /\ delivered \in [Clients -> Seq(Nat)]
      /\ since \in [Clients -> 0 .. taken]
    BY DEF TypeOK, LoopType, PumpType, ChanType
<1>n. writer[k] = "none" => k \notin clients /\ k \notin sending
    BY <1>t DEF ChannelInv, ClosedOnce
<1> USE DEF loop, pumps, chans
<1>1. ASSUME UNCHANGED <<sending, taken, feed, since, user>>,
             UNCHANGED <<send[k], delivered[k]>>, clients' \subseteq clients,
             writer'[k] # writer[k] => writer'[k] = "done" /\ writer[k] = "select"
      PROVE  Fed(k)'
  <2>1. Due(k)' = Due(k)
    BY <1>1 DEF Due
  <2> QED
    BY <1>1, <1>a, <2>1, FedUnchanged
<1>2. ASSUME NEW c \in Clients, Connect(c) PROVE Fed(k)'
  <2>1. CASE k = c
    <3>1. writer[k] = "none"
      BY <1>2, <2>1 DEF Connect, ChannelInv
    <3> QED
      BY <1>2, <1>a, <1>n, <3>1 DEF Connect, Fed
  <2>2. CASE k # c
    <3>1. user'[k] = user[k]
      BY <1>2, <1>t, <2>2 DEF Connect
    <3>2. UNCHANGED <<sending, taken, feed, since, clients, writer, send, delivered>>
      BY <1>2 DEF Connect
    <3>3. Due(k)' = Due(k)
      BY <3>1, <3>2 DEF Due
    <3> QED
      BY <1>a, <3>1, <3>2, <3>3, FedUnchanged
  <2> QED
    BY <2>1, <2>2
<1>3. ASSUME NEW c \in Clients, Write(c) PROVE Fed(k)'
  <2>1. CASE k = c
    BY <1>3, <1>a, <2>1, WriteFeeds
  <2>2. CASE k # c
    BY <1>1, <1>3, <1>t, <2>2 DEF Write, WriterReturns
  <2> QED
    BY <2>1, <2>2
<1>4. ASSUME NEW c \in Clients,
             \/ ReadFails(c) \/ CloseConn(c) \/ WriteClose(c) \/ PingFails(c)
             \/ Unregister(c)
      PROVE  Fed(k)'
    BY <1>1, <1>4, <1>t
    DEF ReadFails, CloseConn, WriteClose, PingFails, WriterReturns, Unregister
<1>5. ASSUME NEW u \in Users, SendToUser(u) PROVE Fed(k)'
  <2>1. \A i \in 1 .. taken : feed'[i] = feed[i]
    BY <1>5, <1>t DEF SendToUser
  <2>2. UNCHANGED <<loop, pumps, chans>>
    BY <1>5 DEF SendToUser
  <2>3. Due(k)' = Due(k)
    BY <1>t, <2>1, <2>2 DEF Due
  <2>4. k \in sending => feed'[taken] = feed[taken]
    BY <1>a, <1>t, <2>1 DEF Fed
  <2> QED
    BY <1>a, <2>2, <2>3, <2>4, FedUnchanged
<1>6. ASSUME NEW c \in Clients, Register(c) PROVE Fed(k)'
  <2>1. CASE k = c
    <3>1. writer[k] = "none" /\ writer'[k] = "select" /\ since'[k] = taken'
      BY <1>6, <1>t, <2>1 DEF Register, ChannelInv
    <3>2. send'[k] = << >> /\ delivered'[k] = << >>
      BY <1>6, <1>a, <3>1 DEF Register, Fed
    <3>3. Due(k)' = {}
      BY <1>6, <1>t, <3>1 DEF Register, Due
    <3>4. Got(k)' = << >>
      BY <3>2 DEF Got
    <3>5. PrefixOf(<< >>, {})
      BY DEF PrefixOf, Increasing, Range
    <3> QED
      BY <1>6, <3>1, <3>2, <3>3, <3>4, <3>5 DEF Register, Selecting, Fed
  <2>2. CASE k # c
    <3>1. /\ since'[k] = since[k] /\ writer'[k] = writer[k]
          /\ k \in clients' => k \in clients
      BY <1>6, <1>t, <2>2 DEF Register
    <3>2. UNCHANGED <<sending, taken, feed, user, send, delivered>>
      BY <1>6 DEF Register
    <3>3. Due(k)' = Due(k)
      BY <3>1, <3>2 DEF Due
    <3> QED
      BY <1>a, <3>1, <3>2, <3>3, FedUnchanged
  <2> QED
    BY <2>1, <2>2
<1>7. CASE Broadcast
  <2>1. /\ sending = {} /\ taken' = taken + 1 /\ taken + 1 \in 1 .. Len(feed)
        /\ k \in sending' <=> k \in clients /\ user[k] = feed[taken + 1]
        /\ UNCHANGED <<hub, clients, gauge, feed, pumps, chans>>
    BY <1>7, <1>t DEF Broadcast, Selecting
  <2>2. Got(k)' = Got(k)
    BY <2>1 DEF Got
  <2>3. k \in sending' => since'[k] < taken' /\ feed'[taken'] = user'[k]
    BY <1>t, <2>1
  <2>4. CASE k \in clients \/ user[k] # feed[taken + 1]
    <3>1. Due(k)' = Due(k)
      BY <1>t, <2>1, <2>4 DEF Due
    <3> QED
      BY <1>a, <2>1, <2>2, <2>3, <3>1 DEF Fed
  <2>5. CASE k \notin clients /\ user[k] = feed[taken + 1]
    <3>1. Due(k)' = Due(k) \cup {taken + 1}
      BY <1>t, <2>1, <2>5 DEF Due
    <3>2. Due(k) \in SUBSET Nat /\ (\A i \in Due(k) : i < taken + 1) /\ taken + 1 \in Nat
      BY <1>t, DueType
    <3>3. writer[k] # "none" => PrefixOf(delivered[k], Due(k)')
      BY <1>a, <3>1, <3>2, PrefixKept DEF Fed
    <3>4. writer[k] = "select" => PrefixOf(Got(k), Due(k)')
      BY <1>a, <3>1, <3>2, PrefixKept DEF Fed
    <3> QED
      BY <1>a, <2>1, <2>2, <2>3, <2>5, <3>3, <3>4 DEF Fed
  <2> QED
    BY <2>4, <2>5
<1>8. ASSUME NEW c \in Clients, SendToClient(c) PROVE Fed(k)'
  <2>1. CASE k = c
    BY <1>8, <1>a, <2>1, SendFeeds
  <2>2. CASE k # c
    <3>1. /\ k \in sending' <=> k \in sending
          /\ UNCHANGED <<taken, feed, user, writer, delivered, since>>
          /\ k \in clients' => k \in clients
          /\ send'[k] = send[k]
      BY <1>8, <1>t, <2>2 DEF SendToClient, Enqueue
    <3>2. Due(k)' = Due(k)
      BY <3>1 DEF Due
    <3> QED
      BY <1>a, <3>1, <3>2, FedUnchanged
  <2> QED
    BY <2>1, <2>2
<1>9. CASE Shutdown \/ UNCHANGED vars
    BY <1>1, <1>9 DEF Shutdown, vars
<1> QED
    BY <1>2, <1>3, <1>4, <1>5, <1>6, <1>7, <1>8, <1>9 DEF Next, HubStep

\* A connection sees its own user's messages, in order and without a gap from
\* its registration on; while it is registered and its writer runs, nothing is
\* missing (hub.go:139-150, :163-178, :85-96).
THEOREM HubLeavesNoGap == Spec => []NoGap
BY HubTypeInit, HubTypeStep, ChannelInit, ChannelStep, FeedInit, FeedStep,
   FeedGivesNoGap, PTL DEF Spec

-----------------------------------------------------------------------------
(* The gauge, and how long a message waits                                 *)

At(P) == {c \in Clients : reader[c] \in P}

\* How many connections are in P, when one of them moves.
LEMMA ReaderMoves ==
  ASSUME NEW P, NEW c \in Clients,
         \A k \in Clients : k # c => reader'[k] = reader[k]
  PROVE  /\ Cardinality(At(P)) \in Nat /\ Cardinality(At(P)') \in Nat
         /\ Cardinality(At(P)') = Cardinality(At(P))
              + (IF reader[c] \notin P /\ reader'[c] \in P THEN 1 ELSE 0)
              - (IF reader[c] \in P /\ reader'[c] \notin P THEN 1 ELSE 0)
<1> DEFINE S == {k \in Clients : reader[k] \in P}
           T == {k \in Clients : reader'[k] \in P}
<1>1. IsFiniteSet(S)
  BY HubAssumption, FS_Subset
<1>2. \A y : y # c => (y \in S <=> y \in T)
  OBVIOUS
<1>3. (c \in S <=> reader[c] \in P) /\ (c \in T <=> reader'[c] \in P)
  OBVIOUS
<1>4. At(P) = S /\ At(P)' = T
  BY DEF At
<1> HIDE DEF S, T
<1>5. /\ Cardinality(S) \in Nat /\ Cardinality(T) \in Nat
      /\ Cardinality(T) = Cardinality(S) + (IF c \in T \ S THEN 1 ELSE 0)
                                        - (IF c \in S \ T THEN 1 ELSE 0)
  BY <1>1, <1>2, OneMoves
<1> QED BY <1>3, <1>4, <1>5

\* The gauge counts the connections that have been registered and have not yet
\* unregistered, and counts every connection that has ended for minus one.
GaugeLaw ==
  gauge = Cardinality(At({"reading", "leaving"})) - Cardinality(At({"done"}))

LEMMA GaugeInit == Init => GaugeLaw
<1> SUFFICES ASSUME Init PROVE GaugeLaw
  OBVIOUS
<1>1. At({"reading", "leaving"}) = {} /\ At({"done"}) = {}
  BY DEF Init, At
<1>2. Cardinality({}) = 0
  BY FS_EmptySet
<1>3. Cardinality(At({"reading", "leaving"})) = 0 /\ Cardinality(At({"done"})) = 0
  BY <1>1, <1>2, Zenon
<1>4. gauge = 0
  BY DEF Init
<1> HIDE DEF Init
<1> QED BY <1>3, <1>4 DEF GaugeLaw

LEMMA GaugeMoves ==
  ASSUME NEW c \in Clients, \A k \in Clients : k # c => reader'[k] = reader[k],
         gauge \in Int, GaugeLaw, gauge' \in Int,
         gauge' - gauge =
           (IF reader[c] \notin {"reading", "leaving"} /\ reader'[c] \in {"reading", "leaving"}
            THEN 1 ELSE 0)
           - (IF reader[c] \in {"reading", "leaving"} /\ reader'[c] \notin {"reading", "leaving"}
              THEN 1 ELSE 0)
           - (IF reader'[c] = "done" THEN 1 ELSE 0),
         reader[c] # "done"
  PROVE  GaugeLaw'
<1> DEFINE A == At({"reading", "leaving"})
           D == At({"done"})
<1>1. /\ Cardinality(A) \in Nat /\ Cardinality(A') \in Nat
      /\ Cardinality(A') = Cardinality(A)
           + (IF reader[c] \notin {"reading", "leaving"} /\ reader'[c] \in {"reading", "leaving"}
              THEN 1 ELSE 0)
           - (IF reader[c] \in {"reading", "leaving"} /\ reader'[c] \notin {"reading", "leaving"}
              THEN 1 ELSE 0)
  BY ReaderMoves, Zenon
<1>2. /\ Cardinality(D) \in Nat /\ Cardinality(D') \in Nat
      /\ Cardinality(D') = Cardinality(D)
           + (IF reader[c] \notin {"done"} /\ reader'[c] \in {"done"} THEN 1 ELSE 0)
           - (IF reader[c] \in {"done"} /\ reader'[c] \notin {"done"} THEN 1 ELSE 0)
  BY ReaderMoves, Zenon
<1>3. gauge = Cardinality(A) - Cardinality(D)
  BY DEF GaugeLaw
<1> HIDE DEF A, D
<1>4. gauge' = Cardinality(A') - Cardinality(D')
  BY <1>1, <1>2, <1>3
<1> QED BY <1>4 DEF GaugeLaw, A, D

LEMMA GaugeStep == TypeOK /\ GaugeLaw /\ [Next]_vars => GaugeLaw'
<1> SUFFICES ASSUME TypeOK, GaugeLaw, [Next]_vars PROVE GaugeLaw'
  OBVIOUS
<1>t. /\ gauge \in Int
      /\ reader \in [Clients -> {"none", "register", "reading", "leaving",
                                 "closing", "leavingAgain", "done"}]
  BY DEF TypeOK, LoopType, PumpType
<1>1. ASSUME NEW c \in Clients, Connect(c) \/ ReadFails(c) \/ CloseConn(c)
      PROVE  GaugeLaw'
  <2>1. /\ gauge' = gauge /\ \A k \in Clients : k # c => reader'[k] = reader[k]
        /\ \/ reader[c] = "none" /\ reader'[c] = "register"
           \/ reader[c] = "reading" /\ reader'[c] = "leaving"
           \/ reader[c] = "closing" /\ reader'[c] = "leavingAgain"
    BY <1>1, <1>t DEF Connect, ReadFails, CloseConn, loop
  <2> QED BY <1>t, <2>1, GaugeMoves
<1>2. ASSUME NEW c \in Clients, Register(c) PROVE GaugeLaw'
  <2>1. /\ gauge' = gauge + 1 /\ \A k \in Clients : k # c => reader'[k] = reader[k]
        /\ reader[c] = "register" /\ reader'[c] = "reading"
    BY <1>2, <1>t DEF Register
  <2> QED BY <1>t, <2>1, GaugeMoves
<1>3. ASSUME NEW c \in Clients, Unregister(c) PROVE GaugeLaw'
  <2>1. /\ gauge' = gauge - 1 /\ \A k \in Clients : k # c => reader'[k] = reader[k]
        /\ \/ reader[c] = "leaving" /\ reader'[c] = "closing"
           \/ reader[c] = "leavingAgain" /\ reader'[c] = "done"
    BY <1>3, <1>t DEF Unregister, Leaves
  <2> QED BY <1>t, <2>1, GaugeMoves
<1>4. ASSUME UNCHANGED <<gauge, reader>> PROVE GaugeLaw'
  BY <1>4 DEF At, GaugeLaw
<1> QED
  BY <1>1, <1>2, <1>3, <1>4
  DEF Next, HubStep, Write, WriteClose, PingFails, SendToUser, SendToClient,
      Broadcast, Shutdown, loop, pumps, vars

\* metrics.ActiveWsConnections is too low by one for every connection that has
\* ended: it is incremented once per connection (hub.go:116) and decremented by
\* both of the connection's sends to unregister (hub.go:126, :59,
\* handler.go:37), for good.
THEOREM GaugeDrifts == Spec => []GaugeLaw
BY HubTypeInit, HubTypeStep, GaugeInit, GaugeStep, PTL DEF Spec

\* How often the connections have yet to be taken from register or unregister.
Early  == {"none", "register"}
Middle == Early \cup {"reading", "leaving"}
Late   == Middle \cup {"closing", "leavingAgain"}
Visits == Cardinality(At(Early)) + Cardinality(At(Middle)) + Cardinality(At(Late))

VisitsDue(l) == (IF l \in Early THEN 1 ELSE 0) + (IF l \in Middle THEN 1 ELSE 0)
                  + (IF l \in Late THEN 1 ELSE 0)

LEMMA VisitsMove ==
  ASSUME NEW c \in Clients, \A k \in Clients : k # c => reader'[k] = reader[k]
  PROVE  /\ Visits \in Nat /\ Visits' \in Nat
         /\ Visits' - Visits = VisitsDue(reader'[c]) - VisitsDue(reader[c])
<1> DEFINE e == Cardinality(At(Early))
           m == Cardinality(At(Middle))
           l == Cardinality(At(Late))
           Ind(b) == IF b THEN 1 ELSE 0
<1>1. e \in Nat /\ e' \in Nat /\ e' = e + Ind(reader'[c] \in Early) - Ind(reader[c] \in Early)
  <2>1. /\ e \in Nat /\ e' \in Nat
        /\ e' = e + (IF reader[c] \notin Early /\ reader'[c] \in Early THEN 1 ELSE 0)
                  - (IF reader[c] \in Early /\ reader'[c] \notin Early THEN 1 ELSE 0)
    BY ReaderMoves, Zenon
  <2> HIDE DEF e
  <2> QED BY <2>1
<1>2. m \in Nat /\ m' \in Nat /\ m' = m + Ind(reader'[c] \in Middle) - Ind(reader[c] \in Middle)
  <2>1. /\ m \in Nat /\ m' \in Nat
        /\ m' = m + (IF reader[c] \notin Middle /\ reader'[c] \in Middle THEN 1 ELSE 0)
                  - (IF reader[c] \in Middle /\ reader'[c] \notin Middle THEN 1 ELSE 0)
    BY ReaderMoves, Zenon
  <2> HIDE DEF m
  <2> QED BY <2>1
<1>3. l \in Nat /\ l' \in Nat /\ l' = l + Ind(reader'[c] \in Late) - Ind(reader[c] \in Late)
  <2>1. /\ l \in Nat /\ l' \in Nat
        /\ l' = l + (IF reader[c] \notin Late /\ reader'[c] \in Late THEN 1 ELSE 0)
                  - (IF reader[c] \in Late /\ reader'[c] \notin Late THEN 1 ELSE 0)
    BY ReaderMoves, Zenon
  <2> HIDE DEF l
  <2> QED BY <2>1
<1>4. Visits = e + m + l /\ Visits' = e' + m' + l'
  BY DEF Visits
<1> HIDE DEF e, m, l
<1> QED BY <1>1, <1>2, <1>3, <1>4 DEF VisitsDue

\* What the hub's loop does before it takes the next message is bounded: each
\* turn of it takes a message, or a connection from register or unregister, or
\* serves one more client of the snapshot; and nobody else gives it more to do.
Turn ==
  \/ taken' = taken + 1 /\ Visits' = Visits
  \/ taken' = taken /\ Visits' = Visits - 1 /\ sending' = {}
  \/ /\ taken' = taken /\ Visits' = Visits
     /\ Cardinality(sending') = Cardinality(sending) - 1

Idle == UNCHANGED <<taken, sending>> /\ Visits' = Visits

HubBusy == IF HubStep THEN Turn ELSE Idle

LEMMA TurnStep == TypeOK /\ [Next]_vars => HubBusy
<1> SUFFICES ASSUME TypeOK, [Next]_vars PROVE HubBusy
  OBVIOUS
<1>t. /\ taken \in Nat /\ sending \in SUBSET Clients /\ IsFiniteSet(sending)
      /\ reader \in [Clients -> {"none", "register", "reading", "leaving",
                                 "closing", "leavingAgain", "done"}]
  <2>1. taken \in Nat /\ sending \in SUBSET Clients
    BY DEF TypeOK, LoopType
  <2> QED BY <2>1, HubAssumption, FS_Subset DEF TypeOK, PumpType
<1>u. reader' = reader => Visits' = Visits
  BY DEF Visits, At, Early, Middle, Late
<1>1. ASSUME NEW c \in Clients, Connect(c) \/ ReadFails(c) \/ CloseConn(c)
      PROVE  Idle /\ ~HubStep
  <2>1. /\ UNCHANGED <<taken, sending>>
        /\ \A k \in Clients : k # c => reader'[k] = reader[k]
        /\ \/ reader[c] = "none" /\ reader'[c] = "register"
           \/ reader[c] = "reading" /\ reader'[c] = "leaving"
           \/ reader[c] = "closing" /\ reader'[c] = "leavingAgain"
    BY <1>1, <1>t DEF Connect, ReadFails, CloseConn, loop
  <2>2. VisitsDue(reader'[c]) = VisitsDue(reader[c])
    BY <2>1 DEF VisitsDue, Early, Middle, Late
  <2>3. Visits' = Visits
    BY <2>1, <2>2, VisitsMove DEF VisitsDue
  <2>4. ~HubStep
    BY <1>t, <2>1
    DEF HubStep, Register, Unregister, Leaves, SendToClient, Broadcast, pumps
  <2> QED BY <2>1, <2>3, <2>4 DEF Idle
<1>2. ASSUME NEW c \in Clients, Register(c) PROVE Turn
  <2>1. /\ taken' = taken /\ sending' = {}
        /\ \A k \in Clients : k # c => reader'[k] = reader[k]
        /\ reader[c] = "register" /\ reader'[c] = "reading"
    BY <1>2, <1>t DEF Register, Selecting
  <2>2. VisitsDue(reader'[c]) = VisitsDue(reader[c]) - 1
    BY <2>1 DEF VisitsDue, Early, Middle, Late
  <2>3. Visits' = Visits - 1
    BY <2>1, <2>2, VisitsMove DEF VisitsDue
  <2> QED BY <2>1, <2>3 DEF Turn
<1>3. ASSUME NEW c \in Clients, Unregister(c) PROVE Turn
  <2>1. /\ taken' = taken /\ sending' = {}
        /\ \A k \in Clients : k # c => reader'[k] = reader[k]
        /\ \/ reader[c] = "leaving" /\ reader'[c] = "closing"
           \/ reader[c] = "leavingAgain" /\ reader'[c] = "done"
    BY <1>3, <1>t DEF Unregister, Leaves, Selecting
  <2>2. VisitsDue(reader'[c]) = VisitsDue(reader[c]) - 1
    BY <2>1 DEF VisitsDue, Early, Middle, Late
  <2>3. Visits' = Visits - 1
    BY <2>1, <2>2, VisitsMove DEF VisitsDue
  <2> QED BY <2>1, <2>3 DEF Turn
<1>4. ASSUME NEW c \in Clients, SendToClient(c) PROVE Turn
  <2>1. taken' = taken /\ reader' = reader /\ c \in sending /\ sending' = sending \ {c}
    BY <1>4 DEF SendToClient, pumps
  <2>2. Cardinality(sending') = Cardinality(sending) - 1
    BY <1>t, <2>1, FS_RemoveElement
  <2> QED BY <1>u, <2>1, <2>2 DEF Turn
<1>5. CASE Broadcast
  <2>1. taken' = taken + 1 /\ reader' = reader
    BY <1>5 DEF Broadcast, pumps
  <2> QED BY <1>5, <1>u, <2>1 DEF Turn, HubBusy, HubStep
<1>6. ASSUME UNCHANGED <<taken, sending, reader>> PROVE Idle /\ ~HubStep
  <2>1. ~HubStep
    BY <1>t, <1>6
    DEF HubStep, Register, Unregister, Leaves, SendToClient, Broadcast
  <2> QED BY <1>6, <1>u, <2>1 DEF Idle
<1>7. HubStep => Turn
  BY <1>2, <1>3, <1>4, <1>5, <1>u DEF HubStep, HubBusy
<1>8. ~HubStep => Idle
  BY <1>1, <1>6
  DEF Next, HubStep, Write, WriteClose, PingFails, SendToUser, Shutdown,
      loop, pumps, vars
<1> QED BY <1>7, <1>8, Zenon DEF HubBusy

\* However slow the clients are, a message waits in broadcast for no more than
\* the clients of the snapshot before it and three turns of each connection
\* (hub.go:112-150, :163-178): no turn of the loop leaves it as it was, and
\* nothing else sets it back.
THEOREM HubNeverHeldUp == Spec => [][HubBusy]_vars
BY HubTypeInit, HubTypeStep, TurnStep, PTL DEF Spec
=============================================================================
