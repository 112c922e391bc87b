----------------------------- MODULE RelaysProofs ---------------------------
(***************************************************************************)
(* DeadLetterQueue implements RelayContract for any set of exhausted jobs, *)
(* any number of faults and process runs; without a stream for the         *)
(* advisories it copies nothing.  And in one server process the two relays *)
(* keep out of each other's way: each behaves as it does alone, so that    *)
(* what holds of one holds in ServerRelays.                                *)
(***************************************************************************)
EXTENDS ServerRelays, NotificationDeliveryProofs

-----------------------------------------------------------------------------
(* The dead-letter monitor: types                                          *)

\* What is bound to the process and its subscription.
BoundOK ==
  /\ givenUp \in SUBSET Exhausted /\ kept \in SUBSET Exhausted
  /\ dlq \in SUBSET Exhausted
  /\ monitorFaults \in 0 .. MaxMonitorFaults
  /\ monitor => Up
  /\ job # 0 => Up
  /\ waiting # << >> => monitor

LEMMA DLQTypeInit == DLQInit /\ ProcessInit => DLQTypeOK
<1> SUFFICES ASSUME DLQInit, ProcessInit PROVE Mon!TypeOK /\ BoundOK
  BY DEF DLQTypeOK, BoundOK
<1> USE DEF DLQInit, ProcessInit, Mon!Init
<1>0. << >> \in Seq(Exhausted)
  OBVIOUS
<1>1. Mon!TypeOK
  <2>1. adv \in [Exhausted -> {"absent", "stored", "outstanding", "due", "acked"}]
    OBVIOUS
  <2> QED BY <1>0, <2>1, Zenon DEF Mon!TypeOK
<1>2. BoundOK
  <2>1. monitorFaults \in 0 .. MaxMonitorFaults
    BY MonitorAssumption
  <2> QED BY <2>1, Zenon DEF BoundOK
<1> QED BY <1>1, <1>2

LEMMA DLQTypeStep ==
  DLQTypeOK /\ [DLQNext]_dlqVars => DLQTypeOK'
<1> SUFFICES ASSUME Mon!TypeOK, BoundOK, [DLQNext]_dlqVars
             PROVE  Mon!TypeOK' /\ BoundOK'
  BY DEF DLQTypeOK, BoundOK
<1>0. << >> \in Seq(Exhausted)
  OBVIOUS
<1> USE MonitorAssumption
<1> USE DEF process, mon, jobs
<1>1. ASSUME NEW j \in Exhausted, Exhaust(j) PROVE Mon!TypeOK' /\ BoundOK'
  <2>1. Mon!TypeOK'
    <3>1. CASE AdvisoryStream
      BY <1>1, <3>1 DEF Exhaust, Mon!Store, Mon!TypeOK
    <3>2. CASE ~AdvisoryStream
      BY <1>1, <3>2 DEF Exhaust, Mon!TypeOK
    <3> QED BY <3>1, <3>2
  <2>2. BoundOK'
    <3>1. UNCHANGED <<process, kept, monitorFaults, dlq, monitor, job, waiting>>
      BY <1>1 DEF Exhaust, Mon!Store
    <3>2. givenUp' \in SUBSET Exhausted
      BY <1>1 DEF Exhaust, BoundOK
    <3> QED BY <3>1, <3>2 DEF BoundOK, Up
  <2> QED BY <2>1, <2>2
<1>2. ASSUME NEW j \in Exhausted, Expire(j) PROVE Mon!TypeOK' /\ BoundOK'
  <2>1. Mon!TypeOK'
    BY <1>2 DEF Expire, Mon!TypeOK
  <2>2. BoundOK'
    BY <1>2 DEF Expire, BoundOK, Up, Mon!TypeOK
  <2> QED BY <2>1, <2>2
<1>3. ASSUME NEW j \in Exhausted, DeliverAdvisory(j) PROVE Mon!TypeOK' /\ BoundOK'
  <2>1. Mon!TypeOK'
    BY <1>3 DEF DeliverAdvisory, Mon!Deliver, Mon!TypeOK
  <2>2. BoundOK'
    BY <1>3 DEF DeliverAdvisory, Mon!Deliver, BoundOK, Up, Mon!TypeOK
  <2> QED BY <2>1, <2>2
<1>4. ASSUME NEW j \in Exhausted, AdvisoryWaitExpire(j) PROVE Mon!TypeOK' /\ BoundOK'
  <2>1. Mon!TypeOK'
    BY <1>4 DEF AdvisoryWaitExpire, Mon!AckWaitExpire, MonitorFault, Mon!TypeOK
  <2>2. BoundOK'
    BY <1>4 DEF AdvisoryWaitExpire, Mon!AckWaitExpire, MonitorFault, BoundOK, Up, Mon!TypeOK
  <2> QED BY <2>1, <2>2
<1>5. CASE StartMonitor
  <2>1. Mon!TypeOK'
    BY <1>5 DEF StartMonitor, Mon!TypeOK
  <2>2. BoundOK'
    BY <1>5 DEF StartMonitor, BoundOK, Up, Mon!TypeOK
  <2> QED BY <2>1, <2>2
<1>6. CASE StopMonitor
  <2>1. Mon!TypeOK'
    BY <1>0, <1>6 DEF StopMonitor, Mon!Forgotten, Mon!Replayed, Mon!TypeOK
  <2>2. BoundOK'
    BY <1>0, <1>6 DEF StopMonitor, Mon!Forgotten, Mon!Replayed, BoundOK, Up, Mon!TypeOK
  <2> QED BY <2>1, <2>2
<1>7. CASE Advised
  <2>1. Mon!TypeOK'
    BY <1>7 DEF Advised, Mon!Dispatch, Mon!TypeOK
  <2>2. BoundOK'
    BY <1>7 DEF Advised, Mon!Dispatch, BoundOK, Up, Mon!TypeOK
  <2> QED BY <2>1, <2>2
<1>8. CASE Fetch
  <2>1. Mon!TypeOK'
    BY <1>8 DEF Fetch, Mon!Calls, MonitorFault, Mon!TypeOK
  <2>2. BoundOK'
    BY <1>8 DEF Fetch, Mon!Calls, MonitorFault, BoundOK, Up, Mon!TypeOK
  <2> QED BY <2>1, <2>2
<1>9. CASE Copy
  <2>1. Mon!TypeOK'
    BY <1>9 DEF Copy, Mon!Calls, MonitorFault, Mon!TypeOK
  <2>2. BoundOK'
    <3>1. /\ job \in Exhausted /\ UNCHANGED <<process, jobs, job, waiting, monitor>>
          /\ dlq' = dlq \/ dlq' = dlq \cup {job}
      BY <1>9 DEF Copy, Mon!Calls, Mon!TypeOK
    <3>2. monitorFaults' \in 0 .. MaxMonitorFaults
      BY <1>9 DEF Copy, MonitorFault, BoundOK
    <3> QED BY <3>1, <3>2 DEF BoundOK, Up
  <2> QED BY <2>1, <2>2
<1>10. CASE Settle
  <2>1. Mon!TypeOK'
    BY <1>10 DEF Settle, Mon!Ack, Mon!Nak, Mon!ReplyLost, Mon!Done, MonitorFault, Mon!TypeOK
  <2>2. BoundOK'
    BY <1>10 DEF Settle, Mon!Ack, Mon!Nak, Mon!ReplyLost, Mon!Done, MonitorFault, BoundOK, Up, Mon!TypeOK
  <2> QED BY <2>1, <2>2
<1>11. CASE ServerStarts
  <2>1. Mon!TypeOK'
    BY <1>11 DEF ServerStarts, Boot, Mon!TypeOK
  <2>2. BoundOK'
    BY <1>11 DEF ServerStarts, Boot, BoundOK, Up, Mon!TypeOK
  <2> QED BY <2>1, <2>2
<1>12. CASE ServerSignalled
  <2>1. Mon!TypeOK'
    BY <1>12 DEF ServerSignalled, Signal, Mon!TypeOK
  <2>2. BoundOK'
    BY <1>12 DEF ServerSignalled, Signal, BoundOK, Up, Mon!TypeOK
  <2> QED BY <2>1, <2>2
<1>13. CASE ServerEnds
  <2>1. Mon!TypeOK'
    BY <1>0, <1>13 DEF ServerEnds, Ends, Mon!Gone, Mon!Forgotten, Mon!Replayed, Mon!TypeOK
  <2>2. BoundOK'
    BY <1>0, <1>13 DEF ServerEnds, Ends, Mon!Gone, Mon!Forgotten, Mon!Replayed, BoundOK, Up, Mon!TypeOK
  <2> QED BY <2>1, <2>2
<1>14. CASE UNCHANGED dlqVars
  <2>1. Mon!TypeOK'
    BY <1>14 DEF dlqVars, Mon!TypeOK
  <2>2. BoundOK'
    BY <1>14 DEF dlqVars, BoundOK, Up, Mon!TypeOK
  <2> QED BY <2>1, <2>2
<1> QED
  BY <1>1, <1>2, <1>3, <1>4, <1>5, <1>6, <1>7, <1>8, <1>9, <1>10, <1>11, <1>12, <1>13, <1>14
  DEF DLQNext, MonitorCallback

-----------------------------------------------------------------------------
(* The refinement                                                          *)

\* What has been delivered was announced, and neither the callback's ack nor an
\* earlier one is about a job without a copy.
CopyInv ==
  /\ \A j \in Range(waiting) : adv[j] # "absent"
  /\ job # 0 => adv[job] # "absent"
  /\ step = "ack" => job \in dlq
  /\ \A j \in Exhausted : adv[j] = "acked" => j \in dlq

Announced == {j \in Exhausted : adv[j] # "absent"}
Copied    == {j \in Exhausted : adv[j] = "acked"}

LEMMA CopyInit == DLQInit => CopyInv /\ DeadLetters!Init
<1> SUFFICES ASSUME DLQInit PROVE CopyInv /\ DeadLetters!Init
  OBVIOUS
<1>1. Range(waiting) = {} /\ adv = [j \in Exhausted |-> "absent"]
  BY DEF DLQInit, Mon!Init, Range
<1> QED BY <1>1 DEF DLQInit, CopyInv, Mon!Init, DeadLetters!Init

LEMMA CopyStep ==
  DLQTypeOK /\ CopyInv /\ [DLQNext]_dlqVars
    => CopyInv' /\ [DeadLetters!Next]_(DeadLetters!vars)
<1> SUFFICES ASSUME DLQTypeOK, CopyInv, [DLQNext]_dlqVars
             PROVE  CopyInv' /\ [DeadLetters!Next]_(DeadLetters!vars)
  OBVIOUS
<1> DEFINE Stutters == Announced' = Announced /\ Copied' = Copied /\ dlq' = dlq
<1>0. Stutters => [DeadLetters!Next]_(DeadLetters!vars)
  BY DEF Announced, Copied, DeadLetters!vars
<1>a. /\ adv \in [Exhausted -> {"absent", "stored", "outstanding", "due", "acked"}]
      /\ waiting \in Seq(Exhausted) /\ job \in Exhausted \cup {0}
      /\ (job = 0 <=> step = "none")
  BY DEF DLQTypeOK, Mon!TypeOK
<1>b. ASSUME UNCHANGED <<adv, waiting, job, step, dlq>>
      PROVE  CopyInv' /\ Stutters
  BY <1>b DEF CopyInv, Announced, Copied
\* The consumer is deleted: it forgets every acknowledgement.
<1>c. ASSUME adv' = [j \in Exhausted |-> IF adv[j] = "absent" THEN "absent" ELSE "stored"],
             dlq' = dlq
      PROVE  DeadLetters!Next
  <2>1. DeadLetters!Replay
    BY <1>c, <1>a DEF DeadLetters!Replay
  <2> QED BY <2>1 DEF DeadLetters!Next
<1>1. ASSUME NEW j \in Exhausted, Exhaust(j)
      PROVE  CopyInv' /\ [DeadLetters!Next]_(DeadLetters!vars)
  <2>1. CASE AdvisoryStream
    <3>1. /\ adv[j] = "absent" /\ adv' = [adv EXCEPT ![j] = "stored"]
          /\ UNCHANGED <<waiting, job, step, dlq>>
      BY <1>1, <2>1 DEF Exhaust, Mon!Store
    <3>2. CopyInv'
      BY <3>1, <1>a DEF CopyInv
    <3>3. DeadLetters!Post(j)
      BY <3>1, <1>a DEF DeadLetters!Post
    <3> QED BY <3>2, <3>3 DEF DeadLetters!Next
  <2>2. CASE ~AdvisoryStream
    <3>1. UNCHANGED <<adv, waiting, job, step, dlq>>
      BY <1>1, <2>2 DEF Exhaust, mon
    <3> QED BY <3>1, <1>b, <1>0
  <2> QED BY <2>1, <2>2
<1>2. ASSUME NEW j \in Exhausted, DeliverAdvisory(j)
      PROVE  CopyInv' /\ [DeadLetters!Next]_(DeadLetters!vars)
  <2>1. /\ adv[j] \in {"due", "stored"} /\ adv' = [adv EXCEPT ![j] = "outstanding"]
        /\ waiting' = Append(waiting, j) /\ UNCHANGED <<job, step, dlq>>
    BY <1>2 DEF DeliverAdvisory, Mon!Deliver
  <2>2. Range(waiting') = Range(waiting) \cup {j}
    BY <2>1, <1>a, RangeAppend
  <2>3. CopyInv'
    BY <2>1, <2>2, <1>a DEF CopyInv
  <2>4. Stutters
    BY <2>1, <1>a DEF Announced, Copied
  <2> QED BY <2>3, <2>4, <1>0
<1>3. ASSUME NEW j \in Exhausted, AdvisoryWaitExpire(j)
      PROVE  CopyInv' /\ [DeadLetters!Next]_(DeadLetters!vars)
  <2>1. /\ adv[j] = "outstanding" /\ adv' = [adv EXCEPT ![j] = "due"]
        /\ UNCHANGED <<waiting, job, step, dlq>>
    BY <1>3 DEF AdvisoryWaitExpire, Mon!AckWaitExpire
  <2>2. CopyInv'
    BY <2>1, <1>a DEF CopyInv
  <2>3. Stutters
    BY <2>1, <1>a DEF Announced, Copied
  <2> QED BY <2>2, <2>3, <1>0
<1>4. CASE StopMonitor
  <2>1. /\ adv' = [j \in Exhausted |-> IF adv[j] = "absent" THEN "absent" ELSE "stored"]
        /\ waiting' = << >> /\ UNCHANGED <<job, step, dlq>>
    BY <1>4 DEF StopMonitor, Mon!Forgotten
  <2>2. Range(waiting') = {}
    BY <2>1 DEF Range
  <2>3. CopyInv'
    BY <2>1, <2>2, <1>a DEF CopyInv
  <2> QED BY <2>1, <2>3, <1>c
<1>5. CASE Advised
  <2>1. /\ waiting # << >> /\ job' = Head(waiting) /\ waiting' = Tail(waiting)
        /\ step' = "fetch" /\ UNCHANGED <<adv, dlq>>
    BY <1>5 DEF Advised, Mon!Dispatch
  <2>2. Range(waiting) = Range(waiting') \cup {job'}
    BY <2>1, <1>a, RangeTail
  <2>3. CopyInv' /\ Stutters
    BY <2>1, <2>2 DEF CopyInv, Announced, Copied
  <2> QED BY <2>3, <1>0
<1>6. CASE Fetch
  <2>1. step' \in {"publish", "nak"} /\ UNCHANGED <<adv, waiting, job, dlq>>
    BY <1>6 DEF Fetch, Mon!Calls
  <2>2. CopyInv' /\ Stutters
    BY <2>1 DEF CopyInv, Announced, Copied
  <2> QED BY <2>2, <1>0
<1>7. CASE Copy
  <2>1. /\ step = "publish" /\ UNCHANGED <<adv, waiting, job>>
        /\ \/ dlq' = dlq \cup {job}
           \/ dlq' = dlq /\ step' = "nak"
    BY <1>7 DEF Copy, Mon!Calls
  <2>2. job \in Exhausted
    BY <2>1, <1>a
  <2>3. CASE dlq' = dlq \cup {job}
    <3>1. CopyInv'
      BY <2>1, <2>3 DEF CopyInv
    <3>2. adv[job] # "absent"
      BY <2>2, MonitorAssumption DEF CopyInv
    <3>3. DeadLetters!Forward(job)
      BY <2>1, <2>2, <2>3, <3>2 DEF DeadLetters!Forward
    <3>4. DeadLetters!Next
      BY <2>2, <3>3 DEF DeadLetters!Next, DeadLetters!Forward
    <3> QED BY <3>1, <3>4
  <2>4. CASE dlq' = dlq /\ step' = "nak"
    <3>1. CopyInv' /\ Stutters
      BY <2>1, <2>4 DEF CopyInv, Announced, Copied
    <3> QED BY <3>1, <1>0
  <2> QED BY <2>1, <2>3, <2>4
<1>8. CASE Settle
  <2>1. /\ step \in {"ack", "nak"}
        /\ job' = 0 /\ step' = "none" /\ UNCHANGED <<waiting, dlq>>
    BY <1>8 DEF Settle, Mon!Ack, Mon!Nak, Mon!ReplyLost, Mon!Done
  <2>2. job \in Exhausted
    BY <2>1, <1>a
  <2>3. CASE Mon!Ack
    <3>1. /\ step = "ack"
          /\ adv' = [adv EXCEPT ![job] = IF @ \in {"outstanding", "due"} THEN "acked" ELSE @]
      BY <2>3 DEF Mon!Ack
    <3>2. CopyInv'
      BY <2>1, <2>2, <3>1, <1>a DEF CopyInv
    <3>3. CASE adv[job] \in {"outstanding", "due"}
      <4>1. DeadLetters!Settle(job)
        BY <2>1, <2>2, <3>1, <3>3, <1>a DEF CopyInv, DeadLetters!Settle
      <4>2. DeadLetters!Next
        BY <2>2, <4>1 DEF DeadLetters!Next, DeadLetters!Settle
      <4> QED BY <3>2, <4>2
    <3>4. CASE adv[job] \notin {"outstanding", "due"}
      <4>1. Stutters
        BY <2>1, <3>1, <3>4, <1>a DEF Announced, Copied
      <4> QED BY <3>2, <4>1, <1>0
    <3> QED BY <3>3, <3>4
  <2>4. CASE ~Mon!Ack
    <3>1. adv' = adv \/ adv' = [adv EXCEPT ![job] = IF @ = "outstanding" THEN "due" ELSE @]
      BY <1>8, <2>4 DEF Settle, Mon!Nak, Mon!ReplyLost
    <3>2. \A j \in Exhausted :
            (adv'[j] = "absent" <=> adv[j] = "absent") /\ (adv'[j] = "acked" <=> adv[j] = "acked")
      BY <2>2, <3>1, <1>a
    <3>3. Range(waiting) \subseteq Exhausted
      BY <1>a DEF Range
    <3>4. CopyInv'
      BY <2>1, <3>2, <3>3 DEF CopyInv
    <3>5. Stutters
      BY <2>1, <3>2 DEF Announced, Copied
    <3> QED BY <3>4, <3>5, <1>0
  <2> QED BY <2>3, <2>4
<1>9. CASE ServerEnds
  <2>1. waiting' = << >> /\ job' = 0 /\ step' = "none" /\ dlq' = dlq
    BY <1>9 DEF ServerEnds, Mon!Gone
  <2>2. Range(waiting') = {}
    BY <2>1 DEF Range
  <2>3. CASE monitor
    <3>1. adv' = [j \in Exhausted |-> IF adv[j] = "absent" THEN "absent" ELSE "stored"]
      BY <1>9, <2>3 DEF ServerEnds, Mon!Forgotten
    <3>2. CopyInv'
      BY <2>1, <2>2, <3>1, <1>a DEF CopyInv
    <3> QED BY <2>1, <3>1, <3>2, <1>c
  <2>4. CASE ~monitor
    <3>1. adv' = adv
      BY <1>9, <2>4 DEF ServerEnds
    <3>2. CopyInv' /\ Stutters
      BY <2>1, <2>2, <3>1 DEF CopyInv, Announced, Copied
    <3> QED BY <3>2, <1>0
  <2> QED BY <2>3, <2>4
<1>10. ASSUME NEW j \in Exhausted, Expire(j)
       PROVE  CopyInv' /\ [DeadLetters!Next]_(DeadLetters!vars)
  BY <1>10, <1>b, <1>0 DEF Expire, mon
<1>11. CASE StartMonitor \/ ServerStarts \/ ServerSignalled \/ UNCHANGED dlqVars
  <2>1. UNCHANGED <<adv, waiting, job, step, dlq>>
    BY <1>11 DEF StartMonitor, ServerStarts, ServerSignalled, dlqVars, mon
  <2> QED BY <2>1, <1>b, <1>0
<1> QED
  BY <1>1, <1>2, <1>3, <1>4, <1>5, <1>6, <1>7, <1>8, <1>9, <1>10, <1>11
  DEF DLQNext, MonitorCallback

\* The state is well typed, and nothing of the monitor's subscription outlives
\* its process (broker.go:403-407, main.go:249-266).
THEOREM DLQTypeCorrect == DLQSpec => []DLQTypeOK
BY DLQTypeInit, DLQTypeStep, PTL DEF DLQSpec

\* The monitor is a relay: no advisory is acknowledged (broker.go:398) whose job
\* has no copy in the dead-letter stream (broker.go:391).
THEOREM MonitorRelays == DLQSpec => DeadLetterRelay
BY DLQTypeInit, DLQTypeStep, CopyInit, CopyStep, PTL
DEF DLQSpec, DeadLetterRelay, DeadLetters!Spec

\* Without a stream for the advisories nothing reaches the monitor.
Idle ==
  /\ \A j \in Exhausted : adv[j] = "absent"
  /\ ~monitor /\ waiting = << >> /\ step = "none" /\ dlq = {}

LEMMA IdleStep ==
  ASSUME ~AdvisoryStream
  PROVE  DLQTypeOK /\ Idle /\ [DLQNext]_dlqVars => Idle'
<1> SUFFICES ASSUME DLQTypeOK, Idle, [DLQNext]_dlqVars PROVE Idle'
  OBVIOUS
<1>a. adv \in [Exhausted -> {"absent", "stored", "outstanding", "due", "acked"}]
  BY DEF DLQTypeOK, Mon!TypeOK
<1>1. ~MonitorCallback /\ ~StartMonitor /\ ~StopMonitor
  BY DEF Idle, MonitorCallback, StartMonitor, StopMonitor, Advised, Mon!Dispatch, Fetch,
         Copy, Settle, Mon!Ack, Mon!Nak, Mon!ReplyLost
<1>2. \A j \in Exhausted : ~DeliverAdvisory(j) /\ ~AdvisoryWaitExpire(j)
  BY DEF Idle, DeliverAdvisory, AdvisoryWaitExpire, Mon!Deliver, Mon!AckWaitExpire
<1>3. ASSUME NEW j \in Exhausted, Exhaust(j) \/ Expire(j) PROVE Idle'
  BY <1>3 DEF Idle, Exhaust, Expire, mon
<1>4. CASE ServerEnds
  BY <1>4 DEF Idle, ServerEnds, Mon!Gone
<1>5. CASE ServerStarts \/ ServerSignalled \/ UNCHANGED dlqVars
  BY <1>5 DEF Idle, ServerStarts, ServerSignalled, dlqVars, mon
<1> QED BY <1>1, <1>2, <1>3, <1>4, <1>5 DEF DLQNext

\* In the configuration that ensureStreams creates (broker.go:105-131), where no
\* stream has the advisories' subject (broker.go:362), no job that is given up
\* ever gets a copy, however long the server runs and however often it restarts.
THEOREM NoStreamNoCopy ==
  ASSUME ~AdvisoryStream
  PROVE  DLQSpec => [](dlq = {})
<1>1. DLQInit => Idle
  BY DEF DLQInit, Mon!Init, Idle
<1>2. DLQTypeOK /\ Idle /\ [DLQNext]_dlqVars => Idle'
  BY IdleStep
<1>3. Idle => dlq = {}
  BY DEF Idle
<1> QED BY <1>1, <1>2, <1>3, DLQTypeInit, DLQTypeStep, PTL DEF DLQSpec

-----------------------------------------------------------------------------
(* Both relays in one process                                              *)

LEMMA BridgeLeavesProcess == BridgeStep => UNCHANGED process
BY DEF BridgeStep, BridgeNext, Callback, Post, Deliver, AckWaitExpire, Subscribe,
       Unsubscribe, Dispatch, Publish, Reply, Unbind, HubSubscribe, HubDisconnect, Handle

LEMMA MonitorLeavesProcess == MonitorStep => UNCHANGED process
BY DEF MonitorStep, MonitorCallback, Exhaust, Expire, DeliverAdvisory,
       AdvisoryWaitExpire, StartMonitor, StopMonitor, Advised, Fetch, Copy, Settle

\* A step of the server is for each relay a step of its own or none at all.
LEMMA ServerStepSplits ==
  [ServerNext]_serverVars => [NotifyNext]_notifyVars /\ [DLQNext]_dlqVars
<1> SUFFICES ASSUME [ServerNext]_serverVars
             PROVE  [NotifyNext]_notifyVars /\ [DLQNext]_dlqVars
  OBVIOUS
<1>1. CASE BridgeStep /\ UNCHANGED dead
  <2>1. NotifyNext
    BY <1>1, Zenon DEF BridgeStep, NotifyNext
  <2>2. UNCHANGED dlqVars
    BY <1>1, BridgeLeavesProcess DEF dlqVars, dead
  <2> QED BY <2>1, <2>2
<1>2. CASE MonitorStep /\ UNCHANGED bridge
  <2>1. DLQNext
    BY <1>2, Zenon DEF MonitorStep, DLQNext
  <2>2. UNCHANGED notifyVars
    BY <1>2, MonitorLeavesProcess DEF notifyVars, bridge
  <2> QED BY <2>1, <2>2
<1>3. CASE ServerStep
  <2>1. NotifyNext
    BY <1>3, Zenon DEF ServerStep, NotifyNext
  <2>2. DLQNext
    BY <1>3, Zenon DEF ServerStep, DLQNext
  <2> QED BY <2>1, <2>2
<1>4. CASE UNCHANGED serverVars
  BY <1>4 DEF serverVars, notifyVars, dlqVars, bridge, dead
<1> QED BY <1>1, <1>2, <1>3, <1>4 DEF ServerNext

\* The relays do not interfere: of whatever the server does, the bridge sees a
\* behaviour of its own and so does the monitor (main.go:121-126, 157-163, 257).
THEOREM RelaysDoNotInterfere == ServerSpec => NotifySpec /\ DLQSpec
<1>1. ServerInit => NotifyInit /\ ProcessInit /\ DLQInit
  BY DEF ServerInit
<1> QED BY <1>1, ServerStepSplits, PTL DEF ServerSpec, NotifySpec, DLQSpec

\* Nothing of either subscription, and no callback, outlives the process both
\* run in (main.go:249-266).
THEOREM RelaysTypeCorrect == ServerSpec => []RelaysTypeOK
<1>1. NotifyTypeOK /\ DLQTypeOK => RelaysTypeOK
  BY DEF RelaysTypeOK
<1> QED BY <1>1, RelaysDoNotInterfere, NotifyTypeCorrect, DLQTypeCorrect, PTL

\* The server passes notifications and dead letters on before it acknowledges
\* them, and the users see what was published, in the stream's order, with both
\* relays at work.
THEOREM ServerRelaysBoth ==
  ServerSpec => NotificationRelay /\ DeadLetterRelay /\ [](InOrder /\ FromTheStream)
BY RelaysDoNotInterfere, BridgeRelays, MonitorRelays, NotificationsInOrder,
   NothingInvented, PTL
=============================================================================
