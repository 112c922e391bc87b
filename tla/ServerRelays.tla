---------------------------- MODULE ServerRelays ----------------------------
(***************************************************************************)
(* cmd/server/main.go runs the notification bridge and the dead-letter     *)
(* monitor in goroutines of one process.  Each has a subscription, a       *)
(* consumer and a callback of its own; they share the process: one signal  *)
(* cancels the context of both, and both end with it.                      *)
(***************************************************************************)
EXTENDS NotificationDelivery, DeadLetterQueue

bridge == <<sub, durable, creator, rest, faults, forwarded>>
dead   == <<mon, jobs, monitorFaults, dlq>>
serverVars == <<process, bridge, dead>>

ServerInit == ProcessInit /\ NotifyInit /\ DLQInit

\* The bridge, its stream and the hub it feeds.
BridgeStep ==
  \/ \E i \in Notifications : Post(i)
  \/ BridgeNext
  \/ HubSubscribe \/ HubDisconnect \/ Handle

\* The monitor and the jobs it is told of.
MonitorStep ==
  \/ \E j \in Exhausted :
       Exhaust(j) \/ Expire(j) \/ DeliverAdvisory(j) \/ AdvisoryWaitExpire(j)
  \/ StartMonitor \/ StopMonitor \/ MonitorCallback

\* What happens to the process happens to both.
ServerStep ==
  \/ ProcessStarts /\ ServerStarts
  \/ ProcessSignalled /\ ServerSignalled
  \/ ProcessEnds /\ ServerEnds

ServerNext ==
  \/ BridgeStep /\ UNCHANGED dead
  \/ MonitorStep /\ UNCHANGED bridge
  \/ ServerStep

ServerSpec == ServerInit /\ [][ServerNext]_serverVars

\* Both relays' state is well formed; nothing of a subscription outlives its
\* process.
RelaysTypeOK == NotifyTypeOK /\ DLQTypeOK
=============================================================================
