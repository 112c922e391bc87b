--------------------------- MODULE DeadLetterQueue --------------------------
(***************************************************************************)
(* NATSBroker.StartDLQMonitor: the server announces a job that has been    *)
(* delivered for the last time by an advisory, and the monitor's callback  *)
(* fetches the job from its stream and publishes a copy to the dead-letter *)
(* stream.                                                                 *)
(*                                                                         *)
(* Advisories are kept only if some stream has their subject.  None that   *)
(* ensureStreams creates does: with AdvisoryStream = FALSE js.Subscribe    *)
(* fails, an advisory is published to nobody and no job is ever copied.    *)
(* AdvisoryStream = TRUE says that an operator has created one, by hand.   *)
(* The monitor's consumer has no name and ends with it, so each process    *)
(* reads the kept advisories from the first one.                           *)
(***************************************************************************)
EXTENDS ServerProcess, Sequences, FiniteSets

CONSTANTS
  Exhausted,               \* jobs given up, in the order of their advisories
  AdvisoryStream,          \* does a stream have the advisories' subject?
  MaxMonitorFaults         \* bound: failed calls, lost or late acks

ASSUME MonitorAssumption ==
  /\ Exhausted \subseteq Nat \ {0}
  /\ AdvisoryStream \in BOOLEAN
  /\ MaxMonitorFaults \in Nat

VARIABLES
  adv, monitor, waiting, job, step, retold,  \* the subscription: PushConsumer
  givenUp,                 \* jobs delivered for the last time without an ack
  kept,                    \* jobs whose message is still in its stream
  monitorFaults,           \* counted against MaxMonitorFaults
  dlq                      \* the jobs with a copy in the dead-letter stream

mon     == <<adv, monitor, waiting, job, step, retold>>
jobs    == <<givenUp, kept>>
dlqVars == <<process, mon, jobs, monitorFaults, dlq>>

Mon == INSTANCE PushConsumer WITH
  Items <- Exhausted, msg <- adv, open <- monitor, inbox <- waiting,
  cur <- job, handler <- step, again <- retold

DLQInit ==
  /\ Mon!Init
  /\ givenUp = {} /\ kept = Exhausted
  /\ monitorFaults = 0 /\ dlq = {}

MonitorFault ==
  monitorFaults < MaxMonitorFaults /\ monitorFaults' = monitorFaults + 1

-----------------------------------------------------------------------------
(* JetStream                                                               *)

\* The last delivery of a job was not acknowledged: the server gives it up and
\* announces it, to the stream that has the subject if there is one.
Exhaust(j) ==
  /\ j \in kept \ givenUp
  /\ givenUp' = givenUp \cup {j}
  /\ IF AdvisoryStream THEN Mon!Store(j) ELSE UNCHANGED mon
  /\ UNCHANGED <<process, kept, monitorFaults, dlq>>

\* The job's message reaches the stream's MaxAge of 24 hours.
Expire(j) ==
  /\ j \in kept \cap givenUp
  /\ kept' = kept \ {j}
  /\ UNCHANGED <<process, mon, givenUp, monitorFaults, dlq>>

DeliverAdvisory(j) ==
  /\ Mon!Deliver(j)
  /\ UNCHANGED <<process, jobs, monitorFaults, dlq>>

AdvisoryWaitExpire(j) ==
  /\ Mon!AckWaitExpire(j)
  /\ IF \/ \E k \in DOMAIN waiting : waiting[k] = j
        \/ job = j
     THEN MonitorFault ELSE UNCHANGED monitorFaults
  /\ UNCHANGED <<process, jobs, dlq>>

-----------------------------------------------------------------------------
(* StartDLQMonitor                                                         *)

\* js.Subscribe finds the stream of the subject and creates a consumer.  (It
\* fails if there is none, which is only logged.)
StartMonitor ==
  /\ AdvisoryStream /\ proc = "serving" /\ ~monitor
  /\ monitor' = TRUE
  /\ UNCHANGED <<process, adv, waiting, job, step, retold, jobs, monitorFaults, dlq>>

\* The context is done: sub.Unsubscribe(), and the consumer is gone.
StopMonitor ==
  /\ monitor /\ proc = "stopping"
  /\ monitor' = FALSE /\ waiting' = << >>
  /\ adv' = Mon!Forgotten /\ retold' = Mon!Replayed
  /\ UNCHANGED <<process, job, step, jobs, monitorFaults, dlq>>

Advised ==
  /\ Mon!Dispatch("fetch")
  /\ UNCHANGED <<process, jobs, monitorFaults, dlq>>

FetchOrDrop ==
  /\ step = "fetch"
  /\ \/ job \in kept /\ Mon!Calls("publish") /\ UNCHANGED monitorFaults
     \/ job \notin kept /\ Mon!Calls("ack") /\ UNCHANGED monitorFaults
     \/ MonitorFault /\ Mon!Calls("ack")
  /\ UNCHANGED <<process, jobs, dlq>>

\* js.GetMsg; without the job's message the advisory is refused.
Fetch ==
  /\ step = "fetch"
  /\ \/ job \in kept /\ Mon!Calls("publish") /\ UNCHANGED monitorFaults
     \/ job \notin kept /\ Mon!Calls("nak") /\ UNCHANGED monitorFaults
     \/ MonitorFault /\ Mon!Calls("nak")
  /\ UNCHANGED <<process, jobs, dlq>>

\* js.PublishMsg to the dead-letter stream, with the monitor's context; it may
\* fail, with or without effect.
Copy ==
  /\ step = "publish"
  /\ \/ /\ proc = "serving" /\ dlq' = dlq \cup {job}
        /\ Mon!Calls("ack") /\ UNCHANGED monitorFaults
     \/ /\ proc = "serving" /\ dlq' = dlq \cup {job}
        /\ Mon!Calls("nak") /\ MonitorFault
     \/ /\ IF proc = "serving" THEN MonitorFault ELSE UNCHANGED monitorFaults
        /\ UNCHANGED dlq /\ Mon!Calls("nak")
  /\ UNCHANGED <<process, jobs>>

\* msg.Ack() or msg.Nak(), and the callback is over.
Settle ==
  /\ \/ (Mon!Ack \/ Mon!Nak) /\ UNCHANGED monitorFaults
     \/ Mon!ReplyLost /\ MonitorFault
  /\ UNCHANGED <<process, jobs, dlq>>

-----------------------------------------------------------------------------
(* The process                                                             *)

ServerStarts == Boot /\ UNCHANGED <<mon, jobs, monitorFaults, dlq>>

ServerSignalled == Signal /\ UNCHANGED <<mon, jobs, monitorFaults, dlq>>

\* The monitor's consumer goes with its connection.
ServerEnds ==
  /\ Ends
  /\ Mon!Gone
  /\ IF monitor
     THEN adv' = Mon!Forgotten /\ retold' = Mon!Replayed
     ELSE UNCHANGED <<adv, retold>>
  /\ UNCHANGED <<jobs, monitorFaults, dlq>>

MonitorCallback == Advised \/ Fetch \/ Copy \/ Settle

DLQNext ==
  \/ \E j \in Exhausted :
       Exhaust(j) \/ Expire(j) \/ DeliverAdvisory(j) \/ AdvisoryWaitExpire(j)
  \/ StartMonitor \/ StopMonitor \/ MonitorCallback
  \/ ServerStarts \/ ServerSignalled \/ ServerEnds

DLQSpec == DLQInit /\ ProcessInit /\ [][DLQNext]_dlqVars

\* NATS delivers and the client's goroutines run.
MonitorFairness ==
  /\ \A j \in Exhausted :
       WF_dlqVars(DeliverAdvisory(j)) /\ WF_dlqVars(AdvisoryWaitExpire(j))
  /\ WF_dlqVars(MonitorCallback)

\* So does the goroutine of main that starts the monitor.
DLQFairness == MonitorFairness /\ WF_dlqVars(StartMonitor)

-----------------------------------------------------------------------------
(* What the operators may rely on                                          *)

DLQTypeOK ==
  /\ Mon!TypeOK
  /\ givenUp \in SUBSET Exhausted /\ kept \in SUBSET Exhausted
  /\ dlq \in SUBSET Exhausted
  /\ monitorFaults \in 0 .. MaxMonitorFaults
  /\ monitor => Up
  /\ job # 0 => Up
  /\ waiting # << >> => monitor

\* The monitor is a relay, too: no advisory is acknowledged before its job has
\* a copy in the dead-letter stream.
DeadLetters == INSTANCE RelayContract WITH
  Items <- Exhausted,
  posted <- {j \in Exhausted : adv[j] # "absent"},
  forwarded <- dlq,
  settled <- {j \in Exhausted : adv[j] = "acked"}
DeadLetterRelay == DeadLetters!Spec

\* A job that is given up while a process serves gets its copy, unless its
\* message expires first or that process stops.  The code promises it
\* (README.md:28) and does not keep it: no stream of ensureStreams has the
\* advisories' subject (broker.go:105-131, 362-363).
DeadLetterCopied ==
  \A j \in Exhausted :
    j \in givenUp /\ proc = "serving" ~>
      j \in dlq \/ j \notin kept \/ proc # "serving"
=============================================================================
