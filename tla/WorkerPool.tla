----------------------------- MODULE WorkerPool -----------------------------
(***************************************************************************)
(* internal/worker: Pool.Start, its workers and its job subscription       *)
(* (NATSBroker.SubscribeModerationJobs), with the JetStream consumer that  *)
(* feeds it and the shutdown of main.go.                                   *)
(*                                                                         *)
(* The server delivers a job's message at most MaxDeliver times, again     *)
(* whenever its ack is late.  The client keeps deliveries in an inbox and  *)
(* runs one callback at a time; the callback hands the job to the channel  *)
(* jobCh, blocking while it is full, and acks it.  A worker takes a job,   *)
(* waits for the rate limiter and moderates it (ModerationService).  At    *)
(* shutdown the context is cancelled, Start closes jobCh and waits for the *)
(* workers, and the process ends without waiting for Start.                *)
(*                                                                         *)
(* It is assumed that the subscription can be bound to the consumer, for   *)
(* which ensureConsumer (broker.go:146-155) sets no delivery subject.      *)
(***************************************************************************)
EXTENDS Naturals, Sequences, FiniteSets, Functions, Queues

CONSTANTS
  Jobs,           \* messages of the MODERATION_JOBS stream
  Workers,        \* the pool's goroutines
  None,           \* no job
  Capacity,       \* of jobCh (1000)
  MaxDeliver,     \* of the consumer (3)
  MaxAckPending,  \* of the consumer (100)
  MaxRuns,        \* bound: process starts
  Faults          \* may acks be lost, subscribing fail, the process crash?

ASSUME PoolAssumption ==
  /\ None \notin Jobs /\ IsFiniteSet(Workers)
  /\ Capacity \in Nat \ {0} /\ MaxDeliver \in Nat \ {0}
  /\ MaxAckPending \in Nat \ {0} /\ MaxRuns \in Nat \ {0}
  /\ Faults \in BOOLEAN

VARIABLES
  msg,            \* the consumer's view of each message
  tries,          \* its deliveries so far
  inbox,          \* deliveries waiting for the callback
  subscribed,     \* the subscription is open
  cur, handler,   \* the message of the running callback, and where it stands
  jobCh, closed,  \* the channel of jobs
  worker, holds,  \* where each worker stands, and its job
  ctx,            \* the pool's context: "live" or "done"
  start,          \* where Pool.Start stands; "down" if the process is not up
  runs,           \* counted against MaxRuns
  attempts,       \* history: ModerateContent calls for each job
  moderated,      \* history: jobs whose moderation succeeded
  steady,         \* history: no cancellation and no stop yet
  panicked        \* history: a callback sent on the closed channel

server == <<msg, tries>>
client == <<inbox, subscribed, cur, handler>>
pool   == <<jobCh, closed, worker, holds>>
proc   == <<ctx, start, runs>>
hist   == <<attempts, moderated, steady, panicked>>
vars   == <<server, client, pool, proc, hist>>

Up == start # "down"

\* Delivered, not acked and not given up: what MaxAckPending counts.
AckPending == {m \in Jobs : msg[m] \in {"outstanding", "due"}}

-----------------------------------------------------------------------------
\* Nothing of a process outlives it.
Boot ==
  /\ inbox' = << >> /\ subscribed' = FALSE /\ cur' = None /\ handler' = "none"
  /\ jobCh' = << >> /\ closed' = FALSE
  /\ worker' = [w \in Workers |-> "idle"] /\ holds' = [w \in Workers |-> None]
  /\ ctx' = "live"

Init ==
  /\ msg = [m \in Jobs |-> "unpublished"]
  /\ tries = [m \in Jobs |-> 0]
  /\ inbox = << >> /\ subscribed = FALSE /\ cur = None /\ handler = "none"
  /\ jobCh = << >> /\ closed = FALSE
  /\ worker = [w \in Workers |-> "idle"] /\ holds = [w \in Workers |-> None]
  /\ ctx = "live" /\ start = "subscribing" /\ runs = 1
  /\ attempts = [m \in Jobs |-> 0]
  /\ moderated = {} /\ steady = TRUE /\ panicked = FALSE

-----------------------------------------------------------------------------
(* The JetStream consumer                                                  *)

Publish(m) ==
  /\ msg[m] = "unpublished"
  /\ msg' = [msg EXCEPT ![m] = "stored"]
  /\ UNCHANGED <<tries, client, pool, proc, hist>>

\* Redeliveries go first and are not held back by MaxAckPending.
Deliver(m) ==
  /\ subscribed /\ tries[m] < MaxDeliver
  /\ \/ msg[m] = "due"
     \/ msg[m] = "stored" /\ Cardinality(AckPending) < MaxAckPending
  /\ msg' = [msg EXCEPT ![m] = "outstanding"]
  /\ tries' = [tries EXCEPT ![m] = @ + 1]
  /\ inbox' = Append(inbox, m)
  /\ UNCHANGED <<subscribed, cur, handler, pool, proc, hist>>

\* A delivery that failed, or that was not acked in time (BackOff, from 100
\* milliseconds): the message is due again, or given up after MaxDeliver.
Retry(m) ==
  msg' = [msg EXCEPT ![m] = IF tries[m] < MaxDeliver THEN "due" ELSE "exhausted"]

AckWaitExpire(m) ==
  /\ msg[m] = "outstanding"
  /\ Retry(m)
  /\ UNCHANGED <<tries, client, pool, proc, hist>>

-----------------------------------------------------------------------------
(* The subscription's callback, one delivery at a time                     *)

DispatchPeek ==
  /\ subscribed /\ handler = "none" /\ inbox # << >>
  /\ cur' = Head(inbox) /\ handler' = "select" /\ UNCHANGED inbox
  /\ UNCHANGED <<server, subscribed, pool, proc, hist>>

Dispatch ==
  /\ subscribed /\ handler = "none" /\ inbox # << >>
  /\ cur' = Head(inbox) /\ inbox' = Tail(inbox) /\ handler' = "select"
  /\ UNCHANGED <<server, subscribed, pool, proc, hist>>

EnqueueAckFirst ==
  /\ handler = "select" /\ ~closed
  /\ msg' = [msg EXCEPT ![cur] = IF @ = "exhausted" THEN @ ELSE "acked"]
  /\ IF Len(jobCh) < Capacity THEN jobCh' = Append(jobCh, cur) ELSE UNCHANGED jobCh
  /\ cur' = None /\ handler' = "none"
  /\ UNCHANGED <<tries, inbox, subscribed, closed, worker, holds, proc, hist>>

EnqueueUnbounded ==
  /\ handler = "select" /\ ~closed
  /\ jobCh' = Append(jobCh, cur)
  /\ handler' = "ack"
  /\ UNCHANGED <<server, inbox, subscribed, cur, closed, worker, holds, proc, hist>>

\* case jobCh <- content, once there is room.
Enqueue ==
  /\ handler = "select" /\ ~closed /\ Len(jobCh) < Capacity
  /\ jobCh' = Append(jobCh, cur)
  /\ handler' = "ack"
  /\ UNCHANGED <<server, inbox, subscribed, cur, closed, worker, holds, proc, hist>>

\* msg.Ack(), not confirmed by the server; too late for a message given up.
Ack ==
  /\ handler = "ack"
  /\ \/ msg' = [msg EXCEPT ![cur] = IF @ = "exhausted" THEN @ ELSE "acked"]
     \/ Faults /\ UNCHANGED msg
  /\ cur' = None /\ handler' = "none"
  /\ UNCHANGED <<tries, inbox, subscribed, pool, proc, hist>>

\* case <-ctx.Done(): the callback returns an error and msg.Nak() is sent; the
\* select may take this case with room in jobCh too.
Refuse ==
  /\ handler = "select" /\ ctx = "done"
  /\ IF msg[cur] = "outstanding" THEN Retry(cur) ELSE UNCHANGED msg
  /\ cur' = None /\ handler' = "none"
  /\ UNCHANGED <<tries, inbox, subscribed, pool, proc, hist>>

-----------------------------------------------------------------------------
(* The workers                                                             *)

\* for content := range jobs: a closed channel is drained first.
Receive(w) ==
  /\ worker[w] = "idle" /\ jobCh # << >>
  /\ holds' = [holds EXCEPT ![w] = Head(jobCh)]
  /\ jobCh' = Tail(jobCh)
  /\ worker' = [worker EXCEPT ![w] = "limit"]
  /\ UNCHANGED <<server, client, closed, proc, hist>>

Leave(w) ==
  /\ worker' = [worker EXCEPT ![w] = "exited"]
  /\ holds' = [holds EXCEPT ![w] = None]

RangeEnds(w) ==
  /\ worker[w] = "idle" /\ jobCh = << >> /\ closed
  /\ Leave(w)
  /\ UNCHANGED <<server, client, jobCh, closed, proc, hist>>

\* limiter.Wait(ctx) grants a token; processJob calls ModerateContent.
Moderate(w) ==
  /\ worker[w] = "limit" /\ ctx = "live"
  /\ worker' = [worker EXCEPT ![w] = "work"]
  /\ attempts' = [attempts EXCEPT ![holds[w]] = @ + 1]
  /\ UNCHANGED <<server, client, jobCh, closed, holds, proc, moderated, steady, panicked>>

WaitFails(w) ==
  /\ worker[w] = "limit"
  /\ Leave(w)
  /\ UNCHANGED <<server, client, jobCh, closed, proc, hist>>

\* limiter.Wait(ctx) fails: the worker returns with the job in its hands.
WaitCancelled(w) ==
  /\ worker[w] = "limit" /\ ctx = "done"
  /\ Leave(w)
  /\ UNCHANGED <<server, client, jobCh, closed, proc, hist>>

FinishReturns(w) ==
  /\ worker[w] = "work"
  /\ Leave(w)
  /\ moderated' \in {moderated, moderated \cup {holds[w]}}
  /\ UNCHANGED <<server, client, jobCh, closed, proc, attempts, steady, panicked>>

\* processJob succeeds, or fails and is only logged.
Finish(w) ==
  /\ worker[w] = "work"
  /\ worker' = [worker EXCEPT ![w] = "idle"]
  /\ holds' = [holds EXCEPT ![w] = None]
  /\ moderated' \in {moderated, moderated \cup {holds[w]}}
  /\ UNCHANGED <<server, client, jobCh, closed, proc, attempts, steady, panicked>>

-----------------------------------------------------------------------------
(* Start, shutdown and the process                                         *)

Subscribe ==
  /\ start = "subscribing"
  /\ start' = "serving" /\ subscribed' = TRUE
  /\ UNCHANGED <<server, inbox, cur, handler, pool, ctx, runs, hist>>

\* SIGTERM: main cancels the context the pool's derives from.
Cancel ==
  /\ Up /\ ctx = "live"
  /\ ctx' = "done" /\ steady' = FALSE
  /\ UNCHANGED <<server, client, pool, start, runs, attempts, moderated, panicked>>

\* The goroutine SubscribeModerationJobs leaves behind: deliveries still in the
\* inbox are not called back, a running callback goes on.
Unsubscribe ==
  /\ subscribed /\ ctx = "done"
  /\ subscribed' = FALSE /\ inbox' = << >>
  /\ UNCHANGED <<server, cur, handler, pool, proc, hist>>

CloseJobsNever ==
  /\ start = "serving" /\ ctx = "done"
  /\ start' = "waiting" /\ UNCHANGED closed
  /\ UNCHANGED <<server, client, jobCh, worker, holds, ctx, runs, hist>>

CloseJobs ==
  /\ start = "serving" /\ ctx = "done"
  /\ start' = "waiting" /\ closed' = TRUE
  /\ UNCHANGED <<server, client, jobCh, worker, holds, ctx, runs, hist>>

\* p.wg.Wait() ends.
Return ==
  /\ start = "waiting" /\ \A w \in Workers : worker[w] = "exited"
  /\ start' = "returned"
  /\ UNCHANGED <<server, client, pool, ctx, runs, hist>>

Stop ==
  /\ Up /\ start' = "down" /\ Boot /\ steady' = FALSE
  /\ UNCHANGED <<server, runs, attempts, moderated>>

\* The process ends: main is done after the context was cancelled, whatever the
\* pool is doing; or it crashes, or subscribing fails (log.Fatal); or select
\* takes the send on the closed channel, which panics.
Exit         == ctx = "done" /\ Stop /\ UNCHANGED panicked
Crash        == Faults /\ Stop /\ UNCHANGED panicked
SendOnClosed == handler = "select" /\ closed /\ Stop /\ panicked' = TRUE

Restart ==
  /\ ~Up /\ runs < MaxRuns
  /\ start' = "subscribing" /\ runs' = runs + 1
  /\ UNCHANGED <<server, client, pool, ctx, hist>>

Callback == Dispatch \/ Enqueue \/ Ack \/ Refuse

Run(w) ==
  \/ Receive(w) \/ RangeEnds(w) \/ Moderate(w) \/ WaitCancelled(w) \/ Finish(w)

Next ==
  \/ \E m \in Jobs : Publish(m) \/ Deliver(m) \/ AckWaitExpire(m)
  \/ Callback
  \/ \E w \in Workers : Run(w)
  \/ Subscribe \/ Cancel \/ Unsubscribe \/ CloseJobs \/ Return
  \/ Exit \/ Crash \/ SendOnClosed \/ Restart

Spec == Init /\ [][Next]_vars

\* Goroutines run, a job ends by its JobTimeout at the latest, the limiter
\* grants tokens and the server delivers what is due.
Fairness ==
  /\ WF_vars(Callback) /\ WF_vars(Subscribe) /\ WF_vars(CloseJobs)
  /\ WF_vars(Return) /\ WF_vars(Unsubscribe)
  /\ \A w \in Workers : WF_vars(Run(w))
  /\ \A m \in Jobs : WF_vars(Deliver(m)) /\ WF_vars(AckWaitExpire(m))

FairSpec == Spec /\ Fairness

-----------------------------------------------------------------------------
(* What the pool promises                                                  *)

\* The jobs the process has taken off the stream and not yet dealt with.
InHand(m) == m \in Range(jobCh) \/ \E w \in Workers : holds[w] = m

ServerType ==
  /\ msg \in [Jobs -> {"unpublished", "stored", "outstanding", "due",
                       "acked", "exhausted"}]
  /\ tries \in [Jobs -> 0 .. MaxDeliver]

ClientType ==
  /\ inbox \in Seq(Jobs) /\ subscribed \in BOOLEAN
  /\ cur \in Jobs \cup {None} /\ handler \in {"none", "select", "ack"}
  /\ cur = None <=> handler = "none"

PoolType ==
  /\ jobCh \in Seq(Jobs) /\ Len(jobCh) <= Capacity /\ closed \in BOOLEAN
  /\ worker \in [Workers -> {"idle", "limit", "work", "exited"}]
  /\ holds \in [Workers -> Jobs \cup {None}]
  /\ \A w \in Workers : holds[w] # None <=> worker[w] \in {"limit", "work"}

ProcType ==
  /\ ctx \in {"live", "done"} /\ runs \in 1 .. MaxRuns
  /\ start \in {"subscribing", "serving", "waiting", "returned", "down"}

HistType ==
  /\ attempts \in [Jobs -> Nat] /\ moderated \in SUBSET Jobs
  /\ steady \in BOOLEAN /\ panicked \in BOOLEAN

\* A worker holds a job exactly while it waits for the limiter or moderates,
\* and the callback a message exactly while it runs.
TypeOK == ServerType /\ ClientType /\ PoolType /\ ProcType /\ HistType

\* While the process is neither told to stop nor stopped, an acked job is in
\* the channel, with a worker, or has been through ModerateContent: nothing is
\* acked before it is handed over and no worker drops what it took.
NothingDropped ==
  steady => \A m \in Jobs :
    msg[m] = "acked" => InHand(m) \/ attempts[m] > 0

\* The deliveries of a job that may still become a call of ModerateContent.
Calling(m) == IF handler = "select" /\ cur = m THEN 1 ELSE 0
Waiting(m) == {w \in Workers : worker[w] = "limit" /\ holds[w] = m}
Copies(m)  == Occurrences(m, inbox) + Calling(m) + Occurrences(m, jobCh)
                + Cardinality(Waiting(m))

\* However acks are lost or late and the process restarts, a job is moderated
\* at most MaxDeliver times: every attempt, and every copy still in the
\* process, is one delivery of the consumer.
DeliveryBudget == \A m \in Jobs : attempts[m] + Copies(m) <= tries[m]

\* No worker leaves while the pool serves; jobCh is closed once the context is
\* done, by a Start that no longer serves.
WorkersStay ==
  ctx = "live" => ~closed /\ \A w \in Workers : worker[w] # "exited"

\* A cancelled pool shuts down: every worker leaves and Start returns, unless
\* the process ends first.
ShutdownCompletes == ctx = "done" ~> start \in {"returned", "down"}

\* A stored job is moderated (or its moderation has failed) as long as the pool
\* keeps running.
JobAttempted ==
  \A m \in Jobs : msg[m] = "stored" ~> attempts[m] > 0 \/ ~steady

\* A shutdown does not panic.
NoPanic == ~panicked

\* A job leaves the stream only by being moderated: what is acked is still in
\* hand or was moderated.
AckedIsModerated ==
  \A m \in Jobs : msg[m] = "acked" => InHand(m) \/ m \in moderated
=============================================================================
