-------------------------- MODULE WorkerPoolProofs --------------------------
(***************************************************************************)
(* Theorems about WorkerPool for every set of jobs, pool size, channel     *)
(* capacity and delivery limit: the state is well typed, a pool that runs  *)
(* drops no job it acked and loses a bounded number when it stops, workers *)
(* leave only after a cancellation, a job is moderated at most MaxDeliver  *)
(* times, and a cancelled pool has a bounded number of steps left.         *)
(***************************************************************************)
EXTENDS WorkerPool, QueueLemmas, SequenceTheorems, FiniteSetTheorems, TLAPS

-----------------------------------------------------------------------------
(* Type correctness                                                        *)

LEMMA TypeInit == Init => TypeOK
<1> SUFFICES ASSUME Init PROVE TypeOK
    OBVIOUS
<1> USE PoolAssumption DEF Init
<1>1. ServerType /\ ProcType
    BY DEF ServerType, ProcType
<1>2. ClientType
    BY EmptySeq DEF ClientType
<1>3. PoolType
  <2>1. jobCh \in Seq(Jobs) /\ Len(jobCh) <= Capacity
    BY EmptySeq
  <2> QED
    BY <2>1 DEF PoolType
<1>4. HistType
    BY DEF HistType
<1> QED
    BY <1>1, <1>2, <1>3, <1>4 DEF TypeOK

LEMMA TypeStep == TypeOK /\ [Next]_vars => TypeOK'
<1> SUFFICES ASSUME TypeOK, [Next]_vars PROVE TypeOK'
    OBVIOUS
<1> USE PoolAssumption
    DEF TypeOK, ServerType, ClientType, PoolType, ProcType, HistType, vars,
        server, client, pool, proc, hist
<1>1. ASSUME NEW m \in Jobs, Publish(m) PROVE TypeOK'
    BY <1>1 DEF Publish
<1>2. ASSUME NEW m \in Jobs, Deliver(m) PROVE TypeOK'
    BY <1>2 DEF Deliver
<1>3. ASSUME NEW m \in Jobs, AckWaitExpire(m) PROVE TypeOK'
    BY <1>3 DEF AckWaitExpire, Retry
<1>4. CASE Dispatch
    BY <1>4, RangeTail DEF Dispatch
<1>5. CASE Enqueue
    BY <1>5 DEF Enqueue
<1>6. CASE Ack
    BY <1>6 DEF Ack
<1>7. CASE Refuse
    BY <1>7 DEF Refuse, Retry
<1>8. ASSUME NEW w \in Workers, Receive(w) PROVE TypeOK'
  <2>1. Head(jobCh) \in Jobs /\ Tail(jobCh) \in Seq(Jobs) /\ Len(Tail(jobCh)) <= Capacity
    BY <1>8 DEF Receive
  <2> QED
    BY <1>8, <2>1 DEF Receive
<1>9. ASSUME NEW w \in Workers, RangeEnds(w) PROVE TypeOK'
    BY <1>9 DEF RangeEnds, Leave
<1>10. ASSUME NEW w \in Workers, Moderate(w) PROVE TypeOK'
    BY <1>10 DEF Moderate
<1>11. ASSUME NEW w \in Workers, WaitCancelled(w) PROVE TypeOK'
    BY <1>11 DEF WaitCancelled, Leave
<1>12. ASSUME NEW w \in Workers, Finish(w) PROVE TypeOK'
  <2>1. holds[w] \in Jobs
    BY <1>12 DEF Finish
  <2>2. moderated' \in SUBSET Jobs
    BY <1>12, <2>1 DEF Finish
  <2> QED
    BY <1>12, <2>2 DEF Finish
<1>13. CASE Subscribe
    BY <1>13 DEF Subscribe
<1>14. CASE Cancel
    BY <1>14 DEF Cancel
<1>15. CASE Unsubscribe
    BY <1>15, EmptySeq DEF Unsubscribe
<1>16. CASE CloseJobs
    BY <1>16 DEF CloseJobs
<1>17. CASE Return
    BY <1>17 DEF Return
<1>18. CASE Exit \/ Crash \/ SendOnClosed
  <2>1. Stop /\ panicked' \in BOOLEAN
    BY <1>18 DEF Exit, Crash, SendOnClosed, Stop
  <2>2. ServerType' /\ ProcType' /\ HistType'
    BY <2>1 DEF Stop, Boot
  <2>3. ClientType'
    BY <2>1, EmptySeq DEF Stop, Boot
  <2>4. PoolType'
    <3>1. jobCh' \in Seq(Jobs) /\ Len(jobCh') <= Capacity
      BY <2>1, EmptySeq DEF Stop, Boot
    <3> QED
      BY <2>1, <3>1 DEF Stop, Boot
  <2> QED
    BY <2>2, <2>3, <2>4
<1>19. CASE Restart
    BY <1>19 DEF Restart
<1>20. CASE UNCHANGED vars
    BY <1>20
<1> QED
    BY <1>1, <1>2, <1>3, <1>4, <1>5, <1>6, <1>7, <1>8, <1>9, <1>10, <1>11,
       <1>12, <1>13, <1>14, <1>15, <1>16, <1>17, <1>18, <1>19, <1>20
    DEF Next, Callback, Run

\* Every reachable state is well typed: the channel never holds more than its
\* capacity, and a worker holds a job exactly while it waits for the limiter or
\* moderates (pool.go:53, :97-106).
THEOREM PoolTypeCorrect == Spec => []TypeOK
BY TypeInit, TypeStep, PTL DEF Spec

-----------------------------------------------------------------------------
(* A running pool drops nothing                                            *)

THEOREM PoolWorkersStay == Spec => []WorkersStay
<1>1. Init => WorkersStay
    BY DEF Init, WorkersStay
<1>2. TypeOK /\ WorkersStay /\ [Next]_vars => WorkersStay'
  <2> SUFFICES ASSUME TypeOK, WorkersStay, [Next]_vars PROVE WorkersStay'
      OBVIOUS
  <2> USE DEF WorkersStay, server, client, pool, proc, hist
  <2>t. worker \in [Workers -> {"idle", "limit", "work", "exited"}]
      BY DEF TypeOK, PoolType
  <2>1. ASSUME NEW m \in Jobs, Publish(m) \/ Deliver(m) \/ AckWaitExpire(m)
        PROVE  WorkersStay'
      BY <2>1 DEF Publish, Deliver, AckWaitExpire
  <2>2. CASE Callback
      BY <2>2 DEF Callback, Dispatch, Enqueue, Ack, Refuse
  <2>3. ASSUME NEW w \in Workers, Run(w) PROVE WorkersStay'
      BY <2>3, <2>t
      DEF Run, Receive, RangeEnds, Leave, Moderate, WaitCancelled, Finish
  <2>4. CASE Subscribe \/ Cancel \/ Unsubscribe \/ CloseJobs \/ Return \/ Restart
      BY <2>4 DEF Subscribe, Cancel, Unsubscribe, CloseJobs, Return, Restart
  <2>5. CASE Exit \/ Crash \/ SendOnClosed
      BY <2>5 DEF Exit, Crash, SendOnClosed, Stop, Boot
  <2>6. CASE UNCHANGED vars
      BY <2>6 DEF vars
  <2> QED
      BY <2>1, <2>2, <2>3, <2>4, <2>5, <2>6 DEF Next
<1> QED
    BY TypeInit, TypeStep, <1>1, <1>2, PTL DEF Spec

Handed(m) == InHand(m) \/ attempts[m] > 0

\* NothingDropped, for the message whose ack is about to be sent too, and with
\* what makes a worker's last step safe: a job being moderated counts as
\* attempted.
DropInv ==
  /\ steady => ctx = "live"
  /\ \A w \in Workers : worker[w] = "work" => attempts[holds[w]] > 0
  /\ steady /\ handler = "ack" => Handed(cur)
  /\ NothingDropped

\* While the pool is steady a step keeps every handed job handed.
LEMMA HandedStep ==
  ASSUME TypeOK, WorkersStay, DropInv, [Next]_vars, steady', NEW m \in Jobs, Handed(m)
  PROVE  Handed(m)'
<1> USE DEF Handed, InHand, server, client, pool, proc, hist
<1>t. /\ jobCh \in Seq(Jobs) /\ attempts \in [Jobs -> Nat]
      /\ worker \in [Workers -> {"idle", "limit", "work", "exited"}]
      /\ holds \in [Workers -> Jobs \cup {None}]
      /\ \A w \in Workers : holds[w] # None <=> worker[w] \in {"limit", "work"}
    BY DEF TypeOK, PoolType, HistType
<1>1. ASSUME UNCHANGED <<jobCh, holds, attempts>> PROVE Handed(m)'
    BY <1>1
<1>2. CASE Enqueue
  <2>1. cur \in Jobs
    BY <1>2 DEF Enqueue, TypeOK, ClientType
  <2>2. Range(jobCh') = Range(jobCh) \cup {cur}
    BY <1>2, <1>t, <2>1, RangeAppend DEF Enqueue
  <2> QED
    BY <1>2, <2>2 DEF Enqueue
<1>3. ASSUME NEW w \in Workers, Receive(w) PROVE Handed(m)'
  <2>1. Range(jobCh) = Range(Tail(jobCh)) \cup {Head(jobCh)}
    BY <1>3, <1>t, RangeTail DEF Receive
  <2>2. holds[w] = None
    BY <1>3, <1>t DEF Receive
  <2> QED
    BY <1>3, <1>t, <2>1, <2>2, PoolAssumption DEF Receive
<1>4. ASSUME NEW w \in Workers, RangeEnds(w) PROVE Handed(m)'
    BY <1>4 DEF RangeEnds, DropInv, WorkersStay
<1>5. ASSUME NEW w \in Workers, Moderate(w) PROVE Handed(m)'
    BY <1>5, <1>t DEF Moderate
<1>6. ASSUME NEW w \in Workers, WaitCancelled(w) PROVE Handed(m)'
    BY <1>6 DEF WaitCancelled, DropInv
<1>7. ASSUME NEW w \in Workers, Finish(w) PROVE Handed(m)'
    BY <1>7, <1>t DEF Finish, DropInv
<1>8. CASE Exit \/ Crash \/ SendOnClosed
    BY <1>8 DEF Exit, Crash, SendOnClosed, Stop
<1>9. ASSUME NEW n \in Jobs, Publish(n) \/ Deliver(n) \/ AckWaitExpire(n) PROVE Handed(m)'
    BY <1>1, <1>9 DEF Publish, Deliver, AckWaitExpire
<1>10. CASE \/ Dispatch \/ Ack \/ Refuse \/ Subscribe \/ Cancel \/ Unsubscribe
            \/ CloseJobs \/ Return \/ Restart \/ UNCHANGED vars
    BY <1>1, <1>10
    DEF Dispatch, Ack, Refuse, Subscribe, Cancel, Unsubscribe, CloseJobs, Return,
        Restart, vars
<1> QED
    BY <1>2, <1>3, <1>4, <1>5, <1>6, <1>7, <1>8, <1>9, <1>10 DEF Next, Callback, Run

LEMMA DropStep == TypeOK /\ WorkersStay /\ DropInv /\ [Next]_vars => DropInv'
<1> SUFFICES ASSUME TypeOK, WorkersStay, DropInv, [Next]_vars PROVE DropInv'
    OBVIOUS
<1> USE DEF server, client, pool, proc, hist
<1>t. /\ jobCh \in Seq(Jobs) /\ attempts \in [Jobs -> Nat]
      /\ msg \in [Jobs -> {"unpublished", "stored", "outstanding", "due",
                           "acked", "exhausted"}]
      /\ worker \in [Workers -> {"idle", "limit", "work", "exited"}]
      /\ holds \in [Workers -> Jobs \cup {None}]
      /\ \A w \in Workers : holds[w] # None <=> worker[w] \in {"limit", "work"}
      /\ cur \in Jobs \cup {None} /\ (cur = None <=> handler = "none")
    BY DEF TypeOK, ServerType, ClientType, PoolType, HistType
<1>s. steady' => steady
    BY DEF Next, Callback, Run, Publish, Deliver, AckWaitExpire, Dispatch, Enqueue,
           Ack, Refuse, Receive, RangeEnds, Moderate, WaitCancelled, Finish,
           Subscribe, Cancel, Unsubscribe, CloseJobs, Return, Exit, Crash,
           SendOnClosed, Stop, Restart, vars
<1>1. steady' => ctx' = "live"
    BY <1>s
    DEF Next, Callback, Run, Publish, Deliver, AckWaitExpire, Dispatch, Enqueue,
        Ack, Refuse, Receive, RangeEnds, Moderate, WaitCancelled, Finish,
        Subscribe, Cancel, Unsubscribe, CloseJobs, Return, Exit, Crash,
        SendOnClosed, Stop, Restart, vars, DropInv
<1>2. ASSUME NEW w \in Workers, worker'[w] = "work" PROVE attempts'[holds'[w]] > 0
  <2>1. ASSUME NEW v \in Workers, Moderate(v) PROVE attempts'[holds'[w]] > 0
    BY <1>2, <1>t, <2>1 DEF Moderate, DropInv
  <2>2. ASSUME NEW v \in Workers,
               Receive(v) \/ RangeEnds(v) \/ WaitCancelled(v) \/ Finish(v)
        PROVE  attempts'[holds'[w]] > 0
    BY <1>2, <1>t, <2>2
    DEF Receive, RangeEnds, WaitCancelled, Finish, Leave, DropInv
  <2>3. CASE Exit \/ Crash \/ SendOnClosed
    BY <1>2, <2>3 DEF Exit, Crash, SendOnClosed, Stop, Boot
  <2>4. CASE UNCHANGED <<worker, holds, attempts>>
    BY <1>2, <2>4 DEF DropInv
  <2> QED
    BY <2>1, <2>2, <2>3, <2>4
    DEF Next, Callback, Run, Publish, Deliver, AckWaitExpire, Dispatch, Enqueue,
        Ack, Refuse, Subscribe, Cancel, Unsubscribe, CloseJobs, Return, Restart, vars
<1>3. ASSUME steady', handler' = "ack" PROVE Handed(cur)'
  <2>1. CASE Enqueue
    <3>1. cur \in Jobs /\ cur' = cur
      BY <1>t, <2>1 DEF Enqueue
    <3>2. cur \in Range(jobCh')
      BY <1>t, <2>1, <3>1, RangeAppend DEF Enqueue
    <3> QED
      BY <3>1, <3>2 DEF Handed, InHand
  <2>2. CASE Dispatch \/ Ack \/ Refuse \/ Exit \/ Crash \/ SendOnClosed
    BY <1>3, <2>2 DEF Dispatch, Ack, Refuse, Exit, Crash, SendOnClosed, Stop, Boot
  <2>3. CASE UNCHANGED <<cur, handler>>
    <3>1. cur \in Jobs /\ Handed(cur)
      BY <1>3, <1>s, <1>t, <2>3 DEF DropInv
    <3> QED
      BY <1>3, <2>3, <3>1, HandedStep DEF Handed, InHand
  <2> QED
    BY <2>1, <2>2, <2>3
    DEF Next, Callback, Run, Publish, Deliver, AckWaitExpire, Receive, RangeEnds,
        Moderate, WaitCancelled, Finish, Subscribe, Cancel, Unsubscribe,
        CloseJobs, Return, Restart, vars
<1>4. ASSUME steady', NEW m \in Jobs, msg'[m] = "acked" PROVE Handed(m)'
  <2>1. msg[m] = "acked" \/ (Ack /\ m = cur)
    BY <1>4, <1>t
    DEF Next, Callback, Run, Publish, Deliver, AckWaitExpire, Retry, Dispatch,
        Enqueue, Ack, Refuse, Receive, RangeEnds, Moderate, WaitCancelled, Finish,
        Subscribe, Cancel, Unsubscribe, CloseJobs, Return, Exit, Crash,
        SendOnClosed, Stop, Restart, vars
  <2>2. Handed(m)
    BY <1>4, <1>s, <2>1 DEF Ack, DropInv, NothingDropped, Handed
  <2> QED
    BY <1>4, <2>2, HandedStep
<1> QED
    BY <1>1, <1>2, <1>3, <1>4 DEF DropInv, NothingDropped, Handed

\* While the pool is neither told to stop nor stopped, a job it acked
\* (broker.go:276) is in jobCh, with a worker, or has been moderated.
THEOREM PoolDropsNothing == Spec => []NothingDropped
<1>1. Init => DropInv
    BY DEF Init, DropInv, NothingDropped
<1>2. DropInv => NothingDropped
    BY DEF DropInv
<1> QED
    BY TypeInit, TypeStep, PoolWorkersStay, DropStep, <1>1, <1>2, PTL DEF Spec

-----------------------------------------------------------------------------
(* A job is moderated at most MaxDeliver times                             *)

\* The workers that wait with a job, when one worker moves.
LEMMA WaitingStep ==
  ASSUME TypeOK, NEW w \in Workers, NEW m,
         \A v \in Workers \ {w} : worker'[v] = worker[v] /\ holds'[v] = holds[v]
  PROVE  /\ Cardinality(Waiting(m)) \in Nat
         /\ Cardinality(Waiting(m))' = Cardinality(Waiting(m))
              + (IF w \notin Waiting(m) /\ w \in Waiting(m)' THEN 1 ELSE 0)
              - (IF w \in Waiting(m) /\ w \notin Waiting(m)' THEN 1 ELSE 0)
<1>1. IsFiniteSet(Waiting(m)) /\ IsFiniteSet(Waiting(m)')
    BY PoolAssumption, FS_Subset DEF Waiting
<1>2. Cardinality(Waiting(m)) \in Nat /\ Cardinality(Waiting(m)') \in Nat
    BY <1>1, FS_CardinalityType
<1>3. CASE w \notin Waiting(m) /\ w \in Waiting(m)'
  <2>1. Waiting(m)' = Waiting(m) \cup {w}
    BY <1>3 DEF Waiting
  <2> QED
    BY <1>1, <1>2, <1>3, <2>1, FS_AddElement
<1>4. CASE w \in Waiting(m) /\ w \notin Waiting(m)'
  <2>1. Waiting(m)' = Waiting(m) \ {w}
    BY <1>4 DEF Waiting
  <2> QED
    BY <1>1, <1>2, <1>4, <2>1, FS_RemoveElement
<1>5. CASE w \in Waiting(m) <=> w \in Waiting(m)'
  <2>1. Waiting(m)' = Waiting(m)
    BY <1>5 DEF Waiting
  <2> QED
    BY <1>2, <1>5, <2>1
<1> QED
    BY <1>3, <1>4, <1>5

LEMMA CopiesType ==
  ASSUME TypeOK, NEW m
  PROVE  /\ Occurrences(m, inbox) \in Nat /\ Occurrences(m, jobCh) \in Nat
         /\ Calling(m) \in Nat /\ Cardinality(Waiting(m)) \in Nat
<1>1. inbox \in Seq(Jobs) /\ jobCh \in Seq(Jobs)
    BY DEF TypeOK, ClientType, PoolType
<1>2. Occurrences(m, inbox) \in Nat /\ Occurrences(m, jobCh) \in Nat
    BY <1>1, OccurrencesType
<1>3. IsFiniteSet(Waiting(m))
    BY PoolAssumption, FS_Subset DEF Waiting
<1> QED
    BY <1>2, <1>3, FS_CardinalityType DEF Calling

\* Every step keeps the attempts and the copies of a job within its deliveries:
\* only Deliver makes a copy, and it counts it.
LEMMA BudgetStep == TypeOK /\ DeliveryBudget /\ [Next]_vars => DeliveryBudget'
<1> SUFFICES ASSUME TypeOK, DeliveryBudget, [Next]_vars, NEW m \in Jobs
             PROVE  attempts'[m] + Copies(m)' <= tries'[m]
    BY DEF DeliveryBudget
<1> DEFINE inb == Occurrences(m, inbox)
           cal == Calling(m)
           chn == Occurrences(m, jobCh)
           wtg == Cardinality(Waiting(m))
<1>a. /\ attempts[m] \in Nat /\ tries[m] \in Nat
      /\ inb \in Nat /\ cal \in Nat /\ chn \in Nat /\ wtg \in Nat
    BY CopiesType DEF TypeOK, ServerType, HistType
<1>b. attempts[m] + (inb + cal + chn + wtg) <= tries[m]
    BY DEF DeliveryBudget, Copies
<1>c. Copies(m)' = inb' + cal' + chn' + wtg'
    BY DEF Copies
<1>t. /\ inbox \in Seq(Jobs) /\ jobCh \in Seq(Jobs)
      /\ attempts \in [Jobs -> Nat] /\ tries \in [Jobs -> 0 .. MaxDeliver]
      /\ worker \in [Workers -> {"idle", "limit", "work", "exited"}]
      /\ holds \in [Workers -> Jobs \cup {None}]
      /\ \A w \in Workers : holds[w] # None <=> worker[w] \in {"limit", "work"}
    BY DEF TypeOK, ServerType, ClientType, PoolType, HistType
<1> USE DEF server, client, pool, proc, hist
\* What leaves a part of the state alone leaves its copies alone.
<1>d. UNCHANGED inbox => inb' = inb
    OBVIOUS
<1>e. UNCHANGED <<cur, handler>> => cal' = cal
    BY DEF Calling
<1>f. UNCHANGED jobCh => chn' = chn
    OBVIOUS
<1>g. UNCHANGED <<worker, holds>> => wtg' = wtg
    BY DEF Waiting
<1> HIDE DEF inb, cal, chn, wtg
<1>1. ASSUME NEW n \in Jobs, Deliver(n) PROVE attempts'[m] + Copies(m)' <= tries'[m]
  <2>1. inb' = inb + (IF n = m THEN 1 ELSE 0)
    BY <1>1, <1>t, OccurrencesAppend DEF Deliver, inb
  <2>2. tries'[m] = tries[m] + (IF n = m THEN 1 ELSE 0)
    BY <1>1, <1>a, <1>t DEF Deliver
  <2>3. UNCHANGED <<cur, handler, jobCh, worker, holds, attempts>>
    BY <1>1 DEF Deliver
  <2> QED
    BY <1>a, <1>b, <1>c, <1>e, <1>f, <1>g, <2>1, <2>2, <2>3
<1>2. CASE Dispatch
  <2>1. inb = inb' + (IF Head(inbox) = m THEN 1 ELSE 0)
    BY <1>2, <1>t, OccurrencesTail DEF Dispatch, inb
  <2>2. inb' \in Nat
    BY <1>2, <1>t, RangeTail, OccurrencesType DEF Dispatch, inb
  <2>3. cal = 0 /\ cal' = IF Head(inbox) = m THEN 1 ELSE 0
    BY <1>2 DEF Dispatch, cal, Calling
  <2>4. UNCHANGED <<jobCh, worker, holds, attempts, tries>>
    BY <1>2 DEF Dispatch
  <2> QED
    BY <1>a, <1>b, <1>c, <1>f, <1>g, <2>1, <2>2, <2>3, <2>4
<1>3. CASE Enqueue
  <2>1. cur \in Jobs
    BY <1>3 DEF Enqueue, TypeOK, ClientType
  <2>2. chn' = chn + (IF cur = m THEN 1 ELSE 0)
    BY <1>3, <1>t, <2>1, OccurrencesAppend DEF Enqueue, chn
  <2>3. cal' = 0 /\ cal = IF cur = m THEN 1 ELSE 0
    BY <1>3 DEF Enqueue, cal, Calling
  <2>4. UNCHANGED <<inbox, worker, holds, attempts, tries>>
    BY <1>3 DEF Enqueue
  <2> QED
    BY <1>a, <1>b, <1>c, <1>d, <1>g, <2>2, <2>3, <2>4
<1>4. CASE Ack \/ Refuse
  <2>1. cal' = 0
    BY <1>4 DEF Ack, Refuse, cal, Calling
  <2>2. UNCHANGED <<inbox, jobCh, worker, holds, attempts, tries>>
    BY <1>4 DEF Ack, Refuse
  <2> QED
    BY <1>a, <1>b, <1>c, <1>d, <1>f, <1>g, <2>1, <2>2
<1>5. ASSUME NEW w \in Workers, Receive(w) PROVE attempts'[m] + Copies(m)' <= tries'[m]
  <2>1. chn = chn' + (IF Head(jobCh) = m THEN 1 ELSE 0)
    BY <1>5, <1>t, OccurrencesTail DEF Receive, chn
  <2>2. chn' \in Nat
    BY <1>5, <1>t, RangeTail, OccurrencesType DEF Receive, chn
  <2>3. w \notin Waiting(m) /\ (w \in Waiting(m)' <=> Head(jobCh) = m)
    BY <1>5, <1>t DEF Receive, Waiting
  <2>4. \A v \in Workers \ {w} : worker'[v] = worker[v] /\ holds'[v] = holds[v]
    BY <1>5, <1>t DEF Receive
  <2>5. wtg' = wtg + (IF Head(jobCh) = m THEN 1 ELSE 0)
    BY <1>a, <2>3, <2>4, WaitingStep DEF wtg
  <2>6. UNCHANGED <<inbox, cur, handler, attempts, tries>>
    BY <1>5 DEF Receive
  <2> QED
    BY <1>a, <1>b, <1>c, <1>d, <1>e, <2>1, <2>2, <2>5, <2>6
<1>6. ASSUME NEW w \in Workers, Moderate(w) PROVE attempts'[m] + Copies(m)' <= tries'[m]
  <2>1. attempts'[m] = attempts[m] + (IF holds[w] = m THEN 1 ELSE 0)
    BY <1>6, <1>a, <1>t DEF Moderate
  <2>2. w \notin Waiting(m)' /\ (w \in Waiting(m) <=> holds[w] = m)
    BY <1>6, <1>t DEF Moderate, Waiting
  <2>3. \A v \in Workers \ {w} : worker'[v] = worker[v] /\ holds'[v] = holds[v]
    BY <1>6, <1>t DEF Moderate
  <2>4. wtg' = wtg - (IF holds[w] = m THEN 1 ELSE 0)
    BY <1>a, <2>2, <2>3, WaitingStep DEF wtg
  <2>5. UNCHANGED <<inbox, cur, handler, jobCh, tries>>
    BY <1>6 DEF Moderate
  <2> QED
    BY <1>a, <1>b, <1>c, <1>d, <1>e, <1>f, <2>1, <2>4, <2>5
<1>7. ASSUME NEW w \in Workers, RangeEnds(w) \/ WaitCancelled(w) \/ Finish(w)
      PROVE  attempts'[m] + Copies(m)' <= tries'[m]
  <2>1. w \notin Waiting(m)'
    BY <1>7, <1>t DEF RangeEnds, WaitCancelled, Finish, Leave, Waiting
  <2>2. \A v \in Workers \ {w} : worker'[v] = worker[v] /\ holds'[v] = holds[v]
    BY <1>7, <1>t DEF RangeEnds, WaitCancelled, Finish, Leave
  <2>3. wtg' = wtg \/ wtg' = wtg - 1
    BY <1>a, <2>1, <2>2, WaitingStep DEF wtg
  <2>4. UNCHANGED <<inbox, cur, handler, jobCh, attempts, tries>>
    BY <1>7 DEF RangeEnds, WaitCancelled, Finish
  <2> QED
    BY <1>a, <1>b, <1>c, <1>d, <1>e, <1>f, <2>3, <2>4
<1>8. CASE Unsubscribe
  <2>1. inb' = 0
    BY <1>8, OccurrencesEmpty DEF Unsubscribe, inb
  <2>2. UNCHANGED <<cur, handler, jobCh, worker, holds, attempts, tries>>
    BY <1>8 DEF Unsubscribe
  <2> QED
    BY <1>a, <1>b, <1>c, <1>e, <1>f, <1>g, <2>1, <2>2
<1>9. CASE Exit \/ Crash \/ SendOnClosed
  <2>1. Stop
    BY <1>9 DEF Exit, Crash, SendOnClosed
  <2>2. inb' = 0 /\ chn' = 0
    BY <2>1, OccurrencesEmpty DEF Stop, Boot, inb, chn
  <2>3. cal' = 0
    BY <2>1 DEF Stop, Boot, cal, Calling
  <2>4. Waiting(m)' = {}
    BY <2>1 DEF Stop, Boot, Waiting
  <2>5. wtg' = 0
    BY <2>4, FS_EmptySet DEF wtg
  <2>6. UNCHANGED <<attempts, tries>>
    BY <2>1 DEF Stop
  <2> QED
    BY <1>a, <1>b, <1>c, <2>2, <2>3, <2>5, <2>6
<1>10. CASE UNCHANGED <<inbox, cur, handler, jobCh, worker, holds, attempts, tries>>
    BY <1>a, <1>b, <1>c, <1>d, <1>e, <1>f, <1>g, <1>10
<1> QED
    BY <1>1, <1>2, <1>3, <1>4, <1>5, <1>6, <1>7, <1>8, <1>9, <1>10
    DEF Next, Callback, Run, Publish, AckWaitExpire, Subscribe, Cancel, CloseJobs,
        Return, Restart, vars

\* However acks are lost or late and the process restarts, the calls of
\* ModerateContent for a job (pool.go:113) and its copies in the process never
\* outnumber its deliveries (broker.go:151, MaxDeliver).
THEOREM PoolDeliveryBudget == Spec => []DeliveryBudget
<1>1. Init => DeliveryBudget
  <2> SUFFICES ASSUME Init, NEW m \in Jobs
               PROVE  attempts[m] + Copies(m) <= tries[m]
      BY DEF DeliveryBudget
  <2>1. Occurrences(m, inbox) = 0 /\ Occurrences(m, jobCh) = 0
      BY OccurrencesEmpty DEF Init
  <2>2. Waiting(m) = {} /\ Calling(m) = 0
      BY DEF Init, Waiting, Calling
  <2>3. Copies(m) = 0
      BY <2>1, <2>2, FS_EmptySet DEF Copies
  <2> QED
      BY <2>3 DEF Init
<1> QED
    BY TypeInit, TypeStep, BudgetStep, <1>1, PTL DEF Spec

\* A job is moderated at most MaxDeliver times.
THEOREM PoolAttemptsBounded == Spec => [](\A m \in Jobs : attempts[m] <= MaxDeliver)
<1>1. TypeOK /\ DeliveryBudget => \A m \in Jobs : attempts[m] <= MaxDeliver
  <2> SUFFICES ASSUME TypeOK, DeliveryBudget, NEW m \in Jobs
               PROVE  attempts[m] <= MaxDeliver
      OBVIOUS
  <2>1. attempts[m] \in Nat /\ tries[m] \in 0 .. MaxDeliver
      BY DEF TypeOK, ServerType, HistType
  <2>2. attempts[m] + Copies(m) <= tries[m]
      BY DEF DeliveryBudget
  <2>3. Copies(m) \in Nat
      BY CopiesType DEF Copies
  <2> QED
      BY <2>1, <2>2, <2>3, PoolAssumption
<1> QED
    BY PoolTypeCorrect, PoolDeliveryBudget, <1>1, PTL

-----------------------------------------------------------------------------
(* What shutdowns and crashes can lose                                     *)

\* The jobs that are off the stream, or about to be, and that nobody holds.
Lost == {m \in Jobs : /\ attempts[m] = 0 /\ ~InHand(m)
                      /\ msg[m] = "acked" \/ (handler = "ack" /\ cur = m)}

Exited  == {w \in Workers : worker[w] = "exited"}
Limited == {w \in Workers : worker[w] = "limit"}

\* The process runs that are over, and what each of them can lose.
Ended  == IF Up THEN runs - 1 ELSE runs
PerRun == Capacity + Cardinality(Workers)

\* Each worker that left took at most one job with it, and each process that
\* ended at most a full channel and a job per worker.
LossInv ==
  /\ IsFiniteSet(Lost)
  /\ Cardinality(Lost) <= Cardinality(Exited) + Ended * PerRun

\* Nothing of a process outlives it, nor comes to life before the next.
DownInv ==
  ~Up => /\ ~subscribed /\ handler = "none" /\ jobCh = << >> /\ ~closed
         /\ \A w \in Workers : worker[w] = "idle"

LEMMA DownStep == TypeOK /\ DownInv /\ [Next]_vars => DownInv'
<1> SUFFICES ASSUME TypeOK, DownInv, [Next]_vars PROVE DownInv'
    OBVIOUS
<1> USE DEF DownInv, Up, server, client, pool, proc, hist
<1>1. CASE Exit \/ Crash \/ SendOnClosed
    BY <1>1 DEF Exit, Crash, SendOnClosed, Stop, Boot
<1>2. CASE Subscribe \/ CloseJobs \/ Return \/ Restart
    BY <1>2 DEF Subscribe, CloseJobs, Return, Restart
<1>3. CASE Cancel \/ Unsubscribe \/ Callback \/ UNCHANGED vars
    BY <1>3
    DEF Cancel, Unsubscribe, Callback, Dispatch, Enqueue, Ack, Refuse, vars
<1>4. ASSUME NEW w \in Workers, Run(w) PROVE DownInv'
    BY <1>4 DEF Run, Receive, RangeEnds, Moderate, WaitCancelled, Finish
<1>5. ASSUME NEW m \in Jobs, Publish(m) \/ Deliver(m) \/ AckWaitExpire(m)
      PROVE  DownInv'
    BY <1>5 DEF Publish, Deliver, AckWaitExpire
<1> QED
    BY <1>1, <1>2, <1>3, <1>4, <1>5 DEF Next

LEMMA WorkersCounted ==
  ASSUME TypeOK
  PROVE  /\ IsFiniteSet(Exited) /\ Cardinality(Exited) \in Nat
         /\ IsFiniteSet(Limited) /\ Cardinality(Limited) \in Nat
         /\ Cardinality(Workers) \in Nat
         /\ Cardinality(Exited) + Cardinality(Limited) <= Cardinality(Workers)
         /\ PerRun \in Nat /\ Ended \in Nat /\ Ended * PerRun \in Nat
         /\ (Ended + 1) * PerRun = Ended * PerRun + PerRun
<1>1. /\ IsFiniteSet(Exited) /\ Cardinality(Exited) \in Nat
      /\ IsFiniteSet(Limited) /\ Cardinality(Limited) \in Nat
      /\ Cardinality(Workers) \in Nat
  BY PoolAssumption, FS_Subset, FS_CardinalityType DEF Exited, Limited
<1>2. Exited \cap Limited = {} /\ Exited \cup Limited \in SUBSET Workers
  BY DEF Exited, Limited
<1>3. Cardinality({}) = 0
  BY FS_EmptySet
<1>4. /\ Cardinality(Exited \cup Limited) = Cardinality(Exited) + Cardinality(Limited) - 0
      /\ Cardinality(Exited \cup Limited) <= Cardinality(Workers)
  <2>1. Cardinality(Exited \cup Limited)
          = Cardinality(Exited) + Cardinality(Limited) - Cardinality(Exited \cap Limited)
    BY <1>1, FS_Union
  <2>2. Cardinality(Exited \cup Limited) <= Cardinality(Workers)
    BY <1>2, PoolAssumption, FS_Subset
  <2> QED BY <1>2, <1>3, <2>1, <2>2
<1>5. PerRun \in Nat /\ Ended \in Nat
  BY <1>1, PoolAssumption DEF PerRun, Ended, TypeOK, ProcType
<1>6. \A a, b \in Nat : a * b \in Nat /\ (a + 1) * b = a * b + b
  OBVIOUS
<1> QED BY <1>1, <1>4, <1>5, <1>6

LEMMA LossInit == Init => LossInv
<1> SUFFICES ASSUME Init PROVE LossInv
  OBVIOUS
<1>1. Lost = {}
  BY DEF Init, Lost
<1>2. TypeOK
  BY TypeInit
<1>3. IsFiniteSet({}) /\ Cardinality({}) = 0
  BY FS_EmptySet
<1> QED BY <1>1, <1>2, <1>3, WorkersCounted DEF LossInv

\* A job in hand leaves it only to be moderated, with a worker whose wait is
\* cancelled, or with the process.
LEMMA HandKept ==
  ASSUME TypeOK, DropInv, [Next]_vars, NEW m \in Jobs, InHand(m), attempts[m] = 0
  PROVE  \/ InHand(m)'
         \/ \E w \in Workers : WaitCancelled(w) /\ holds[w] = m
         \/ Stop /\ Up /\ (m \in Range(jobCh) \/ \E w \in Limited : holds[w] = m)
<1> USE DEF InHand, server, client, pool, proc, hist
<1>t. /\ jobCh \in Seq(Jobs)
      /\ worker \in [Workers -> {"idle", "limit", "work", "exited"}]
      /\ holds \in [Workers -> Jobs \cup {None}]
      /\ \A w \in Workers : holds[w] # None <=> worker[w] \in {"limit", "work"}
      /\ \A w \in Workers : worker[w] = "work" => holds[w] # m
  <2>1. \A w \in Workers : worker[w] = "work" => attempts[holds[w]] > 0
    BY DEF DropInv
  <2> QED BY <2>1 DEF TypeOK, PoolType
<1>1. ASSUME UNCHANGED <<jobCh, holds>> PROVE InHand(m)'
  BY <1>1
<1>2. CASE Enqueue
  <2>1. cur \in Jobs
    BY <1>2 DEF Enqueue, TypeOK, ClientType
  <2>2. Range(jobCh') = Range(jobCh) \cup {cur}
    BY <1>2, <1>t, <2>1, RangeAppend DEF Enqueue
  <2> QED
    BY <1>2, <2>2 DEF Enqueue
<1>3. ASSUME NEW w \in Workers, Receive(w) PROVE InHand(m)'
  <2>1. Range(jobCh) = Range(Tail(jobCh)) \cup {Head(jobCh)}
    BY <1>3, <1>t, RangeTail DEF Receive
  <2>2. holds[w] = None
    BY <1>3, <1>t DEF Receive
  <2> QED
    BY <1>3, <1>t, <2>1, <2>2, PoolAssumption DEF Receive
<1>4. ASSUME NEW w \in Workers, RangeEnds(w) PROVE InHand(m)'
  <2>1. holds[w] = None /\ jobCh' = jobCh /\ holds' = [holds EXCEPT ![w] = None]
    BY <1>4, <1>t DEF RangeEnds, Leave
  <2>2. holds' = holds
    BY <1>t, <2>1
  <2> QED BY <1>1, <2>1, <2>2
<1>5. ASSUME NEW w \in Workers, Finish(w) PROVE InHand(m)'
  <2>1. holds[w] # m /\ jobCh' = jobCh /\ holds' = [holds EXCEPT ![w] = None]
    BY <1>5, <1>t DEF Finish
  <2> QED BY <1>t, <2>1
<1>6. ASSUME NEW w \in Workers, WaitCancelled(w)
      PROVE  InHand(m)' \/ holds[w] = m
  <2>1. jobCh' = jobCh /\ holds' = [holds EXCEPT ![w] = None]
    BY <1>6 DEF WaitCancelled, Leave
  <2> QED BY <1>t, <2>1
<1>7. CASE Stop
  <2>1. \A w \in Workers : holds[w] = m => w \in Limited
    BY <1>t, PoolAssumption DEF Limited
  <2> QED BY <1>7, <2>1 DEF Stop
<1>8. ASSUME NEW n \in Jobs, Publish(n) \/ Deliver(n) \/ AckWaitExpire(n)
      PROVE  InHand(m)'
  BY <1>1, <1>8 DEF Publish, Deliver, AckWaitExpire
<1>9. ASSUME NEW w \in Workers, Moderate(w) PROVE InHand(m)'
  BY <1>1, <1>9 DEF Moderate
<1>10. CASE \/ Dispatch \/ Ack \/ Refuse \/ Subscribe \/ Cancel \/ Unsubscribe
            \/ CloseJobs \/ Return \/ Restart \/ UNCHANGED vars
  BY <1>1, <1>10
  DEF Dispatch, Ack, Refuse, Subscribe, Cancel, Unsubscribe, CloseJobs, Return,
      Restart, vars
<1> QED
  BY <1>2, <1>3, <1>4, <1>5, <1>6, <1>7, <1>8, <1>9, <1>10
  DEF Next, Callback, Run, Exit, Crash, SendOnClosed

\* Nobody is acked who was not to be, and what the callback acks it has handed
\* over.
LEMMA AckedNext ==
  ASSUME TypeOK, [Next]_vars, NEW m \in Lost'
  PROVE  /\ m \in Jobs /\ attempts[m] = 0
         /\ msg[m] = "acked" \/ (handler = "ack" /\ cur = m)
<1> USE DEF server, client, pool, proc, hist
<1>t. /\ attempts \in [Jobs -> Nat] /\ jobCh \in Seq(Jobs)
      /\ msg \in [Jobs -> {"unpublished", "stored", "outstanding", "due",
                           "acked", "exhausted"}]
      /\ cur \in Jobs \cup {None} /\ (cur = None <=> handler = "none")
      /\ holds \in [Workers -> Jobs \cup {None}]
  BY DEF TypeOK, ServerType, ClientType, PoolType, HistType
<1>1. /\ m \in Jobs /\ attempts'[m] = 0 /\ ~InHand(m)'
      /\ msg'[m] = "acked" \/ (handler' = "ack" /\ cur' = m)
  BY DEF Lost
<1>2. attempts[m] = 0
  <2>1. ASSUME NEW w \in Workers, Moderate(w) PROVE attempts[m] = 0
    <3>1. attempts' = [attempts EXCEPT ![holds[w]] = @ + 1]
      BY <2>1 DEF Moderate
    <3> QED BY <1>t, <1>1, <3>1
  <2>2. CASE UNCHANGED attempts
    BY <1>1, <2>2
  <2> QED
    BY <2>1, <2>2
    DEF Next, Callback, Run, Publish, Deliver, AckWaitExpire, Dispatch, Enqueue,
        Ack, Refuse, Receive, RangeEnds, WaitCancelled, Finish, Subscribe, Cancel,
        Unsubscribe, CloseJobs, Return, Exit, Crash, SendOnClosed, Stop, Restart, vars
<1>3. ASSUME msg'[m] = "acked"
      PROVE  msg[m] = "acked" \/ (handler = "ack" /\ cur = m)
  BY <1>1, <1>3, <1>t
  DEF Next, Callback, Run, Publish, Deliver, AckWaitExpire, Retry, Dispatch,
      Enqueue, Ack, Refuse, Receive, RangeEnds, Moderate, WaitCancelled, Finish,
      Subscribe, Cancel, Unsubscribe, CloseJobs, Return, Exit, Crash,
      SendOnClosed, Stop, Restart, vars
<1>4. ASSUME handler' = "ack", cur' = m PROVE handler = "ack" /\ cur = m
  <2>1. CASE Enqueue
    <3>1. cur \in Jobs /\ cur' = cur /\ jobCh' = Append(jobCh, cur)
      BY <1>t, <2>1 DEF Enqueue
    <3>2. m \in Range(jobCh')
      BY <1>4, <1>t, <3>1, RangeAppend
    <3> QED BY <1>1, <3>2 DEF InHand
  <2>2. CASE Dispatch \/ Ack \/ Refuse \/ Exit \/ Crash \/ SendOnClosed
    BY <1>4, <2>2 DEF Dispatch, Ack, Refuse, Exit, Crash, SendOnClosed, Stop, Boot
  <2>3. CASE UNCHANGED <<cur, handler>>
    BY <1>4, <2>3
  <2> QED
    BY <2>1, <2>2, <2>3
    DEF Next, Callback, Run, Publish, Deliver, AckWaitExpire, Receive, RangeEnds,
        Moderate, WaitCancelled, Finish, Subscribe, Cancel, Unsubscribe,
        CloseJobs, Return, Restart, vars
<1> QED BY <1>1, <1>2, <1>3, <1>4

LEMMA LostNext ==
  ASSUME TypeOK, DropInv, [Next]_vars, NEW m \in Lost'
  PROVE  \/ m \in Lost
         \/ \E w \in Workers : WaitCancelled(w) /\ holds[w] = m
         \/ Stop /\ Up /\ (m \in Range(jobCh) \/ \E w \in Limited : holds[w] = m)
<1>1. /\ m \in Jobs /\ attempts[m] = 0
      /\ msg[m] = "acked" \/ (handler = "ack" /\ cur = m)
  BY AckedNext
<1>2. ~InHand(m)'
  BY DEF Lost
<1>3. CASE InHand(m)
  BY <1>1, <1>2, <1>3, HandKept
<1>4. CASE ~InHand(m)
  BY <1>1, <1>4 DEF Lost
<1> QED BY <1>3, <1>4

LEMMA LossStep == TypeOK /\ DropInv /\ LossInv /\ [Next]_vars => LossInv'
<1> SUFFICES ASSUME TypeOK, DropInv, LossInv, [Next]_vars PROVE LossInv'
    OBVIOUS
<1> USE DEF server, client, pool, proc, hist
<1>t. /\ worker \in [Workers -> {"idle", "limit", "work", "exited"}]
      /\ jobCh \in Seq(Jobs) /\ Len(jobCh) \in Nat /\ Len(jobCh) <= Capacity
      /\ Capacity \in Nat /\ runs \in Nat
    BY PoolAssumption DEF TypeOK, PoolType, ProcType
<1>c. /\ IsFiniteSet(Exited) /\ Cardinality(Exited) \in Nat
      /\ IsFiniteSet(Limited) /\ Cardinality(Limited) \in Nat
      /\ Cardinality(Workers) \in Nat
      /\ Cardinality(Exited) + Cardinality(Limited) <= Cardinality(Workers)
      /\ PerRun \in Nat /\ Ended * PerRun \in Nat
      /\ (Ended + 1) * PerRun = Ended * PerRun + PerRun
    BY WorkersCounted
<1>l. /\ IsFiniteSet(Lost) /\ Cardinality(Lost) \in Nat
      /\ Cardinality(Lost) <= Cardinality(Exited) + Ended * PerRun
    BY FS_CardinalityType DEF LossInv
<1>p. PerRun' = PerRun
    BY DEF PerRun
<1>1. ASSUME NEW w \in Workers, WaitCancelled(w) PROVE LossInv'
  <2>1. /\ worker[w] = "limit" /\ worker' = [worker EXCEPT ![w] = "exited"]
        /\ UNCHANGED <<start, runs>>
    BY <1>1 DEF WaitCancelled, Leave
  <2>2. \A v \in Workers : WaitCancelled(v) => v = w
    BY <1>t, <2>1 DEF WaitCancelled, Leave
  <2>3. ~Stop
    BY <1>t, <2>1 DEF Stop, Boot
  <2>4. Lost' \in SUBSET (Lost \cup {holds[w]})
    BY <2>2, <2>3, LostNext
  <2>5. IsFiniteSet({holds[w]}) /\ Cardinality({holds[w]}) = 1
    BY FS_Singleton
  <2>6. /\ IsFiniteSet(Lost') /\ Cardinality(Lost') \in Nat
        /\ Cardinality(Lost') <= Cardinality(Lost) + 1
    <3> HIDE DEF Lost
    <3> QED BY <1>l, <2>4, <2>5, PartsSize
  <2>7. Exited' = Exited \cup {w} /\ w \notin Exited
    BY <1>t, <2>1 DEF Exited
  <2>8. Cardinality(Exited') = Cardinality(Exited) + 1
    BY <1>c, <2>7, FS_AddElement
  <2>9. Ended' = Ended
    BY <2>1 DEF Ended, Up
  <2> QED
    BY <1>c, <1>l, <1>p, <2>6, <2>8, <2>9 DEF LossInv
<1>2. CASE Stop
  <2>1. /\ Up /\ ~Up' /\ runs' = runs /\ worker' = [w \in Workers |-> "idle"]
    BY <1>2 DEF Stop, Boot, Up
  <2>2. \A v \in Workers : ~WaitCancelled(v)
    BY <1>2 DEF Stop, Boot, WaitCancelled, Leave
  <2> DEFINE held == [w \in Limited |-> holds[w]]
  <2>3. \A w \in Limited : holds[w] \in Range(held)
    BY DEF Range
  <2>4. Lost' \in SUBSET (Lost \cup (Range(jobCh) \cup Range(held)))
    BY <2>2, <2>3, LostNext, Zenon
  <2>5. held \in [Limited -> Range(held)]
    BY <2>3
  <2>6. /\ IsFiniteSet(Range(held)) /\ Cardinality(Range(held)) \in Nat
        /\ Cardinality(Range(held)) <= Cardinality(Limited)
    <3> HIDE DEF held
    <3> QED BY <1>c, <2>5, ImageSize
  <2>7. /\ IsFiniteSet(Range(jobCh)) /\ Cardinality(Range(jobCh)) \in Nat
        /\ Cardinality(Range(jobCh)) <= Len(jobCh)
    BY <1>t, RangeSize
  <2> HIDE DEF held
  <2>8. /\ IsFiniteSet(Range(jobCh) \cup Range(held))
        /\ Cardinality(Range(jobCh) \cup Range(held)) \in Nat
        /\ Cardinality(Range(jobCh) \cup Range(held))
             <= Cardinality(Range(jobCh)) + Cardinality(Range(held))
    BY <2>6, <2>7, PartsSize
  <2>9. /\ IsFiniteSet(Lost') /\ Cardinality(Lost') \in Nat
        /\ Cardinality(Lost') <=
             Cardinality(Lost) + Cardinality(Range(jobCh) \cup Range(held))
    BY <1>l, <2>4, <2>8, PartsSize
  <2>10. Exited' = {}
    BY <2>1 DEF Exited
  <2>11. Cardinality(Exited') = 0
    BY <2>10, FS_EmptySet
  <2>12. Ended' = Ended + 1
    BY <1>t, <2>1 DEF Ended
  <2>13. Cardinality(Lost') <= Ended' * PerRun
    <3>1. Cardinality(Lost') <= Ended * PerRun + PerRun
      <4> DEFINE before == Ended * PerRun
      <4>1. PerRun = Capacity + Cardinality(Workers)
        BY DEF PerRun
      <4>2. Cardinality(Lost) <= Cardinality(Exited) + before /\ before \in Nat
        BY <1>c, <1>l
      <4> HIDE DEF before
      <4>3. /\ Cardinality(Exited) + Cardinality(Limited) <= Cardinality(Workers)
            /\ Cardinality(Exited) \in Nat /\ Cardinality(Limited) \in Nat
            /\ Cardinality(Workers) \in Nat /\ Cardinality(Lost) \in Nat
        BY <1>c, <1>l
      <4>4. Cardinality(Lost') <= Cardinality(Lost) + Capacity + Cardinality(Limited)
        BY <1>t, <2>6, <2>7, <2>8, <2>9, <4>3
      <4>5. Cardinality(Lost') <= before + PerRun
        BY <1>t, <2>9, <4>1, <4>2, <4>3, <4>4
      <4> QED BY <4>5 DEF before
    <3> QED BY <1>c, <2>12, <3>1
  <2>14. Ended' * PerRun \in Nat
    BY <1>c, <2>12
  <2> QED
    BY <1>p, <2>9, <2>11, <2>13, <2>14 DEF LossInv
<1>3. ASSUME ~Stop, \A v \in Workers : ~WaitCancelled(v) PROVE LossInv'
  <2>1. Lost' \in SUBSET Lost
    BY <1>3, LostNext
  <2>2. /\ IsFiniteSet(Lost') /\ Cardinality(Lost') \in Nat
        /\ Cardinality(Lost') <= Cardinality(Lost)
    BY <1>l, <2>1, FS_Subset, FS_CardinalityType
  <2>3. Exited \in SUBSET Exited' /\ Exited' \in SUBSET Workers
    BY <1>3, <1>t
    DEF Exited, Next, Callback, Run, Publish, Deliver, AckWaitExpire, Dispatch,
        Enqueue, Ack, Refuse, Receive, RangeEnds, Leave, Moderate, Finish,
        Subscribe, Cancel, Unsubscribe, CloseJobs, Return, Exit, Crash,
        SendOnClosed, Restart, vars
  <2>4. Cardinality(Exited) <= Cardinality(Exited') /\ Cardinality(Exited') \in Nat
    BY <2>3, PoolAssumption, FS_Subset, FS_CardinalityType
  <2>5. Ended' = Ended
    BY <1>3, <1>t
    DEF Ended, Up, Next, Callback, Run, Publish, Deliver, AckWaitExpire, Dispatch,
        Enqueue, Ack, Refuse, Receive, RangeEnds, Moderate, WaitCancelled, Finish,
        Subscribe, Cancel, Unsubscribe, CloseJobs, Return, Exit, Crash,
        SendOnClosed, Restart, vars
  <2> QED
    BY <1>c, <1>l, <1>p, <2>2, <2>4, <2>5 DEF LossInv
<1> QED
    BY <1>1, <1>2, <1>3

\* The jobs that were acked and that no worker has begun.
Unattempted == {m \in Jobs : msg[m] = "acked" /\ attempts[m] = 0}

LossBounded ==
  IsFiniteSet(Unattempted) /\ Cardinality(Unattempted) <= runs * PerRun

LEMMA LossSuffices == TypeOK /\ DropInv /\ DownInv /\ LossInv => LossBounded
<1> SUFFICES ASSUME TypeOK, DropInv, DownInv, LossInv PROVE LossBounded
    OBVIOUS
<1> DEFINE held == [w \in Limited |-> holds[w]]
           inHand == Range(jobCh) \cup Range(held)
<1>t. /\ jobCh \in Seq(Jobs) /\ Len(jobCh) \in Nat /\ Len(jobCh) <= Capacity
      /\ Capacity \in Nat /\ runs \in Nat /\ runs > 0
      /\ holds \in [Workers -> Jobs \cup {None}]
      /\ \A w \in Workers : holds[w] # None <=> worker[w] \in {"limit", "work"}
      /\ \A w \in Workers : worker[w] = "work" => attempts[holds[w]] > 0
    BY PoolAssumption DEF TypeOK, PoolType, ProcType, DropInv
<1>c. /\ IsFiniteSet(Exited) /\ Cardinality(Exited) \in Nat
      /\ IsFiniteSet(Limited) /\ Cardinality(Limited) \in Nat
      /\ Cardinality(Workers) \in Nat
      /\ Cardinality(Exited) + Cardinality(Limited) <= Cardinality(Workers)
      /\ PerRun \in Nat /\ Ended \in Nat /\ Ended * PerRun \in Nat
      /\ (Ended + 1) * PerRun = Ended * PerRun + PerRun
    BY WorkersCounted
<1>l. /\ IsFiniteSet(Lost) /\ Cardinality(Lost) \in Nat
      /\ Cardinality(Lost) <= Cardinality(Exited) + Ended * PerRun
    BY FS_CardinalityType DEF LossInv
<1>1. \A w \in Limited : holds[w] \in Range(held)
    BY DEF Range
<1>2. held \in [Limited -> Range(held)]
    BY <1>1
<1>3. Unattempted \in SUBSET (Lost \cup inHand)
  <2> SUFFICES ASSUME NEW m \in Unattempted, m \notin Lost PROVE m \in inHand
      OBVIOUS
  <2>1. m \in Jobs /\ attempts[m] = 0 /\ InHand(m)
      BY DEF Unattempted, Lost
  <2>2. ASSUME NEW w \in Workers, holds[w] = m PROVE w \in Limited
      BY <1>t, <2>1, <2>2, PoolAssumption DEF Limited
  <2> QED
      BY <1>1, <2>1, <2>2 DEF InHand
<1> HIDE DEF held
<1>4. /\ IsFiniteSet(Range(held)) /\ Cardinality(Range(held)) \in Nat
      /\ Cardinality(Range(held)) <= Cardinality(Limited)
    BY <1>c, <1>2, ImageSize
<1>5. /\ IsFiniteSet(Range(jobCh)) /\ Cardinality(Range(jobCh)) \in Nat
      /\ Cardinality(Range(jobCh)) <= Len(jobCh)
    BY <1>t, RangeSize
<1>6. /\ IsFiniteSet(inHand) /\ Cardinality(inHand) \in Nat
      /\ Cardinality(inHand) <= Cardinality(Range(jobCh)) + Cardinality(Range(held))
    BY <1>4, <1>5, PartsSize
<1> HIDE DEF inHand
<1>7. /\ IsFiniteSet(Unattempted) /\ Cardinality(Unattempted) \in Nat
      /\ Cardinality(Unattempted) <= Cardinality(Lost) + Cardinality(inHand)
    BY <1>l, <1>3, <1>6, PartsSize
<1>8. CASE Up
  <2>1. Ended + 1 = runs
    BY <1>8, <1>t DEF Ended
  <2>2. Cardinality(Unattempted) <= Ended * PerRun + PerRun
    <3> DEFINE before == Ended * PerRun
    <3>1. PerRun = Capacity + Cardinality(Workers)
      BY DEF PerRun
    <3>2. Cardinality(Lost) <= Cardinality(Exited) + before /\ before \in Nat
      BY <1>c, <1>l
    <3> HIDE DEF before
    <3>3. /\ Cardinality(Exited) + Cardinality(Limited) <= Cardinality(Workers)
          /\ Cardinality(Exited) \in Nat /\ Cardinality(Limited) \in Nat
          /\ Cardinality(Workers) \in Nat /\ Cardinality(Lost) \in Nat
      BY <1>c, <1>l
    <3>4. Cardinality(Unattempted) <= Cardinality(Lost) + Capacity + Cardinality(Limited)
      BY <1>t, <1>4, <1>5, <1>6, <1>7, <3>3
    <3>5. Cardinality(Unattempted) <= before + PerRun
      BY <1>t, <1>7, <3>1, <3>2, <3>3, <3>4
    <3> QED BY <3>5 DEF before
  <2> QED
    BY <1>c, <1>7, <2>1, <2>2 DEF LossBounded
<1>9. CASE ~Up
  <2>1. Exited = {} /\ Limited = {} /\ Len(jobCh) = 0
    BY <1>9 DEF DownInv, Exited, Limited
  <2>2. Cardinality(Exited) = 0 /\ Cardinality(Limited) = 0
    BY <2>1, FS_EmptySet
  <2>3. Ended = runs
    BY <1>9 DEF Ended
  <2> HIDE DEF LossInv
  <2> QED
    BY <1>t, <1>c, <1>l, <1>4, <1>5, <1>6, <1>7, <2>1, <2>2, <2>3 DEF LossBounded
<1> QED
    BY <1>8, <1>9

\* A job that was acked when it was put in jobCh (pool.go:74-75, broker.go:276)
\* may never be moderated: shutdowns and crashes lose what the channel and the
\* workers hold.  That is all they lose: a full channel and a job per worker for
\* each run of the process.
THEOREM PoolLossBounded == Spec => []LossBounded
<1>1. Init => DropInv /\ DownInv
    BY DEF Init, DropInv, NothingDropped, DownInv, Up
<1> QED
    BY TypeInit, TypeStep, PoolWorkersStay, DropStep, DownStep, LossInit, LossStep,
       LossSuffices, <1>1, PTL DEF Spec

-----------------------------------------------------------------------------
(* A shutdown comes to an end                                              *)

\* What the workers have yet to do once the channel is closed: a job in it is
\* received and waited for, a worker's wait ends, its moderation ends, it leaves.
Remaining ==
  3 * Len(jobCh) + Cardinality({w \in Workers : worker[w] # "exited"})
    + Cardinality({w \in Workers : worker[w] \in {"limit", "work"}})
    + Cardinality({w \in Workers : worker[w] = "limit"})

\* A step of a worker brings the shutdown closer, and nothing puts it off.
Drains ==
  closed => \/ start' = "down"
            \/ /\ closed'
               /\ IF \E w \in Workers : Run(w) THEN Remaining' < Remaining
                  ELSE Remaining' = Remaining

In(P) == {w \in Workers : worker[w] \in P}

\* How many workers are in P, when one of them moves.
LEMMA WorkerMoves ==
  ASSUME NEW P, NEW w \in Workers,
         \A v \in Workers : v # w => worker'[v] = worker[v]
  PROVE  /\ Cardinality(In(P)) \in Nat /\ Cardinality(In(P)') \in Nat
         /\ Cardinality(In(P)') = Cardinality(In(P))
              + (IF worker'[w] \in P THEN 1 ELSE 0) - (IF worker[w] \in P THEN 1 ELSE 0)
<1> DEFINE S == {v \in Workers : worker[v] \in P}
           T == {v \in Workers : worker'[v] \in P}
<1>1. IsFiniteSet(S)
  BY PoolAssumption, FS_Subset
<1>2. \A y : y # w => (y \in S <=> y \in T)
  OBVIOUS
<1>3. (w \in S <=> worker[w] \in P) /\ (w \in T <=> worker'[w] \in P)
  OBVIOUS
<1>4. In(P) = S /\ In(P)' = T
  BY DEF In
<1> HIDE DEF S, T
<1>5. ASSUME NEW A, NEW B, IsFiniteSet(A), \A y : y # w => (y \in A <=> y \in B)
      PROVE  /\ Cardinality(A) \in Nat /\ Cardinality(B) \in Nat
             /\ Cardinality(B) = Cardinality(A) + (IF w \in B \ A THEN 1 ELSE 0)
                                               - (IF w \in A \ B THEN 1 ELSE 0)
  BY <1>5, OneMoves
<1>6. /\ Cardinality(S) \in Nat /\ Cardinality(T) \in Nat
      /\ Cardinality(T) = Cardinality(S) + (IF w \in T \ S THEN 1 ELSE 0)
                                        - (IF w \in S \ T THEN 1 ELSE 0)
  BY <1>1, <1>2, <1>5, Zenon
<1> QED BY <1>3, <1>4, <1>6

Left(l) == (IF l \in {"idle", "limit", "work"} THEN 1 ELSE 0)
             + (IF l \in {"limit", "work"} THEN 1 ELSE 0) + (IF l = "limit" THEN 1 ELSE 0)

LEMMA RemainingMoves ==
  ASSUME TypeOK, NEW w \in Workers, jobCh' \in Seq(Jobs),
         \A v \in Workers : v # w => worker'[v] = worker[v],
         worker' \in [Workers -> {"idle", "limit", "work", "exited"}]
  PROVE  /\ Remaining \in Nat /\ Remaining' \in Nat
         /\ Remaining' - Remaining
              = 3 * Len(jobCh') - 3 * Len(jobCh) + Left(worker'[w]) - Left(worker[w])
<1> DEFINE i == Cardinality(In({"idle", "limit", "work"}))
           h == Cardinality(In({"limit", "work"}))
           l == Cardinality(In({"limit"}))
           Ind(b) == IF b THEN 1 ELSE 0
<1>t. worker \in [Workers -> {"idle", "limit", "work", "exited"}] /\ jobCh \in Seq(Jobs)
  BY DEF TypeOK, PoolType
<1>1. /\ i \in Nat /\ i' \in Nat
      /\ i' = i + Ind(worker'[w] \in {"idle", "limit", "work"})
                - Ind(worker[w] \in {"idle", "limit", "work"})
  BY WorkerMoves, Zenon
<1>2. /\ h \in Nat /\ h' \in Nat
      /\ h' = h + Ind(worker'[w] \in {"limit", "work"}) - Ind(worker[w] \in {"limit", "work"})
  BY WorkerMoves, Zenon
<1>3. /\ l \in Nat /\ l' \in Nat
      /\ l' = l + Ind(worker'[w] \in {"limit"}) - Ind(worker[w] \in {"limit"})
  BY WorkerMoves, Zenon
<1>4. Remaining = 3 * Len(jobCh) + i + h + l
  <2>1. /\ {v \in Workers : worker[v] # "exited"} = In({"idle", "limit", "work"})
        /\ {v \in Workers : worker[v] \in {"limit", "work"}} = In({"limit", "work"})
        /\ {v \in Workers : worker[v] = "limit"} = In({"limit"})
    BY <1>t DEF In
  <2> QED BY <2>1, Zenon DEF Remaining
<1>5. Remaining' = 3 * Len(jobCh') + i' + h' + l'
  <2>1. /\ {v \in Workers : worker'[v] # "exited"} = In({"idle", "limit", "work"})'
        /\ {v \in Workers : worker'[v] \in {"limit", "work"}} = In({"limit", "work"})'
        /\ {v \in Workers : worker'[v] = "limit"} = In({"limit"})'
    BY DEF In
  <2> QED BY <2>1, Zenon DEF Remaining
<1> HIDE DEF i, h, l
<1>6. Len(jobCh) \in Nat /\ Len(jobCh') \in Nat
  BY <1>t
<1> QED BY <1>1, <1>2, <1>3, <1>4, <1>5, <1>6 DEF Left

LEMMA DrainStep == TypeOK /\ WorkersStay /\ DownInv /\ [Next]_vars => Drains
<1> SUFFICES ASSUME TypeOK, WorkersStay, DownInv, [Next]_vars, closed, start' # "down"
             PROVE  /\ closed'
                    /\ IF \E w \in Workers : Run(w) THEN Remaining' < Remaining
                       ELSE Remaining' = Remaining
  BY DEF Drains
<1> USE DEF server, client, pool, proc, hist
<1>t. /\ jobCh \in Seq(Jobs)
      /\ worker \in [Workers -> {"idle", "limit", "work", "exited"}]
  BY DEF TypeOK, PoolType
<1>u. Up
  BY DEF DownInv
<1>1. ASSUME NEW w \in Workers, Run(w) PROVE closed' /\ Remaining' < Remaining
  <2>1. /\ closed' = closed /\ \A v \in Workers : v # w => worker'[v] = worker[v]
        /\ worker' \in [Workers -> {"idle", "limit", "work", "exited"}]
    BY <1>1, <1>t DEF Run, Receive, RangeEnds, Leave, Moderate, WaitCancelled, Finish
  <2>2. \/ /\ jobCh # << >> /\ jobCh' = Tail(jobCh)
           /\ worker[w] = "idle" /\ worker'[w] = "limit"
        \/ /\ jobCh' = jobCh
           /\ \/ worker[w] = "idle" /\ worker'[w] = "exited"
              \/ worker[w] = "limit" /\ worker'[w] \in {"work", "exited"}
              \/ worker[w] = "work" /\ worker'[w] = "idle"
    BY <1>1, <1>t DEF Run, Receive, RangeEnds, Leave, Moderate, WaitCancelled, Finish
  <2>3. /\ jobCh' \in Seq(Jobs) /\ Len(jobCh') \in Nat /\ Len(jobCh) \in Nat
        /\ jobCh' = jobCh \/ Len(jobCh') = Len(jobCh) - 1
    BY <1>t, <2>2
  <2>4. /\ Remaining \in Nat /\ Remaining' \in Nat
        /\ Remaining' - Remaining
             = 3 * Len(jobCh') - 3 * Len(jobCh) + Left(worker'[w]) - Left(worker[w])
    BY <2>1, <2>3, RemainingMoves
  <2>5. CASE worker[w] = "idle" /\ worker'[w] = "limit"
    <3>1. Left(worker'[w]) = 3 /\ Left(worker[w]) = 1
      BY <2>5 DEF Left
    <3>2. Len(jobCh') = Len(jobCh) - 1
      BY <1>t, <2>2, <2>5
    <3> QED BY <2>1, <2>3, <2>4, <3>1, <3>2
  <2>6. CASE ~(worker[w] = "idle" /\ worker'[w] = "limit")
    <3>1. jobCh' = jobCh /\ Left(worker'[w]) \in Int /\ Left(worker[w]) \in Int
          /\ Left(worker'[w]) < Left(worker[w])
      BY <2>2, <2>6 DEF Left
    <3> QED BY <2>1, <2>3, <2>4, <3>1
  <2> QED BY <2>5, <2>6
<1>2. ASSUME UNCHANGED <<jobCh, closed, worker>>
      PROVE  closed' /\ Remaining' = Remaining
  BY <1>2 DEF Remaining
<1>3. CASE \/ \E m \in Jobs : Publish(m) \/ Deliver(m) \/ AckWaitExpire(m)
           \/ Callback \/ Subscribe \/ Cancel \/ Unsubscribe \/ Return \/ Restart
           \/ UNCHANGED vars
  <2>1. UNCHANGED <<jobCh, closed, worker>>
    BY <1>3, <1>u
    DEF Publish, Deliver, AckWaitExpire, Callback, Dispatch, Enqueue, Ack, Refuse,
        Subscribe, Cancel, Unsubscribe, Return, Restart, vars
  <2> QED BY <1>1, <1>2, <2>1
<1>4. CASE CloseJobs
  <2>1. UNCHANGED <<jobCh, worker>> /\ closed'
    BY <1>4 DEF CloseJobs
  <2>2. Remaining' = Remaining
    BY <2>1 DEF Remaining
  <2> QED BY <1>1, <2>1, <2>2
<1> QED
  BY <1>1, <1>3, <1>4 DEF Next, Exit, Crash, SendOnClosed, Stop

\* Once Start has closed jobCh (pool.go:87) every step of a worker brings it
\* closer to p.wg.Wait()'s return, and no delivery, callback or other step puts
\* it off: the pool shuts down after a bounded number of worker steps.
THEOREM PoolShutdownDrains == Spec => [][Drains]_vars
<1>1. Init => DownInv
    BY DEF Init, DownInv, Up
<1> QED
    BY TypeInit, TypeStep, PoolWorkersStay, DownStep, DrainStep, <1>1, PTL DEF Spec

\* Only a shutdown panics (pool.go:75, :87): the callback's send on the closed
\* channel needs a pool whose context is done.
THEOREM PoolPanicsInShutdown == Spec => [][panicked' # panicked => ctx = "done"]_vars
<1>1. WorkersStay /\ TypeOK /\ [Next]_vars => (panicked' # panicked => ctx = "done")
    BY DEF WorkersStay, TypeOK, ProcType, server, client, pool, proc, hist, Next, Callback,
       Run, Publish, Deliver, AckWaitExpire, Dispatch, Enqueue, Ack, Refuse, Receive,
       RangeEnds, Moderate, WaitCancelled, Finish, Subscribe, Cancel, Unsubscribe,
       CloseJobs, Return, Exit, Crash, SendOnClosed, Stop, Restart, vars
<1> QED
    BY PoolTypeCorrect, PoolWorkersStay, <1>1, PTL DEF Spec
=============================================================================
