-------------------------- MODULE ModerationService -------------------------
(***************************************************************************)
(* internal/service: ContentService.CreateContent and DeleteContent, and   *)
(* the two halves of moderation, ModerateContent and                       *)
(* HandleModerationResult, run by concurrent callers.  A worker of the     *)
(* pool (worker.processJob) runs both halves under a deadline; a gRPC      *)
(* stream (ModerationServer.ModerateContent) runs the first half only and  *)
(* has no deadline.                                                        *)
(*                                                                         *)
(* A step is one call to Postgres, Redis, NATS or the AI server, so that   *)
(* the callers interleave exactly where the code waits.  A call fails      *)
(* without effect when its context is done, and, when Faults holds, at any *)
(* time; a write whose context ends before the reply takes effect and      *)
(* reports an error.  Two calls have no step of their own: the publish to  *)
(* a stream without a subscriber (:93), which changes nothing of what is   *)
(* modelled, is part of CacheResult, and the read of a content that is not *)
(* pending (:41-47) changes nothing at all.                                *)
(***************************************************************************)
EXTENDS Naturals, Sequences

CONSTANTS
  Contents,      \* content ids
  Workers,       \* pool workers: callers with a deadline (JobTimeout)
  Streams,       \* gRPC streams: callers without one
  Nobody,        \* no caller, no content
  MaxCalls,      \* bound: calls of ModerateContent that find pending content
  Faults,        \* may a remote call fail, may the process crash?
  StorableID     \* does moderation_id (a UUID column) accept the AI's ids?

ASSUME CallersAssumption ==
  /\ Workers \cap Streams = {}
  /\ Nobody \notin Workers \cup Streams \cup Contents
  /\ MaxCalls \in Nat
  /\ Faults \in BOOLEAN
  /\ StorableID \in BOOLEAN

VARIABLES
  rows,          \* Postgres: status and moderation_id of every content
  job,           \* what became of the content's moderation.job message
  lock,          \* Redis: the idempotency key; its value tells nothing of the
                 \* holder, which is recorded here for the properties alone
  cache,         \* Redis: the cached result, an index of answers, 0 if none
  notifications, \* NATS: the notification.send stream
  pc,            \* the call each caller makes next
  on,            \* the content its ModerateContent is about
  res,           \* its result, an index of answers, 0 if nil
  live,          \* its context is not done
  calls,         \* counted against MaxCalls
  answers,       \* history: the AI's answers
  written,       \* history: the answers put in a row
  overrun        \* history: the key expired under a live holder

store  == <<rows, job, lock, cache, notifications>>
caller == <<pc, on, res, live, calls>>
hist   == <<answers, written, overrun>>
vars   == <<store, caller, hist>>

Callers == Workers \cup Streams

Contract == INSTANCE ModerationContract WITH
  Contents <- Contents,
  rows <- rows, answers <- answers, written <- written,
  notifications <- notifications

Decided == Contract!Decided
Stored  == Contract!Stored
Verdict(i) == Contract!Verdict(i)

\* Between a successful SetIfNotExists and the deferred Invalidate.
Critical == {"infer", "cache", "release"}
InCritical(p, c) == pc[p] \in Critical /\ on[p] = c

PCs == {"idle", "acquire", "update", "reread", "notify"} \cup Critical

-----------------------------------------------------------------------------
Init ==
  /\ rows = [c \in Contents |-> [status |-> "unsaved", moderationID |-> 0]]
  /\ job = [c \in Contents |-> "none"]
  /\ lock = [c \in Contents |-> Nobody]
  /\ cache = [c \in Contents |-> 0]
  /\ notifications = << >>
  /\ pc = [p \in Callers |-> "idle"]
  /\ on = [p \in Callers |-> Nobody]
  /\ res = [p \in Callers |-> 0]
  /\ live = [p \in Callers |-> FALSE]
  /\ calls = 0
  /\ answers = << >>
  /\ written = {}
  /\ overrun = [c \in Contents |-> FALSE]

Goto(p, l) == pc' = [pc EXCEPT ![p] = l] /\ UNCHANGED <<on, res, live, calls>>

Return(p) ==
  /\ pc' = [pc EXCEPT ![p] = "idle"]
  /\ on' = [on EXCEPT ![p] = Nobody]
  /\ res' = [res EXCEPT ![p] = 0]
  /\ live' = [live EXCEPT ![p] = FALSE]
  /\ UNCHANGED calls

\* A remote call of p reports an error.
MayFail(p) == ~live[p] \/ Faults

-----------------------------------------------------------------------------
(* ContentService                                                          *)

\* CreateContent, repo.Save: the row is pending, its job not yet published.
Save(c) ==
  /\ rows[c].status = "unsaved"
  /\ rows' = [rows EXCEPT ![c].status = "pending"]
  /\ job' = [job EXCEPT ![c] = "due"]
  /\ UNCHANGED <<lock, cache, notifications, caller, hist>>

\* CreateContent, PublishModerationJob: an error is only logged.
PublishJob(c) ==
  /\ job[c] = "due"
  /\ \/ job' = [job EXCEPT ![c] = "sent"]
     \/ Faults /\ job' = [job EXCEPT ![c] = "lost"]
  /\ UNCHANGED <<rows, lock, cache, notifications, caller, hist>>

DeleteContent(c) ==
  /\ rows[c].status \in Stored
  /\ rows' = [rows EXCEPT ![c].status = "deleted"]
  /\ UNCHANGED <<job, lock, cache, notifications, caller, hist>>

-----------------------------------------------------------------------------
(* ModerationService.ModerateContent                                       *)

BeginUnchecked(p, c) ==
  /\ pc[p] = "idle" /\ calls < MaxCalls
  /\ p \in Workers => job[c] = "sent"
  /\ rows[c].status \in Stored
  /\ pc' = [pc EXCEPT ![p] = "acquire"]
  /\ on' = [on EXCEPT ![p] = c]
  /\ live' = [live EXCEPT ![p] = TRUE]
  /\ calls' = calls + 1
  /\ UNCHANGED <<store, hist, res>>

\* repo.FindByID finds the content pending.  A worker needs the content's job,
\* delivered once or more; a stream names any content.  (A content that is
\* missing or decided, or a failed query, ends the call with nothing changed.)
Begin(p, c) ==
  /\ pc[p] = "idle" /\ calls < MaxCalls
  /\ p \in Workers => job[c] = "sent"
  /\ rows[c].status = "pending"
  /\ pc' = [pc EXCEPT ![p] = "acquire"]
  /\ on' = [on EXCEPT ![p] = c]
  /\ live' = [live EXCEPT ![p] = TRUE]
  /\ calls' = calls + 1
  /\ UNCHANGED <<store, hist, res>>

SetKey(p) == lock' = [lock EXCEPT ![on[p]] = p]

AcquireAnyway(p) ==
  /\ pc[p] = "acquire"
  /\ SetKey(p) /\ Goto(p, "infer")
  /\ UNCHANGED <<rows, job, cache, notifications, hist>>

\* cacheStore.SetIfNotExists: the key is set, or held, or the call fails; a
\* lost reply leaves the key set with nobody to delete it.
Acquire(p) ==
  /\ pc[p] = "acquire"
  /\ \/ live[p] /\ lock[on[p]] = Nobody /\ SetKey(p) /\ Goto(p, "infer")
     \/ live[p] /\ lock[on[p]] # Nobody /\ UNCHANGED lock /\ Return(p)
     \/ MayFail(p) /\ UNCHANGED lock /\ Return(p)
     \/ live[p] /\ lock[on[p]] = Nobody /\ SetKey(p) /\ Return(p)
  /\ UNCHANGED <<rows, job, cache, notifications, hist>>

\* aiClient.ModerateText or ModerateImage answers.  Its select between the
\* answer and ctx.Done() may take the answer even when both are there.
Infer(p) ==
  /\ pc[p] = "infer"
  /\ \E b \in BOOLEAN :
       answers' = Append(answers, [content |-> on[p], approved |-> b])
  /\ res' = [res EXCEPT ![p] = Len(answers) + 1]
  /\ pc' = [pc EXCEPT ![p] = "cache"]
  /\ UNCHANGED <<store, on, live, calls, written, overrun>>

InferFailContinues(p) ==
  /\ pc[p] = "infer" /\ MayFail(p)
  /\ Goto(p, "cache")
  /\ UNCHANGED <<store, hist>>

InferFailOnFaultOnly(p) ==
  /\ pc[p] = "infer" /\ Faults /\ live[p]
  /\ Goto(p, "release")
  /\ UNCHANGED <<store, hist>>

\* aiClient fails: the result is nil and only the deferred Invalidate is left.
InferFail(p) ==
  /\ pc[p] = "infer" /\ MayFail(p)
  /\ Goto(p, "release")
  /\ UNCHANGED <<store, hist>>

\* cacheStore.SetModerationResult, whose error is only logged, and after it
\* PublishModerationResult, likewise, to a stream that has no subscriber: one
\* step for both calls, as the second changes nothing that is modelled and the
\* caller may wait before Release for any time.
CacheResult(p) ==
  /\ pc[p] = "cache"
  /\ \/ live[p] /\ cache' = [cache EXCEPT ![on[p]] = res[p]]
     \/ MayFail(p) /\ UNCHANGED cache
  /\ Goto(p, "release")
  /\ UNCHANGED <<rows, job, lock, notifications, hist>>

AfterModerate(p) ==
  IF res[p] # 0 /\ p \in Workers THEN Goto(p, "update") ELSE Return(p)

\* The deferred Invalidate deletes the key, whoever set it; with a context
\* that is done it fails and the key stays until its TTL.  ModerateContent
\* returns: a stream sends the result, a worker goes on to handle it.
Release(p) ==
  /\ pc[p] = "release"
  /\ \/ live[p] /\ lock' = [lock EXCEPT ![on[p]] = Nobody]
     \/ MayFail(p) /\ UNCHANGED lock
  /\ AfterModerate(p)
  /\ UNCHANGED <<rows, job, cache, notifications, hist>>

-----------------------------------------------------------------------------
(* ModerationService.HandleModerationResult                                *)

Upsert(p) ==
  /\ rows' = [rows EXCEPT ![on[p]] =
                [status |-> Verdict(res[p]), moderationID |-> res[p]]]
  /\ written' = written \cup {res[p]}

Written(p) == StorableID /\ rows[on[p]].status \in Stored /\ Upsert(p)

UpdateStatusUpsert(p) ==
  /\ pc[p] = "update"
  /\ live[p] /\ Upsert(p) /\ Goto(p, "reread")
  /\ UNCHANGED <<job, lock, cache, notifications, answers, overrun>>

\* repo.UpdateStatus: one UPDATE whose WHERE names the id only.  It fails when
\* no row is left or the id is not a UUID; a lost reply ends the call with the
\* verdict in the row.
UpdateStatus(p) ==
  /\ pc[p] = "update"
  /\ \/ live[p] /\ Written(p) /\ Goto(p, "reread")
     \/ live[p] /\ Written(p) /\ Return(p)
     \/ /\ MayFail(p) \/ ~StorableID \/ rows[on[p]].status \notin Stored
        /\ UNCHANGED <<rows, written>> /\ Return(p)
  /\ UNCHANGED <<job, lock, cache, notifications, answers, overrun>>

\* repo.FindByID, for the user to notify: the row may be gone by now.
Reread(p) ==
  /\ pc[p] = "reread"
  /\ \/ live[p] /\ rows[on[p]].status \in Stored /\ Goto(p, "notify")
     \/ (MayFail(p) \/ rows[on[p]].status \notin Stored) /\ Return(p)
  /\ UNCHANGED <<store, hist>>

Append1(p) == notifications' = Append(notifications,
  [content |-> on[p], type |-> Verdict(res[p]), of |-> res[p]])

PublishNotificationRetried(p) ==
  /\ pc[p] = "notify" /\ Append1(p)
  /\ Goto(p, "notify") \/ Return(p)
  /\ UNCHANGED <<rows, job, lock, cache, hist>>

\* messageBroker.PublishNotification, whose error is only logged; the message
\* may be on the stream all the same.
PublishNotification(p) ==
  /\ pc[p] = "notify"
  /\ \/ live[p] /\ Append1(p)
     \/ MayFail(p) /\ UNCHANGED notifications
  /\ Return(p)
  /\ UNCHANGED <<rows, job, lock, cache, hist>>

-----------------------------------------------------------------------------
(* The environment                                                         *)

\* JobTimeout or shutdown for a worker, the peer's cancellation for a stream.
CtxDone(p) ==
  /\ pc[p] # "idle" /\ live[p]
  /\ live' = [live EXCEPT ![p] = FALSE]
  /\ UNCHANGED <<store, pc, on, res, calls, hist>>

LockExpireNever(c) == lock[c] # Nobody /\ FALSE /\ UNCHANGED vars

\* The key's TTL of 30 seconds.  It runs from SetIfNotExists, after the start
\* of the worker's JobTimeout, also 30 seconds, so it cannot pass while the
\* worker that set the key still has a live context.
LockExpire(c) ==
  /\ lock[c] # Nobody
  /\ LET p == lock[c]  held == InCritical(p, c) /\ live[p] IN
     /\ p \in Workers => ~held
     /\ overrun' = [overrun EXCEPT ![c] = @ \/ held]
  /\ lock' = [lock EXCEPT ![c] = Nobody]
  /\ UNCHANGED <<rows, job, cache, notifications, caller, answers, written>>

\* The cached result's TTL of one hour.
CacheExpire(c) ==
  /\ cache[c] # 0
  /\ cache' = [cache EXCEPT ![c] = 0]
  /\ UNCHANGED <<rows, job, lock, notifications, caller, hist>>

\* The process stops and starts again: callers, and a publish that was due, are
\* gone; Postgres, Redis and NATS keep what they have.
Crash ==
  /\ Faults
  /\ \/ \E p \in Callers : pc[p] # "idle"
     \/ \E c \in Contents : job[c] = "due"
  /\ pc' = [p \in Callers |-> "idle"]
  /\ on' = [p \in Callers |-> Nobody]
  /\ res' = [p \in Callers |-> 0]
  /\ live' = [p \in Callers |-> FALSE]
  /\ job' = [c \in Contents |-> IF job[c] = "due" THEN "lost" ELSE job[c]]
  /\ UNCHANGED <<rows, lock, cache, notifications, calls, hist>>

Step(p) ==
  \/ \E c \in Contents : Begin(p, c)
  \/ Acquire(p) \/ Infer(p) \/ InferFail(p) \/ CacheResult(p) \/ Release(p)
  \/ UpdateStatus(p) \/ Reread(p) \/ PublishNotification(p)
  \/ CtxDone(p)

Next ==
  \/ \E p \in Callers : Step(p)
  \/ \E c \in Contents : Save(c) \/ PublishJob(c) \/ DeleteContent(c)
  \/ \E c \in Contents : LockExpire(c) \/ CacheExpire(c)
  \/ Crash

Spec == Init /\ [][Next]_vars

\* Goroutines run, a worker's deadline passes, Redis expires keys.  Nothing
\* obliges the AI server to answer, nor a peer to cancel.
Fairness ==
  /\ \A p \in Callers :
       /\ WF_vars(Acquire(p)) /\ WF_vars(~live[p] /\ InferFail(p))
       /\ WF_vars(CacheResult(p)) /\ WF_vars(Release(p))
       /\ WF_vars(UpdateStatus(p)) /\ WF_vars(Reread(p))
       /\ WF_vars(PublishNotification(p))
  /\ \A w \in Workers : WF_vars(CtxDone(w))
  /\ \A c \in Contents : WF_vars(LockExpire(c))

FairSpec == Spec /\ Fairness
-----------------------------------------------------------------------------
(* What the callers may rely on                                            *)

StoreType ==
  /\ rows \in [Contents -> [status : Contract!Statuses, moderationID : Nat]]
  /\ job \in [Contents -> {"none", "due", "sent", "lost"}]
  /\ lock \in [Contents -> Callers \cup {Nobody}]
  /\ cache \in [Contents -> 0 .. Len(answers)]
  /\ notifications \in Seq([content : Contents, type : Decided, of : Nat])

CallerType ==
  /\ pc \in [Callers -> PCs]
  /\ on \in [Callers -> Contents \cup {Nobody}]
  /\ res \in [Callers -> 0 .. Len(answers)]
  /\ live \in [Callers -> BOOLEAN]
  /\ calls \in Nat
  /\ \A p \in Callers :
       /\ pc[p] # "idle" => on[p] \in Contents
       /\ pc[p] \in {"cache", "update", "reread", "notify"} => res[p] # 0

HistType ==
  /\ answers \in Seq(Contract!Answer)
  /\ written \in SUBSET (1 .. Len(answers))
  /\ overrun \in [Contents -> BOOLEAN]

\* Every caller past SetIfNotExists is about a content, and past the AI call
\* it carries one of the AI's answers: HandleModerationResult never meets the
\* nil result that a failed AI call leaves behind.
TypeOK == StoreType /\ CallerType /\ HistType

\* The idempotency key does exclude: two callers whose contexts are alive are
\* never both between SetIfNotExists and the deferred Invalidate of one
\* content.  The exception is a content whose key once expired under a stream,
\* which has no deadline (the holder then deletes the next caller's key).
LockExclusion ==
  \A c \in Contents : \A p, q \in Callers :
    /\ ~overrun[c] /\ p # q
    /\ InCritical(p, c) /\ live[p]
    /\ InCritical(q, c)
    => ~live[q]

\* The service with its locks, deadlines, lost replies and crashes implements
\* the contract: verdicts are the AI's, written once, announced once and only
\* after they were written; a deleted content stays deleted.
ContractSpec == Contract!Spec

\* A verdict is final: a decided row changes only by deletion.  The key is
\* released before the verdict is written and the row was read before the key
\* was taken, so this needs a single writer (see the README's findings).
DecidedOnce ==
  [][\A c \in Contents :
       rows[c].status \in Decided =>
         rows'[c] = rows[c] \/ rows'[c].status = "deleted"]_vars

Told(n) ==
  LET m == notifications[n]  r == rows[m.content] IN
  /\ r.status \in Decided \cup {"deleted"}
  /\ r.status \in Decided => r.moderationID = m.of /\ r.status = m.type
  /\ \A k \in DOMAIN notifications : notifications[k].content = m.content => k = n

\* The user is told, at most once, the verdict that the row holds.
ToldTheVerdict == \A n \in DOMAIN notifications : Told(n)

\* A worker that is handed a content is free again in the end, even if the AI
\* server never answers and every call fails.
WorkerReturns == \A w \in Workers : pc[w] # "idle" ~> pc[w] = "idle"

\* No key outlives its caller for good, whatever became of the caller: the
\* content can be moderated again.
LockFreed == \A c \in Contents : lock[c] # Nobody ~> lock[c] = Nobody

\* A pending content whose moderation a live worker completed is decided: the
\* UPDATE of a live worker is refused only if the row has been deleted.
VerdictStored ==
  [][\A w \in Workers :
       pc[w] = "update" /\ pc'[w] # "update" /\ live[w] /\ ~Faults
         /\ rows[on[w]].status \in Stored
       => res[w] \in written']_vars
=============================================================================
