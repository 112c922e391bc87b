------------------------------ MODULE CacheLock -----------------------------
(***************************************************************************)
(* internal/adapter/outbound/redis/lock.go: WithCacheLock, a cache-aside   *)
(* read in which one of many callers that miss takes a lock in Redis,      *)
(* fetches, fills the cache and unlocks, while the others wait and look    *)
(* again a bounded number of times.                                        *)
(*                                                                         *)
(* A step is one call to Redis or to fetchFn.  A call to Redis fails at    *)
(* any time, and fails when the caller's context is done; SETNX and SET    *)
(* may take effect and report an error all the same.  A lock expires under *)
(* a holder that is slow: the holder is then late, and does not know it.   *)
(***************************************************************************)
EXTENDS Naturals

CONSTANTS
  Keys,                    \* cache keys
  Callers,                 \* goroutines, of one process or of several
  Nobody,                  \* no caller
  Orphan,                  \* the lock value of a call that is over
  MaxRetries               \* attempts to lock after the first one

ASSUME LockAssumption ==
  /\ Nobody \notin Callers /\ Orphan \notin Callers /\ Nobody # Orphan
  /\ MaxRetries \in Nat
  /\ Keys # {}

VARIABLES
  cached,                  \* Redis: the keys that have a value
  lock,                    \* Redis: whose value the lock key holds
  pc,                      \* the call each caller makes next
  key,                     \* the key its call is about
  attempt,                 \* its loop counter
  live,                    \* its context is not done
  late,                    \* history: its lock expired while it held it
  excused                  \* history: the key may be fetched once more

call     == <<pc, key, attempt, live>>
lockHist == <<late, excused>>
lockVars == <<cached, lock, call, lockHist>>

Critical == {"recheck", "fetch", "set", "unlock"}
Holding(p, k) == pc[p] \in Critical /\ key[p] = k

LockInit ==
  /\ cached = {}
  /\ lock = [k \in Keys |-> Nobody]
  /\ pc = [p \in Callers |-> "idle"]
  /\ key = [p \in Callers |-> CHOOSE k \in Keys : TRUE]
  /\ attempt = [p \in Callers |-> 0]
  /\ live = [p \in Callers |-> FALSE]
  /\ late = [p \in Callers |-> FALSE]
  /\ excused = [k \in Keys |-> TRUE]

Goto(p, l) ==
  /\ pc' = [pc EXCEPT ![p] = l]
  /\ UNCHANGED <<key, attempt, live>>

\* The call is over.  A lock value it leaves in Redis is nobody's.
Return(p) ==
  /\ pc' = [pc EXCEPT ![p] = "idle"]
  /\ attempt' = [attempt EXCEPT ![p] = 0]
  /\ live' = [live EXCEPT ![p] = FALSE]
  /\ UNCHANGED key

Excuse(k) == excused' = [excused EXCEPT ![k] = TRUE]

-----------------------------------------------------------------------------
(* WithCacheLock                                                           *)

\* The first lookup misses; one that fails counts as a miss.  (A hit returns.)
\* NewRedisLock draws a value for this call.
Begin(p, k) ==
  /\ pc[p] = "idle"
  /\ pc' = [pc EXCEPT ![p] = "try"]
  /\ key' = [key EXCEPT ![p] = k]
  /\ live' = [live EXCEPT ![p] = TRUE]
  /\ UNCHANGED <<cached, lock, attempt, lockHist>>

\* TryLock.  A lost reply leaves a lock that only its TTL removes.
TryLock(p) ==
  LET k == key[p] IN
  /\ pc[p] = "try"
  /\ \/ live[p] /\ lock[k] = Nobody /\ lock' = [lock EXCEPT ![k] = p] /\ Goto(p, "recheck")
     \/ live[p] /\ lock[k] # Nobody /\ UNCHANGED lock /\ Goto(p, "wait")
     \/ UNCHANGED lock /\ Return(p)
     \/ live[p] /\ lock[k] = Nobody /\ lock' = [lock EXCEPT ![k] = Orphan] /\ Return(p)
  /\ UNCHANGED <<cached, lockHist>>

RecheckSkipped(p) ==
  /\ pc[p] = "recheck"
  /\ excused' = [excused EXCEPT ![key[p]] = late[p]]
  /\ Goto(p, "fetch")
  /\ UNCHANGED <<cached, lock, late>>

\* The lookup under the lock: a hit unlocks, a miss starts fetchFn, and so does
\* a lookup that fails, whatever the cache holds.
Recheck(p) ==
  LET k == key[p] IN
  /\ pc[p] = "recheck"
  /\ \/ live[p] /\ k \in cached /\ Goto(p, "unlock") /\ UNCHANGED excused
     \/ /\ live[p] /\ k \notin cached /\ Goto(p, "fetch")
        /\ excused' = [excused EXCEPT ![k] = late[p]]
     \/ Goto(p, "fetch") /\ Excuse(k)
  /\ UNCHANGED <<cached, lock, late>>

\* fetchFn returns a result, or an error, or a value of another type.
Fetch(p) ==
  /\ pc[p] = "fetch"
  /\ \/ Goto(p, "set") /\ UNCHANGED excused
     \/ Goto(p, "unlock") /\ Excuse(key[p])
  /\ UNCHANGED <<cached, lock, late>>

\* SetModerationResult; an error is returned once the lock is released.
Set(p) ==
  LET k == key[p] IN
  /\ pc[p] = "set"
  /\ \/ live[p] /\ cached' = cached \cup {k} /\ UNCHANGED excused
     \/ UNCHANGED cached /\ Excuse(k)
  /\ Goto(p, "unlock")
  /\ UNCHANGED <<lock, late>>

UnlockUnchecked(p) ==
  LET k == key[p] IN
  /\ pc[p] = "unlock"
  /\ lock' = [lock EXCEPT ![k] = Nobody]
  /\ late' = [late EXCEPT ![p] = FALSE]
  /\ Return(p)
  /\ UNCHANGED <<cached, excused>>

\* Unlock: the script deletes the key only if it holds the caller's value.  Its
\* error is not looked at; the key then stays until its TTL.
Unlock(p) ==
  LET k == key[p]  own == lock[k] = p IN
  /\ pc[p] = "unlock"
  /\ \/ live[p] /\ lock' = [lock EXCEPT ![k] = IF own THEN Nobody ELSE @]
     \/ lock' = [lock EXCEPT ![k] = IF own THEN Orphan ELSE @]
  /\ late' = [late EXCEPT ![p] = FALSE]
  /\ Return(p)
  /\ UNCHANGED <<cached, excused>>

RetryOneMore(p) ==
  /\ pc[p] = "wait"
  /\ \/ ~live[p] /\ Return(p)
     \/ live[p] /\ key[p] \in cached /\ Return(p)
     \/ attempt[p] = MaxRetries + 1 /\ Return(p)
     \/ /\ attempt[p] <= MaxRetries
        /\ attempt' = [attempt EXCEPT ![p] = @ + 1]
        /\ pc' = [pc EXCEPT ![p] = "try"]
        /\ UNCHANGED <<key, live>>
  /\ UNCHANGED <<cached, lock, lockHist>>

RetryUncounted(p) ==
  /\ pc[p] = "wait"
  /\ \/ ~live[p] /\ Return(p)
     \/ live[p] /\ key[p] \in cached /\ Return(p)
     \/ Goto(p, "try")
  /\ UNCHANGED <<cached, lock, lockHist>>

\* After the pause the cache is looked up again: a hit returns, a miss tries
\* the lock again, and the last miss gives up.  A context that is done ends the
\* pause; a pause that ends at the same moment may still win.
Retry(p) ==
  /\ pc[p] = "wait"
  /\ \/ ~live[p] /\ Return(p)
     \/ live[p] /\ key[p] \in cached /\ Return(p)
     \/ attempt[p] = MaxRetries /\ Return(p)
     \/ /\ attempt[p] < MaxRetries
        /\ attempt' = [attempt EXCEPT ![p] = @ + 1]
        /\ pc' = [pc EXCEPT ![p] = "try"]
        /\ UNCHANGED <<key, live>>
  /\ UNCHANGED <<cached, lock, lockHist>>

-----------------------------------------------------------------------------
(* The environment                                                         *)

CtxDone(p) ==
  /\ pc[p] # "idle" /\ live[p]
  /\ live' = [live EXCEPT ![p] = FALSE]
  /\ UNCHANGED <<cached, lock, pc, key, attempt, lockHist>>

\* lockTTL passes, whoever holds the lock.
LockExpire(k) ==
  /\ lock[k] # Nobody
  /\ late' = [p \in Callers |-> late[p] \/ lock[k] = p]
  /\ excused' = [excused EXCEPT ![k] = @ \/ lock[k] \in Callers]
  /\ lock' = [lock EXCEPT ![k] = Nobody]
  /\ UNCHANGED <<cached, call>>

CacheExpire(k) ==
  /\ k \in cached
  /\ cached' = cached \ {k}
  /\ Excuse(k)
  /\ UNCHANGED <<lock, call, late>>

\* A caller's process ends; its lock stays.
Crash(p) ==
  /\ pc[p] # "idle"
  /\ lock' = [k \in Keys |-> IF lock[k] = p THEN Orphan ELSE lock[k]]
  /\ late' = [late EXCEPT ![p] = FALSE]
  /\ IF pc[p] \in Critical THEN Excuse(key[p]) ELSE UNCHANGED excused
  /\ Return(p)
  /\ UNCHANGED cached

CallStep(p) ==
  \/ TryLock(p) \/ Recheck(p) \/ Set(p) \/ Unlock(p) \/ Retry(p)

LockNext ==
  \/ \E p \in Callers :
       \/ \E k \in Keys : Begin(p, k)
       \/ CallStep(p) \/ Fetch(p) \/ CtxDone(p) \/ Crash(p)
  \/ \E k \in Keys : LockExpire(k) \/ CacheExpire(k)

LockSpec == LockInit /\ [][LockNext]_lockVars

\* Goroutines run and Redis replies or fails.  Nothing obliges fetchFn to
\* return.
LockFairness == \A p \in Callers : WF_lockVars(CallStep(p))
-----------------------------------------------------------------------------
(* What the callers may rely on                                            *)

LockTypeOK ==
  /\ cached \in SUBSET Keys
  /\ lock \in [Keys -> Callers \cup {Nobody, Orphan}]
  /\ pc \in [Callers -> {"idle", "try", "wait"} \cup Critical]
  /\ key \in [Callers -> Keys]
  /\ attempt \in [Callers -> 0 .. MaxRetries]
  /\ live \in [Callers -> BOOLEAN]
  /\ late \in [Callers -> BOOLEAN]
  /\ excused \in [Keys -> BOOLEAN]

\* Of the callers between taking a key's lock and returning, all but one have
\* outlived their lock, and that one still has its value in Redis: no call that
\* is over or late ever unlocks another's lock.
OneHolder ==
  \A p \in Callers, k \in Keys :
    Holding(p, k) /\ ~late[p] => lock[k] = p

\* Stampede protection: a value is fetched once.  A second fetch begins only
\* after the first one failed, its holder died or outlived its lock, the value
\* left the cache, or the lookup itself failed.
FetchedOnce ==
  [][\A p \in Callers :
       pc[p] # "fetch" /\ pc'[p] = "fetch" =>
         excused[key[p]] \/ excused'[key[p]]]_lockVars

\* Every call returns, or is inside fetchFn.
CallReturns ==
  \A p \in Callers : pc[p] = "try" ~> pc[p] \in {"idle", "fetch"}
=============================================================================
