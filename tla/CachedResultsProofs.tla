------------------------- MODULE CachedResultsProofs ------------------------
(***************************************************************************)
(* Theorems about the two readers of cached results.  CacheLock, for any   *)
(* number of callers, keys and retries: among the callers that took a key's*)
(* lock only the one whose value Redis holds has not outlived it, a key is *)
(* fetched once, and a call takes a bounded number of steps.  ResultStream,*)
(* for any finite set of contents and any page size: paging by offset      *)
(* drifts by no more than the changes made meanwhile, and comes to an end. *)
(***************************************************************************)
EXTENDS CacheLock, ResultStream, FunctionTheorems, FiniteSetTheorems, TLAPS

-----------------------------------------------------------------------------
(* The cache lock                                                          *)

LEMMA LockInitOK == LockInit => LockTypeOK /\ OneHolder
<1>1. (CHOOSE k \in Keys : TRUE) \in Keys
  BY LockAssumption
<1>2. 0 \in 0 .. MaxRetries
  BY LockAssumption
<1> QED
  BY <1>1, <1>2 DEF LockInit, LockTypeOK, OneHolder, Holding, Critical

LEMMA ReturnOK ==
  ASSUME LockTypeOK, NEW p \in Callers, Return(p)
  PROVE  /\ pc' \in [Callers -> {"idle", "try", "wait"} \cup Critical]
         /\ key' \in [Callers -> Keys]
         /\ attempt' \in [Callers -> 0 .. MaxRetries]
         /\ live' \in [Callers -> BOOLEAN]
BY LockAssumption DEF LockTypeOK, Return

LEMMA GotoOK ==
  ASSUME LockTypeOK, NEW p \in Callers, NEW l \in {"wait"} \cup Critical, Goto(p, l)
  PROVE  /\ pc' \in [Callers -> {"idle", "try", "wait"} \cup Critical]
         /\ key' \in [Callers -> Keys]
         /\ attempt' \in [Callers -> 0 .. MaxRetries]
         /\ live' \in [Callers -> BOOLEAN]
BY DEF LockTypeOK, Goto

LEMMA LockStep ==
  LockTypeOK /\ OneHolder /\ [LockNext]_lockVars => LockTypeOK' /\ OneHolder'
<1> SUFFICES ASSUME LockTypeOK, OneHolder, [LockNext]_lockVars
             PROVE  LockTypeOK' /\ OneHolder'
  OBVIOUS
<1> USE LockAssumption
<1> USE DEF OneHolder, Holding
<1>1. ASSUME NEW p \in Callers, NEW k \in Keys, Begin(p, k)
      PROVE  LockTypeOK' /\ OneHolder'
  BY <1>1 DEF Begin, LockTypeOK, lockHist, Critical
<1>2. ASSUME NEW p \in Callers, TryLock(p)
      PROVE  LockTypeOK' /\ OneHolder'
  <2>1. LockTypeOK'
    BY <1>2, ReturnOK, GotoOK DEF TryLock, LockTypeOK, lockHist, Critical
  <2>2. OneHolder'
    BY <1>2 DEF TryLock, Goto, Return, LockTypeOK, lockHist, Critical
  <2> QED BY <2>1, <2>2
<1>3. ASSUME NEW p \in Callers, Recheck(p)
      PROVE  LockTypeOK' /\ OneHolder'
  <2>1. LockTypeOK'
    <3>1. /\ Goto(p, "unlock") \/ Goto(p, "fetch")
          /\ excused' \in [Keys -> BOOLEAN]
          /\ UNCHANGED <<cached, lock, late>>
      BY <1>3 DEF Recheck, Excuse, LockTypeOK
    <3> QED BY <3>1, GotoOK DEF LockTypeOK, Critical
  <2>2. OneHolder'
    BY <1>3 DEF Recheck, Goto, LockTypeOK, Critical
  <2> QED BY <2>1, <2>2
<1>4. ASSUME NEW p \in Callers, Fetch(p)
      PROVE  LockTypeOK' /\ OneHolder'
  <2>1. LockTypeOK'
    BY <1>4, GotoOK DEF Fetch, Excuse, LockTypeOK, Critical
  <2>2. OneHolder'
    BY <1>4 DEF Fetch, Goto, LockTypeOK, Critical
  <2> QED BY <2>1, <2>2
<1>5. ASSUME NEW p \in Callers, Set(p)
      PROVE  LockTypeOK' /\ OneHolder'
  <2>1. LockTypeOK'
    <3>1. Goto(p, "unlock") /\ lock' = lock /\ late' = late
      BY <1>5 DEF Set
    <3>2. key[p] \in Keys
      BY DEF LockTypeOK
    <3>3. cached' \in SUBSET Keys
      BY <1>5, <3>2 DEF Set, LockTypeOK
    <3>4. excused' \in [Keys -> BOOLEAN]
      BY <1>5, <3>2 DEF Set, Excuse, LockTypeOK
    <3> QED BY <3>1, <3>3, <3>4, GotoOK DEF LockTypeOK, Critical
  <2>2. OneHolder'
    BY <1>5 DEF Set, Goto, LockTypeOK, Critical
  <2> QED BY <2>1, <2>2
<1>6. ASSUME NEW p \in Callers, Unlock(p)
      PROVE  LockTypeOK' /\ OneHolder'
  <2>1. LockTypeOK'
    BY <1>6, ReturnOK DEF Unlock, LockTypeOK
  <2>2. OneHolder'
    BY <1>6 DEF Unlock, Return, LockTypeOK, Critical
  <2> QED BY <2>1, <2>2
<1>7. ASSUME NEW p \in Callers, Retry(p)
      PROVE  LockTypeOK' /\ OneHolder'
  <2>1. LockTypeOK'
    <3>1. CASE Return(p)
      BY <3>1, <1>7, ReturnOK DEF Retry, LockTypeOK, lockHist
    <3>2. CASE ~Return(p)
      <4>1. attempt[p] + 1 \in 0 .. MaxRetries
        BY <3>2, <1>7 DEF Retry, LockTypeOK
      <4> QED BY <4>1, <3>2, <1>7 DEF Retry, LockTypeOK, lockHist
    <3> QED BY <3>1, <3>2
  <2>2. OneHolder'
    BY <1>7 DEF Retry, Return, LockTypeOK, lockHist, Critical
  <2> QED BY <2>1, <2>2
<1>8. ASSUME NEW p \in Callers, CtxDone(p)
      PROVE  LockTypeOK' /\ OneHolder'
  BY <1>8 DEF CtxDone, LockTypeOK, lockHist
<1>9. ASSUME NEW k \in Keys, LockExpire(k)
      PROVE  LockTypeOK' /\ OneHolder'
  BY <1>9 DEF LockExpire, LockTypeOK, call
<1>10. ASSUME NEW k \in Keys, CacheExpire(k)
       PROVE  LockTypeOK' /\ OneHolder'
  BY <1>10 DEF CacheExpire, Excuse, LockTypeOK, call
<1>11. ASSUME NEW p \in Callers, Crash(p)
       PROVE  LockTypeOK' /\ OneHolder'
  <2>1. LockTypeOK'
    <3>1. Return(p) /\ cached' = cached
      BY <1>11 DEF Crash
    <3>2. /\ lock' \in [Keys -> Callers \cup {Nobody, Orphan}]
          /\ late' \in [Callers -> BOOLEAN]
      BY <1>11 DEF Crash, LockTypeOK
    <3>3. excused' \in [Keys -> BOOLEAN]
      BY <1>11 DEF Crash, Excuse, LockTypeOK
    <3> QED BY <3>1, <3>2, <3>3, ReturnOK DEF LockTypeOK
  <2>2. OneHolder'
    BY <1>11 DEF Crash, Return, LockTypeOK, Critical
  <2> QED BY <2>1, <2>2
<1>12. CASE UNCHANGED lockVars
  BY <1>12 DEF lockVars, call, lockHist, LockTypeOK
<1> QED
  BY <1>1, <1>2, <1>3, <1>4, <1>5, <1>6, <1>7, <1>8, <1>9, <1>10, <1>11, <1>12
  DEF LockNext, CallStep

\* The state is well typed: in particular no call counts beyond its retries
\* (lock.go:88).
THEOREM LockTypeCorrect == LockSpec => []LockTypeOK
BY LockInitOK, LockStep, PTL DEF LockSpec

\* RedisLock excludes all callers that have not outlived their lock, and a call
\* that has outlived it never unlocks the next one's (lock.go:40-51): through
\* expiry, lost replies and crashes.
THEOREM LockHasOneHolder == LockSpec => []OneHolder
BY LockInitOK, LockStep, PTL DEF LockSpec
-----------------------------------------------------------------------------
(* A value is fetched once                                                 *)

\* A key that may not be fetched again has its value, or the one caller that
\* has not outlived its lock is about to store it.
StoredOrComing ==
  \A k \in Keys :
    ~excused[k] =>
      \/ k \in cached
      \/ \E q \in Callers : key[q] = k /\ pc[q] \in {"fetch", "set"} /\ ~late[q]

\* Only a caller that is between TryLock and its return has its value in Redis.
Owned == \A k \in Keys, q \in Callers : lock[k] = q => Holding(q, k)

LEMMA OwnedStep == LockTypeOK /\ Owned /\ [LockNext]_lockVars => Owned'
<1> SUFFICES ASSUME LockTypeOK, Owned, [LockNext]_lockVars PROVE Owned'
  OBVIOUS
<1> USE LockAssumption
<1> USE DEF Owned, Holding, Critical, LockTypeOK
<1>1. ASSUME NEW p \in Callers, NEW k \in Keys, Begin(p, k) PROVE Owned'
  BY <1>1 DEF Begin
<1>2. ASSUME NEW p \in Callers, TryLock(p) PROVE Owned'
  BY <1>2 DEF TryLock, Goto, Return
<1>3. ASSUME NEW p \in Callers, Recheck(p) PROVE Owned'
  BY <1>3 DEF Recheck, Goto
<1>4. ASSUME NEW p \in Callers, Fetch(p) PROVE Owned'
  BY <1>4 DEF Fetch, Goto
<1>5. ASSUME NEW p \in Callers, Set(p) PROVE Owned'
  BY <1>5 DEF Set, Goto
<1>6. ASSUME NEW p \in Callers, Unlock(p) PROVE Owned'
  BY <1>6 DEF Unlock, Return
<1>7. ASSUME NEW p \in Callers, Retry(p) PROVE Owned'
  BY <1>7 DEF Retry, Return
<1>8. ASSUME NEW p \in Callers, CtxDone(p) PROVE Owned'
  BY <1>8 DEF CtxDone
<1>9. ASSUME NEW k \in Keys, LockExpire(k) PROVE Owned'
  BY <1>9 DEF LockExpire, call
<1>10. ASSUME NEW k \in Keys, CacheExpire(k) PROVE Owned'
  BY <1>10 DEF CacheExpire, call
<1>11. ASSUME NEW p \in Callers, Crash(p) PROVE Owned'
  BY <1>11 DEF Crash, Return
<1>12. CASE UNCHANGED lockVars
  BY <1>12 DEF lockVars, call
<1> QED
  BY <1>1, <1>2, <1>3, <1>4, <1>5, <1>6, <1>7, <1>8, <1>9, <1>10, <1>11, <1>12
  DEF LockNext, CallStep

FetchRule ==
  \A p \in Callers :
    pc[p] # "fetch" /\ pc'[p] = "fetch" => excused[key[p]] \/ excused'[key[p]]

LEMMA StoredStep ==
  LockTypeOK /\ OneHolder /\ Owned /\ StoredOrComing /\ [LockNext]_lockVars
    => StoredOrComing' /\ FetchRule
<1> SUFFICES ASSUME LockTypeOK, OneHolder, Owned, StoredOrComing, [LockNext]_lockVars
             PROVE  StoredOrComing' /\ FetchRule
  OBVIOUS
<1> USE DEF StoredOrComing, FetchRule
<1>1. ASSUME NEW p \in Callers, NEW k \in Keys, Begin(p, k)
      PROVE  StoredOrComing' /\ FetchRule
  BY <1>1 DEF Begin, LockTypeOK, lockHist
<1>2. ASSUME NEW p \in Callers, TryLock(p)
      PROVE  StoredOrComing' /\ FetchRule
  BY <1>2 DEF TryLock, Goto, Return, LockTypeOK, lockHist
<1>3. ASSUME NEW p \in Callers, Recheck(p)
      PROVE  StoredOrComing' /\ FetchRule
  <2>1. /\ pc[p] = "recheck" /\ key[p] \in Keys
        /\ UNCHANGED <<cached, lock, late, key, attempt, live>>
        /\ pc' = [pc EXCEPT ![p] = "unlock"] \/ pc' = [pc EXCEPT ![p] = "fetch"]
    BY <1>3 DEF Recheck, Goto, LockTypeOK
  <2>2. CASE pc' = [pc EXCEPT ![p] = "unlock"]
    <3>1. excused' = excused
      BY <1>3, <2>1, <2>2 DEF Recheck, Goto, LockTypeOK
    <3> QED BY <2>1, <2>2, <3>1 DEF LockTypeOK
  <2>3. CASE pc' = [pc EXCEPT ![p] = "fetch"]
    <3>1. \/ excused' = [excused EXCEPT ![key[p]] = late[p]] /\ key[p] \notin cached
          \/ excused' = [excused EXCEPT ![key[p]] = TRUE]
      BY <1>3, <2>1, <2>3 DEF Recheck, Excuse, Goto, LockTypeOK
    <3>2. StoredOrComing'
      BY <2>1, <2>3, <3>1 DEF LockTypeOK
    <3>3. key[p] \notin cached /\ ~late[p] => excused[key[p]]
      <4> SUFFICES ASSUME key[p] \notin cached, ~late[p], ~excused[key[p]] PROVE FALSE
        OBVIOUS
      <4>1. PICK q \in Callers : /\ key[q] = key[p] /\ ~late[q]
                                 /\ pc[q] \in {"fetch", "set"}
        BY <2>1
      <4>2. lock[key[p]] = p /\ lock[key[p]] = q
        BY <2>1, <4>1 DEF OneHolder, Holding, Critical
      <4> QED BY <2>1, <4>1, <4>2
    <3>4. FetchRule
      BY <2>1, <2>3, <3>1, <3>3 DEF LockTypeOK
    <3> QED BY <3>2, <3>4
  <2> QED BY <2>1, <2>2, <2>3
<1>4. ASSUME NEW p \in Callers, Fetch(p)
      PROVE  StoredOrComing' /\ FetchRule
  BY <1>4 DEF Fetch, Excuse, Goto, LockTypeOK
<1>5. ASSUME NEW p \in Callers, Set(p)
      PROVE  StoredOrComing' /\ FetchRule
  BY <1>5 DEF Set, Excuse, Goto, LockTypeOK
<1>6. ASSUME NEW p \in Callers, Unlock(p)
      PROVE  StoredOrComing' /\ FetchRule
  BY <1>6 DEF Unlock, Return, LockTypeOK
<1>7. ASSUME NEW p \in Callers, Retry(p)
      PROVE  StoredOrComing' /\ FetchRule
  BY <1>7 DEF Retry, Return, LockTypeOK, lockHist
<1>8. ASSUME NEW p \in Callers, CtxDone(p)
      PROVE  StoredOrComing' /\ FetchRule
  BY <1>8 DEF CtxDone, LockTypeOK, lockHist
<1>9. ASSUME NEW k \in Keys, LockExpire(k)
      PROVE  StoredOrComing' /\ FetchRule
  <2>1. /\ UNCHANGED <<cached, pc, key>>
        /\ late' = [p \in Callers |-> late[p] \/ lock[k] = p]
        /\ excused' = [excused EXCEPT ![k] = @ \/ lock[k] \in Callers]
    BY <1>9 DEF LockExpire, call
  <2>2. ASSUME NEW l \in Keys, ~excused'[l], l \notin cached
        PROVE  \E q \in Callers : key[q] = l /\ pc[q] \in {"fetch", "set"} /\ ~late'[q]
    <3>1. ~excused[l] /\ (l = k => lock[k] \notin Callers)
      BY <2>1, <2>2 DEF LockTypeOK
    <3>2. PICK q \in Callers : key[q] = l /\ pc[q] \in {"fetch", "set"} /\ ~late[q]
      BY <2>2, <3>1
    <3>3. lock[l] = q
      BY <2>2, <3>2 DEF OneHolder, Holding, Critical
    <3>4. lock[k] # q
      BY <3>1, <3>2, <3>3 DEF Owned, Holding
    <3> QED BY <2>1, <3>2, <3>4
  <2> QED BY <2>1, <2>2
<1>10. ASSUME NEW k \in Keys, CacheExpire(k)
       PROVE  StoredOrComing' /\ FetchRule
  BY <1>10 DEF CacheExpire, Excuse, LockTypeOK, call
<1>11. ASSUME NEW p \in Callers, Crash(p)
       PROVE  StoredOrComing' /\ FetchRule
  <2>1. /\ pc' = [pc EXCEPT ![p] = "idle"] /\ key' = key /\ cached' = cached
        /\ late' = [late EXCEPT ![p] = FALSE]
    BY <1>11 DEF Crash, Return
  <2>2. IF pc[p] \in Critical THEN excused' = [excused EXCEPT ![key[p]] = TRUE]
                              ELSE excused' = excused
    BY <1>11 DEF Crash, Excuse
  <2>3. key[p] \in Keys
    BY DEF LockTypeOK
  <2>4. \A k \in Keys : ~excused'[k] => ~excused[k] /\ ~(pc[p] \in Critical /\ key[p] = k)
    BY <2>2, <2>3 DEF LockTypeOK
  <2>5. StoredOrComing'
    BY <2>1, <2>4 DEF LockTypeOK, Critical
  <2>6. FetchRule
    BY <2>1 DEF LockTypeOK
  <2> QED BY <2>5, <2>6
<1>12. CASE UNCHANGED lockVars
  BY <1>12 DEF lockVars, call, lockHist
<1> QED
  BY <1>1, <1>2, <1>3, <1>4, <1>5, <1>6, <1>7, <1>8, <1>9, <1>10, <1>11, <1>12
  DEF LockNext, CallStep

\* Stampede protection: while a value is in the cache, or a caller that has not
\* outlived its lock fetches it, nobody else does (lock.go:92-101).
THEOREM LockFetchesOnce == LockSpec => FetchedOnce
<1>1. LockInit => StoredOrComing /\ Owned
  BY LockAssumption DEF LockInit, StoredOrComing, Owned
<1>2. LockSpec => [][FetchRule]_lockVars
  BY <1>1, LockInitOK, LockStep, OwnedStep, StoredStep, PTL DEF LockSpec
<1> QED BY <1>2 DEF FetchedOnce, FetchRule

-----------------------------------------------------------------------------
(* A call of WithCacheLock comes to an end                                 *)

\* The steps a call has left at most: two for each attempt to come, and the
\* critical section.
StepsLeft(p) ==
  CASE pc[p] = "try"     -> 2 * (MaxRetries - attempt[p]) + 5
    [] pc[p] = "wait"    -> 2 * (MaxRetries - attempt[p]) + 4
    [] pc[p] = "recheck" -> 4
    [] pc[p] = "fetch"   -> 3
    [] pc[p] = "set"     -> 2
    [] pc[p] = "unlock"  -> 1
    [] OTHER             -> 0

\* Nothing sets a call back, and each of its own steps brings it nearer its end.
CallsAdvance ==
  \A p \in Callers :
    pc[p] # "idle" =>
      /\ StepsLeft(p) \in 1 .. 2 * MaxRetries + 5
      /\ StepsLeft(p)' \in Nat
      /\ \/ UNCHANGED <<pc[p], key[p], attempt[p]>> /\ ~CallStep(p) /\ ~Fetch(p)
         \/ StepsLeft(p)' < StepsLeft(p)

LEMMA LeftType ==
  ASSUME LockTypeOK, NEW p \in Callers
  PROVE  /\ StepsLeft(p) \in Nat
         /\ pc[p] # "idle" => StepsLeft(p) \in 1 .. 2 * MaxRetries + 5
BY LockAssumption DEF LockTypeOK, Critical, StepsLeft

\* A step of p moves p's call alone.
LEMMA CallMoves ==
  ASSUME LockTypeOK, NEW p \in Callers, CallStep(p) \/ Fetch(p) \/ Crash(p)
  PROVE  /\ \A q \in Callers : q # p => UNCHANGED <<pc[q], key[q], attempt[q]>>
         /\ pc[p] # "idle"
         /\ \/ pc'[p] = "idle"
            \/ /\ attempt'[p] = attempt[p]
               /\ <<pc[p], pc'[p]>> \in
                    {<<"try", "recheck">>, <<"try", "wait">>, <<"recheck", "unlock">>,
                     <<"recheck", "fetch">>, <<"fetch", "set">>, <<"fetch", "unlock">>,
                     <<"set", "unlock">>}
            \/ pc[p] = "wait" /\ pc'[p] = "try" /\ attempt'[p] = attempt[p] + 1
<1>t. /\ pc \in [Callers -> {"idle", "try", "wait"} \cup Critical]
      /\ key \in [Callers -> Keys]
      /\ attempt \in [Callers -> 0 .. MaxRetries]
  BY DEF LockTypeOK
<1>1. CASE TryLock(p)
  BY <1>1, <1>t DEF TryLock, Goto, Return
<1>2. CASE Recheck(p)
  BY <1>2, <1>t DEF Recheck, Goto
<1>3. CASE Set(p)
  BY <1>3, <1>t DEF Set, Goto
<1>4. CASE Unlock(p)
  BY <1>4, <1>t DEF Unlock, Return
<1>5. CASE Retry(p)
  BY <1>5, <1>t DEF Retry, Return
<1>6. CASE Fetch(p)
  BY <1>6, <1>t DEF Fetch, Goto
<1>7. CASE Crash(p)
  BY <1>7, <1>t DEF Crash, Return
<1> QED BY <1>1, <1>2, <1>3, <1>4, <1>5, <1>6, <1>7 DEF CallStep

LEMMA AdvanceStep ==
  ASSUME LockTypeOK, LockTypeOK', [LockNext]_lockVars
  PROVE  CallsAdvance
<1>t. \A p \in Callers :
        /\ StepsLeft(p) \in Nat /\ StepsLeft(p)' \in Nat
        /\ pc[p] # "idle" => StepsLeft(p) \in 1 .. 2 * MaxRetries + 5
        /\ attempt[p] \in 0 .. MaxRetries /\ attempt'[p] \in 0 .. MaxRetries
  <2>1. ASSUME NEW p \in Callers PROVE StepsLeft(p)' \in Nat
    BY LockAssumption DEF LockTypeOK, Critical, StepsLeft
  <2> QED BY <2>1, LeftType DEF LockTypeOK
<1>a. ASSUME NEW p \in Callers, CallStep(p) \/ Fetch(p) \/ Crash(p)
      PROVE  StepsLeft(p)' < StepsLeft(p)
  <2>1. MaxRetries \in Nat /\ attempt[p] \in Nat /\ attempt'[p] \in Nat
    BY <1>t, LockAssumption
  <2>2. CASE pc'[p] = "idle"
    <3>1. StepsLeft(p)' = 0
      BY <2>2 DEF StepsLeft
    <3>2. StepsLeft(p) \in 1 .. 2 * MaxRetries + 5
      BY <1>a, <1>t, CallMoves
    <3> QED BY <2>1, <3>1, <3>2
  <2>3. CASE /\ attempt'[p] = attempt[p]
             /\ <<pc[p], pc'[p]>> \in
                  {<<"try", "recheck">>, <<"try", "wait">>, <<"recheck", "unlock">>,
                   <<"recheck", "fetch">>, <<"fetch", "set">>, <<"fetch", "unlock">>,
                   <<"set", "unlock">>}
    BY <1>t, <2>1, <2>3 DEF StepsLeft
  <2>4. CASE pc[p] = "wait" /\ pc'[p] = "try" /\ attempt'[p] = attempt[p] + 1
    BY <2>1, <2>4 DEF StepsLeft
  <2> QED BY <1>a, <2>2, <2>3, <2>4, CallMoves
<1>b. ASSUME \A q \in Callers : pc[q] # "idle" =>
               \/ UNCHANGED <<pc[q], key[q], attempt[q]>> /\ ~CallStep(q) /\ ~Fetch(q)
               \/ StepsLeft(q)' < StepsLeft(q)
      PROVE  CallsAdvance
  BY <1>b, <1>t DEF CallsAdvance
<1>c. ASSUME NEW p \in Callers, CallStep(p) \/ Fetch(p) \/ Crash(p)
      PROVE  CallsAdvance
  <2>1. ASSUME NEW q \in Callers, pc[q] # "idle"
        PROVE  \/ UNCHANGED <<pc[q], key[q], attempt[q]>> /\ ~CallStep(q) /\ ~Fetch(q)
               \/ StepsLeft(q)' < StepsLeft(q)
    <3>1. CASE CallStep(q) \/ Fetch(q)
      BY <1>a, <3>1
    <3>2. CASE q = p
      BY <1>a, <1>c, <3>2
    <3>3. CASE q # p /\ ~(CallStep(q) \/ Fetch(q))
      BY <1>c, <3>3, CallMoves
    <3> QED BY <3>1, <3>2, <3>3
  <2> QED BY <1>b, <2>1
<1>d. ASSUME \A q \in Callers : pc[q] # "idle" => UNCHANGED <<pc[q], key[q], attempt[q]>>
      PROVE  CallsAdvance
  <2>1. ASSUME NEW q \in Callers, pc[q] # "idle"
        PROVE  \/ UNCHANGED <<pc[q], key[q], attempt[q]>> /\ ~CallStep(q) /\ ~Fetch(q)
               \/ StepsLeft(q)' < StepsLeft(q)
    BY <1>a, <1>d, <2>1
  <2> QED BY <1>b, <2>1
<1>1. ASSUME NEW p \in Callers, NEW k \in Keys, Begin(p, k) PROVE CallsAdvance
  <2>1. \A q \in Callers : pc[q] # "idle" => UNCHANGED <<pc[q], key[q], attempt[q]>>
    BY <1>1 DEF Begin, LockTypeOK
  <2> QED BY <1>d, <2>1
<1>2. ASSUME NEW p \in Callers, CtxDone(p) PROVE CallsAdvance
  BY <1>2, <1>d DEF CtxDone
<1>3. ASSUME NEW k \in Keys, LockExpire(k) \/ CacheExpire(k) PROVE CallsAdvance
  BY <1>3, <1>d DEF LockExpire, CacheExpire, call
<1>4. CASE UNCHANGED lockVars
  BY <1>4, <1>d DEF lockVars, call
<1> QED BY <1>1, <1>2, <1>3, <1>4, <1>c DEF LockNext

\* A call takes at most 2 * MaxRetries + 5 steps, however the others hold,
\* lose and retake the lock: no step of theirs and no expiry prolongs it
\* (lock.go:84-132).  This is what CallReturns rests on besides fairness.
THEOREM LockCallsAdvance == LockSpec => [][CallsAdvance]_lockVars
<1>1. LockTypeOK /\ LockTypeOK' /\ [LockNext]_lockVars => [CallsAdvance]_lockVars
  BY AdvanceStep
<1> QED
  BY <1>1, LockInitOK, LockStep, PTL DEF LockSpec

-----------------------------------------------------------------------------
(* Counting                                                                *)

\* How many members of S are greater than c: the rank of c among rows S.
Above(S, c) == Cardinality({d \in S : d > c})

\* What a set of rows is, for the lemmas that count in it.
RowSet(S) == S \subseteq Nat /\ IsFiniteSet(S)

LEMMA RankIsAbove == \A c : Rank(c) = Above(Rows, c)
BY DEF Rank, Above

LEMMA RowsFinite == RowSet(Rows)
BY StreamAssumption, FS_Subset DEF Rows, RowSet

LEMMA RowSetChange ==
  ASSUME NEW S, RowSet(S)
  PROVE  /\ \A s \in Nat : RowSet(S \cup {s})
         /\ \A s : RowSet(S \ {s})
BY FS_AddElement, FS_RemoveElement DEF RowSet

LEMMA Smaller ==
  ASSUME NEW S, IsFiniteSet(S), NEW T \in SUBSET S
  PROVE  /\ IsFiniteSet(T) /\ Cardinality(T) \in Nat /\ Cardinality(S) \in Nat
         /\ Cardinality(T) <= Cardinality(S)
BY FS_Subset, FS_CardinalityType

LEMMA OneMore ==
  ASSUME NEW S, IsFiniteSet(S), NEW x, NEW T \in SUBSET (S \cup {x})
  PROVE  /\ IsFiniteSet(T) /\ Cardinality(T) \in Nat /\ Cardinality(S) \in Nat
         /\ Cardinality(T) <= Cardinality(S) + 1
<1>1. /\ IsFiniteSet(S \cup {x}) /\ Cardinality(S) \in Nat
      /\ Cardinality(S \cup {x}) \in {Cardinality(S), Cardinality(S) + 1}
  BY FS_AddElement, FS_CardinalityType
<1>2. /\ IsFiniteSet(T) /\ Cardinality(T) \in Nat
      /\ Cardinality(T) <= Cardinality(S \cup {x})
  BY <1>1, Smaller
<1> QED BY <1>1, <1>2

LEMMA AboveType ==
  ASSUME NEW S, RowSet(S), NEW c
  PROVE  /\ IsFiniteSet({d \in S : d > c}) /\ Above(S, c) \in Nat
         /\ Above(S, c) <= Cardinality(S) /\ Cardinality(S) \in Nat
<1>1. {d \in S : d > c} \in SUBSET S /\ IsFiniteSet(S)
  BY DEF RowSet
<1> QED BY <1>1, Smaller DEF Above

LEMMA AboveLess ==
  ASSUME NEW S, RowSet(S), NEW c \in S
  PROVE  Above(S, c) < Cardinality(S)
<1>1. {d \in S : d > c} \in SUBSET (S \ {c}) /\ IsFiniteSet(S)
  BY DEF RowSet
<1>2. IsFiniteSet(S \ {c}) /\ Cardinality(S \ {c}) = Cardinality(S) - 1
  BY <1>1, FS_RemoveElement
<1>3. Above(S, c) <= Cardinality(S \ {c})
  BY <1>1, <1>2, Smaller DEF Above
<1>4. Above(S, c) \in Nat /\ Cardinality(S) \in Nat
  BY AboveType
<1> QED BY <1>2, <1>3, <1>4

LEMMA AboveDecreases ==
  ASSUME NEW S, RowSet(S), NEW c \in S, NEW d \in S, c < d
  PROVE  Above(S, d) < Above(S, c)
<1> DEFINE C == {e \in S : e > c}
           D == {e \in S : e > d}
<1>1. IsFiniteSet(C)
  BY AboveType
<1>2. d \in C /\ D \in SUBSET (C \ {d})
  <2>1. S \subseteq Nat
    BY DEF RowSet
  <2>2. \A e \in S : e > d => e > c /\ e # d
    BY <2>1
  <2> QED BY <2>2
<1>3. IsFiniteSet(C \ {d}) /\ Cardinality(C \ {d}) = Cardinality(C) - 1 /\ Cardinality(C) \in Nat
  BY <1>1, <1>2, FS_RemoveElement, FS_CardinalityType
<1>4. Cardinality(D) <= Cardinality(C \ {d}) /\ Cardinality(D) \in Nat
  BY <1>2, <1>3, Smaller
<1> QED BY <1>3, <1>4 DEF Above

\* No two rows have the same rank,
LEMMA AboveInjective ==
  ASSUME NEW S, RowSet(S), NEW c \in S, NEW d \in S, c # d
  PROVE  Above(S, c) # Above(S, d)
<1>1. Above(S, c) \in Nat /\ Above(S, d) \in Nat
  BY AboveType
<1>2. c \in Nat /\ d \in Nat
  BY DEF RowSet
<1>3. CASE c < d
  BY <1>1, <1>3, AboveDecreases
<1>4. CASE d < c
  BY <1>1, <1>4, AboveDecreases
<1> QED BY <1>2, <1>3, <1>4

\* and every rank below their number is taken.
LEMMA AboveOnto ==
  ASSUME NEW S, RowSet(S), NEW m \in 0 .. Cardinality(S) - 1
  PROVE  \E c \in S : Above(S, c) = m
<1> DEFINE f == [c \in S |-> Above(S, c)]
           N == Cardinality(S)
<1>1. N \in Nat
  BY AboveType
<1>2. ASSUME NEW c \in S PROVE Above(S, c) \in 0 .. N - 1
  <2>1. Above(S, c) \in Nat /\ Above(S, c) < N
    BY AboveType, AboveLess
  <2> QED BY <1>1, <2>1
<1>3. f \in [S -> 0 .. N - 1]
  BY <1>2
<1>4. \A c, d \in S : f[c] = f[d] => c = d
  BY AboveInjective
<1>5. f \in Injection(S, 0 .. N - 1)
  BY <1>3, <1>4, Zenon DEF Injection, IsInjective
<1>6. IsFiniteSet(0 .. N - 1) /\ Cardinality(0 .. N - 1) = N
  <2>1. 0 \in Int /\ N - 1 \in Int
    BY <1>1
  <2>2. Cardinality(0 .. N - 1) = IF 0 > N - 1 THEN 0 ELSE N - 1 - 0 + 1
    BY <2>1, FS_Interval
  <2> QED BY <1>1, <2>1, <2>2, FS_Interval
<1>7. f \in Surjection(S, 0 .. N - 1)
  BY <1>5, <1>6, FS_Injection
<1>8. \A n \in 0 .. N - 1 : \E c \in S : f[c] = n
  BY <1>7 DEF Surjection
<1> QED BY <1>8

\* The contents of a page.
PageOf(S, off, limit) == {c \in S : off <= Above(S, c) /\ Above(S, c) < off + limit}

\* A page has at most limit rows, and that many if there are enough.
LEMMA PageSizes ==
  ASSUME NEW S, RowSet(S), NEW off \in Nat, NEW limit \in Nat
  PROVE  /\ IsFiniteSet(PageOf(S, off, limit))
         /\ Cardinality(PageOf(S, off, limit)) \in Nat
         /\ Cardinality(PageOf(S, off, limit)) <= limit
         /\ off + limit <= Cardinality(S) => Cardinality(PageOf(S, off, limit)) = limit
<1> DEFINE P == PageOf(S, off, limit)
           g == [c \in P |-> Above(S, c)]
           R == off .. off + limit - 1
<1>0. IsFiniteSet(S) /\ Cardinality(S) \in Nat /\ P \in SUBSET S
  BY AboveType DEF RowSet, PageOf
<1>1. IsFiniteSet(R) /\ Cardinality(R) = limit
  <2>1. off \in Int /\ off + limit - 1 \in Int
    OBVIOUS
  <2>2. /\ IsFiniteSet(R)
        /\ Cardinality(R) = IF off > off + limit - 1 THEN 0 ELSE off + limit - 1 - off + 1
    BY <2>1, FS_Interval
  <2> QED BY <2>2
<1>2. ASSUME NEW c \in P PROVE Above(S, c) \in R
  <2>1. Above(S, c) \in Nat
    BY AboveType
  <2> QED BY <2>1 DEF PageOf
<1>3. g \in [P -> R]
  BY <1>2
<1>4. \A c, d \in P : g[c] = g[d] => c = d
  BY AboveInjective, <1>0
<1>5. g \in Injection(P, R)
  BY <1>3, <1>4, Zenon DEF Injection, IsInjective
<1>6. IsFiniteSet(P) /\ Cardinality(P) <= limit
  BY <1>1, <1>5, FS_Injection
<1>7. ASSUME off + limit <= Cardinality(S) PROVE Cardinality(P) = limit
  <2>1. ASSUME NEW m \in R PROVE \E c \in P : g[c] = m
    <3>1. m \in 0 .. Cardinality(S) - 1
      BY <1>0, <1>7
    <3>2. PICK c \in S : Above(S, c) = m
      BY <3>1, AboveOnto
    <3>3. c \in P
      BY <3>2 DEF PageOf
    <3> QED BY <3>2, <3>3
  <2>2. g \in Surjection(P, R)
    BY <1>3, <2>1 DEF Surjection
  <2> QED BY <1>1, <1>5, <2>2, FS_Injection
<1> QED BY <1>6, <1>7, FS_CardinalityType

LEMMA AboveAdd ==
  ASSUME NEW S, RowSet(S), NEW s \in Nat, NEW c
  PROVE  /\ Above(S, c) <= Above(S \cup {s}, c)
         /\ Above(S \cup {s}, c) <= Above(S, c) + 1
<1> DEFINE A == {d \in S : d > c}
           B == {d \in S \cup {s} : d > c}
<1>1. IsFiniteSet(A)
  BY AboveType
<1>2. B \in SUBSET (A \cup {s}) /\ A \in SUBSET B
  OBVIOUS
<1>3. Cardinality(B) <= Cardinality(A) + 1 /\ IsFiniteSet(B)
  BY <1>1, <1>2, OneMore
<1>4. Cardinality(A) <= Cardinality(B)
  BY <1>2, <1>3, Smaller
<1> QED BY <1>3, <1>4 DEF Above

LEMMA AboveRemove ==
  ASSUME NEW S, RowSet(S), NEW s \in S, NEW c
  PROVE  /\ Above(S \ {s}, c) <= Above(S, c)
         /\ Above(S, c) <= Above(S \ {s}, c) + 1
<1>1. RowSet(S \ {s})
  BY RowSetChange
<1>2. (S \ {s}) \cup {s} = S /\ s \in Nat
  BY DEF RowSet
<1> QED BY <1>1, <1>2, AboveAdd
-----------------------------------------------------------------------------
(* Types                                                                   *)

LEMMA PageIsPage ==
  ASSUME offset \in Nat
  PROVE  LET found == FindByUserID(Limit(PageSize), offset) IN
         /\ found = PageOf(Rows, offset, PageSize)
         /\ found \in SUBSET Contents /\ IsFiniteSet(found)
         /\ Cardinality(found) \in Nat /\ Cardinality(found) <= PageSize
<1>1. Limit(PageSize) = PageSize
  BY StreamAssumption DEF Limit
<1>2. FindByUserID(PageSize, offset) = PageOf(Rows, offset, PageSize)
  BY RankIsAbove DEF FindByUserID, PageOf
<1>3. PageOf(Rows, offset, PageSize) \in SUBSET Contents
  BY DEF PageOf, Rows
<1>4. PageSize \in Nat /\ RowSet(Rows)
  BY StreamAssumption, RowsFinite
<1> QED BY <1>1, <1>2, <1>3, <1>4, PageSizes

LEMMA NextMultiple ==
  ASSUME NEW a \in Nat, NEW b \in Nat \ {0}, a % b = 0
  PROVE  (a + b) % b = 0
<1> DEFINE q == a \div b
           p == (a + b) \div b
           r == (a + b) % b
<1>1. a = b * q /\ q \in Int
  BY SMT
<1>2. a + b = b * p + r /\ p \in Int /\ r \in 0 .. b - 1
  BY SMT
<1> HIDE DEF q, p, r
<1> DEFINE k == q + 1 - p
<1>3. b * k = r /\ k \in Int
  BY <1>1, <1>2, SMT
<1> HIDE DEF k
<1>4. k >= 1 => b * k >= b
  BY <1>3, SMT
<1>5. k <= 0 => b * k <= 0
  BY <1>3, SMT
<1>6. r = 0
  BY <1>2, <1>3, <1>4, <1>5, SMT
<1> QED BY <1>6 DEF r

LEMMA StreamTypeInit == StreamInit => StreamTypeOK
<1> SUFFICES ASSUME StreamInit PROVE StreamTypeOK
  OBVIOUS
<1>1. 0 % PageSize = 0
  BY StreamAssumption
<1>2. Cardinality({}) <= PageSize
  BY FS_EmptySet, StreamAssumption
<1> QED BY <1>1, <1>2 DEF StreamInit, StreamTypeOK

LEMMA NewestInPage ==
  ASSUME page \in SUBSET Contents, page # {}, Cardinality(page) <= PageSize
  PROVE  Newest \in page
<1>1. RowSet(page)
  BY StreamAssumption, FS_Subset DEF RowSet
<1>2. Cardinality(page) \in Nat /\ Cardinality(page) # 0
  BY <1>1, FS_CardinalityType, FS_EmptySet DEF RowSet
<1>3. PICK c \in page : Above(page, c) = 0
  BY <1>1, <1>2, AboveOnto
<1>4. {d \in page : d > c} = {}
  BY <1>1, <1>3, AboveType, FS_EmptySet DEF Above
<1>5. \A d \in page : d <= c
  BY <1>1, <1>4 DEF RowSet
<1> QED BY <1>5 DEF Newest

LEMMA StreamTypeStep == StreamTypeOK /\ [StreamNext]_streamVars => StreamTypeOK'
<1> SUFFICES ASSUME StreamTypeOK, [StreamNext]_streamVars PROVE StreamTypeOK'
  OBVIOUS
<1>0. Cardinality({}) <= PageSize /\ PageSize \in Nat \ {0} /\ 0 % PageSize = 0
  BY FS_EmptySet, StreamAssumption
<1> USE DEF stream, streamHist, StreamTypeOK
<1>1. ASSUME NEW c \in Contents, Save(c) \/ Delete(c) PROVE StreamTypeOK'
  BY <1>1 DEF Save, Delete
<1>2. CASE Open
  BY <1>0, <1>2 DEF Open, Rows
<1>3. CASE List
  <2>1. PICK found \in SUBSET Contents :
          /\ Cardinality(found) <= PageSize /\ page' = found
          /\ full' = (Cardinality(found) >= PageSize)
          /\ at' = IF found = {} THEN "ended" ELSE "visit"
    BY <1>3, PageIsPage DEF List
  <2> QED BY <1>3, <2>1 DEF List
<1>4. CASE Visit
  <2>1. Newest \in page
    BY <1>4, NewestInPage DEF Visit
  <2>2. Cardinality(page \ {Newest}) <= PageSize
    <3>1. IsFiniteSet(page)
      BY StreamAssumption, FS_Subset
    <3>2. /\ Cardinality(page \ {Newest}) = Cardinality(page) - 1
          /\ Cardinality(page) \in Nat
      BY <2>1, <3>1, FS_RemoveElement, FS_CardinalityType
    <3> QED BY <1>0, <3>2
  <2>3. visits' \in [Contents -> Nat]
    BY <1>4, <2>1 DEF Visit
  <2> QED BY <1>4, <2>2, <2>3 DEF Visit
<1>5. CASE Turn
  <2>1. (offset + PageSize) % PageSize = 0
    <3>1. \A a \in Nat, b \in Nat \ {0} : a % b = 0 => (a + b) % b = 0
      BY NextMultiple
    <3> QED BY <1>0, <3>1
  <2> QED BY <1>0, <1>5, <2>1 DEF Turn
<1>6. CASE Break
  BY <1>0, <1>6 DEF Break
<1>7. CASE UNCHANGED streamVars
  BY <1>7 DEF streamVars
<1> QED BY <1>1, <1>2, <1>3, <1>4, <1>5, <1>6, <1>7 DEF StreamNext

\* The state is well formed; in particular a page begins at a multiple of the
\* step of the offset and is never longer, so that pages of an unchanged table do
\* not overlap (content_server.go:77-119).
THEOREM StreamTypeCorrect == StreamSpec => []StreamTypeOK
BY StreamTypeInit, StreamTypeStep, PTL DEF StreamSpec
-----------------------------------------------------------------------------
(* Paging by offset                                                        *)

\* Saving or deleting one row moves at most one other across a rank.
LEMMA CrossedUp ==
  ASSUME NEW S, RowSet(S), NEW s \in Nat, NEW e \in Nat
  PROVE  \E x : \A c \in S : Above(S, c) < e /\ e <= Above(S \cup {s}, c) => c = x
<1> DEFINE X == {c \in S : Above(S, c) < e /\ e <= Above(S \cup {s}, c)}
<1>1. ASSUME NEW c \in X PROVE Above(S, c) = e - 1
  <2>1. /\ Above(S, c) \in Nat /\ Above(S, c) < e /\ e <= Above(S \cup {s}, c)
        /\ Above(S \cup {s}, c) <= Above(S, c) + 1
    BY AboveType, AboveAdd
  <2>2. Above(S \cup {s}, c) \in Nat
    BY RowSetChange, AboveType
  <2> QED BY <2>1, <2>2
<1>2. \A c, d \in X : c = d
  BY <1>1, AboveInjective
<1>3. CASE X = {}
  BY <1>3
<1>4. CASE X # {}
  <2>1. PICK x : x \in X
    BY <1>4
  <2> QED BY <1>2, <2>1
<1> QED BY <1>3, <1>4

LEMMA CrossedDown ==
  ASSUME NEW S, RowSet(S), NEW s \in S, NEW e \in Nat
  PROVE  \E x : \A c \in S : e <= Above(S, c) /\ Above(S \ {s}, c) < e => c = x
<1> DEFINE X == {c \in S : e <= Above(S, c) /\ Above(S \ {s}, c) < e}
<1>1. ASSUME NEW c \in X PROVE Above(S, c) = e
  <2>1. /\ Above(S, c) \in Nat /\ e <= Above(S, c) /\ Above(S \ {s}, c) < e
        /\ Above(S, c) <= Above(S \ {s}, c) + 1
    BY AboveType, AboveRemove
  <2>2. Above(S \ {s}, c) \in Nat
    BY RowSetChange, AboveType
  <2> QED BY <2>1, <2>2
<1>2. \A c, d \in X : c = d
  BY <1>1, AboveInjective
<1>3. CASE X = {}
  BY <1>3
<1>4. CASE X # {}
  <2>1. PICK x : x \in X
    BY <1>4
  <2> QED BY <1>2, <2>1
<1> QED BY <1>3, <1>4

\* The rank up to which the stream has been through the rows, and whether it
\* has been through all of them.
Edge == IF at = "visit" THEN offset + PageSize ELSE offset

Through == at = "ended" \/ (at = "visit" /\ ~full)

\* The contents behind the stream that it has not come to and will not.
Skipped ==
  {c \in before \cap Rows :
     visits[c] = 0 /\ c \notin page /\ (Through \/ Rank(c) < Edge)}

\* The contents it will come to again: on this page, or on a later one.
Pending == {c \in page : visits[c] > 0}

Returning == {c \in Rows : (visits[c] > 0 \/ c \in page) /\ Edge <= Rank(c)}

DriftInv ==
  /\ at # "visit" => page = {}
  /\ \A c \in Contents : c \in before \/ visits[c] > 0 \/ c \in page => row[c] # "unsaved"
  /\ Cardinality(Skipped) <= removed
  /\ IF at = "ended" THEN Cardinality(Again) <= inserted
     ELSE Cardinality(Again) + Cardinality(Pending) + Cardinality(Returning) <= inserted

LEMMA DriftTypes ==
  ASSUME StreamTypeOK
  PROVE  /\ Edge \in Nat /\ \A c : Rank(c) \in Nat
         /\ IsFiniteSet(Skipped) /\ Cardinality(Skipped) \in Nat
         /\ IsFiniteSet(Pending) /\ Cardinality(Pending) \in Nat
         /\ IsFiniteSet(Returning) /\ Cardinality(Returning) \in Nat
         /\ IsFiniteSet(Again) /\ Cardinality(Again) \in Nat
<1>1. Edge \in Nat
  BY StreamAssumption DEF StreamTypeOK, Edge
<1>2. \A c : Rank(c) \in Nat
  BY RankIsAbove, RowsFinite, AboveType
<1>3. /\ Skipped \in SUBSET Contents /\ Pending \in SUBSET Contents
      /\ Returning \in SUBSET Contents /\ IsFiniteSet(Contents)
  BY StreamAssumption DEF StreamTypeOK, Skipped, Pending, Returning, Rows
<1>4. IsFiniteSet(Contents \X (1 .. Cardinality(Contents) + 1))
  <2>1. Cardinality(Contents) \in Nat
    BY <1>3, FS_CardinalityType
  <2>2. IsFiniteSet(1 .. Cardinality(Contents) + 1)
    BY <2>1, FS_Interval
  <2> QED BY <1>3, <2>2, FS_Product
<1>5. Again \in SUBSET (Contents \X (1 .. Cardinality(Contents) + 1))
  BY DEF Again
<1> QED BY <1>1, <1>2, <1>3, <1>4, <1>5, Smaller

LEMMA NothingAgain ==
  ASSUME \A c \in Contents : visits[c] = 0
  PROVE  Again = {}
BY DEF Again

LEMMA DriftStart == StreamInit => DriftInv
<1> SUFFICES ASSUME StreamInit PROVE DriftInv
  OBVIOUS
<1>1. Rows = {} /\ Skipped = {} /\ Pending = {} /\ Returning = {}
  BY DEF StreamInit, Rows, Skipped, Pending, Returning
<1>2. Again = {}
  BY NothingAgain DEF StreamInit
<1> QED BY <1>1, <1>2, FS_EmptySet DEF StreamInit, DriftInv

LEMMA DriftSuffices == StreamTypeOK /\ DriftInv => DriftBounded
<1> SUFFICES ASSUME StreamTypeOK, DriftInv PROVE DriftBounded
  OBVIOUS
<1>1. at = "ended" => Missed = Skipped
  BY DEF DriftInv, Missed, Skipped, Through
<1>2. Cardinality(Again) <= inserted
  BY DriftTypes DEF DriftInv, StreamTypeOK
<1> QED BY <1>1, <1>2 DEF DriftInv, DriftBounded

\* A row is saved: one that the stream has been through may come before its edge
\* again.
LEMMA DriftSave ==
  ASSUME StreamTypeOK, StreamTypeOK', DriftInv, NEW s \in Contents, Save(s)
  PROVE  DriftInv'
<1>1. /\ row[s] = "unsaved" /\ row' = [row EXCEPT ![s] = "stored"]
      /\ inserted' = IF at = "ended" THEN inserted ELSE inserted + 1
      /\ UNCHANGED <<at, offset, page, full, visits, before, removed>>
  BY DEF Save, stream
<1>2. Rows' = Rows \cup {s} /\ s \notin Rows /\ s \in Nat
  BY <1>1, StreamAssumption DEF Rows, StreamTypeOK
<1>a. RowSet(Rows) /\ RowSet(Rows \cup {s})
  BY <1>2, RowsFinite, RowSetChange
<1>b. \A c : Rank(c) = Above(Rows, c) /\ Rank(c)' = Above(Rows \cup {s}, c)
  BY <1>2 DEF Rank, Above
<1>3. \A c : Rank(c) <= Rank(c)' /\ Rank(c) \in Nat /\ Rank(c)' \in Nat
  BY <1>2, <1>a, <1>b, AboveAdd, AboveType
<1>4. Edge' = Edge /\ Edge \in Nat /\ Through' = Through
  BY <1>1, DriftTypes DEF Edge, Through
<1>5. visits[s] = 0 /\ s \notin page /\ s \notin before
  BY <1>1 DEF DriftInv, StreamTypeOK
<1>6. Skipped' \in SUBSET Skipped
  BY <1>1, <1>2, <1>3, <1>4, <1>5 DEF Skipped
<1>7. Pending' = Pending /\ Again' = Again
  BY <1>1 DEF Pending, Again
<1>8. PICK x : \A c \in Rows : Rank(c) < Edge /\ Edge <= Rank(c)' => c = x
  BY <1>2, <1>4, <1>a, <1>b, CrossedUp
<1>9. Returning' \in SUBSET (Returning \cup {x})
  BY <1>1, <1>2, <1>3, <1>4, <1>5, <1>8 DEF Returning
<1>10. Cardinality(Skipped') <= removed'
  BY <1>1, <1>6, DriftTypes, Smaller DEF DriftInv, StreamTypeOK
<1>11. Cardinality(Returning') <= Cardinality(Returning) + 1 /\ Cardinality(Returning') \in Nat
  BY <1>9, DriftTypes, OneMore
<1>12. IF at' = "ended" THEN Cardinality(Again') <= inserted'
       ELSE Cardinality(Again') + Cardinality(Pending') + Cardinality(Returning') <= inserted'
  BY <1>1, <1>7, <1>11, DriftTypes DEF DriftInv, StreamTypeOK
<1>13. /\ at' # "visit" => page' = {}
       /\ \A c \in Contents : c \in before' \/ visits'[c] > 0 \/ c \in page' => row'[c] # "unsaved"
  BY <1>1 DEF DriftInv, StreamTypeOK
<1> QED BY <1>10, <1>12, <1>13 DEF DriftInv

\* A row is deleted: one that the stream has not come to may slip behind it.
LEMMA DriftDelete ==
  ASSUME StreamTypeOK, StreamTypeOK', DriftInv, NEW s \in Contents, Delete(s)
  PROVE  DriftInv'
<1>1. /\ row[s] = "stored" /\ row' = [row EXCEPT ![s] = "deleted"]
      /\ removed' = IF at = "ended" THEN removed ELSE removed + 1
      /\ UNCHANGED <<at, offset, page, full, visits, before, inserted>>
  BY DEF Delete, stream
<1>2. Rows' = Rows \ {s} /\ s \in Rows
  BY <1>1 DEF Rows, StreamTypeOK
<1>a. RowSet(Rows) /\ RowSet(Rows \ {s})
  BY RowsFinite, RowSetChange
<1>b. \A c : Rank(c) = Above(Rows, c) /\ Rank(c)' = Above(Rows \ {s}, c)
  BY <1>2 DEF Rank, Above
<1>3. \A c : Rank(c)' <= Rank(c) /\ Rank(c) \in Nat /\ Rank(c)' \in Nat
  BY <1>2, <1>a, <1>b, AboveRemove, AboveType
<1>4. Edge' = Edge /\ Edge \in Nat /\ Through' = Through
  BY <1>1, DriftTypes DEF Edge, Through
<1>5. Pending' = Pending /\ Again' = Again
  BY <1>1 DEF Pending, Again
<1>6. Returning' \in SUBSET Returning
  BY <1>1, <1>2, <1>3, <1>4 DEF Returning
<1>7. Cardinality(Returning') <= Cardinality(Returning) /\ Cardinality(Returning') \in Nat
  BY <1>6, DriftTypes, Smaller
<1>8. Cardinality(Skipped') <= removed'
  <2>1. CASE Through
    <3>1. Skipped' \in SUBSET Skipped
      BY <1>1, <1>2, <1>4, <2>1 DEF Skipped
    <3> QED BY <1>1, <3>1, DriftTypes, Smaller DEF DriftInv, StreamTypeOK
  <2>2. CASE ~Through
    <3>1. PICK x : \A c \in Rows : Edge <= Rank(c) /\ Rank(c)' < Edge => c = x
      BY <1>2, <1>4, <1>a, <1>b, CrossedDown
    <3>2. Skipped' \in SUBSET (Skipped \cup {x})
      BY <1>1, <1>2, <1>3, <1>4, <2>2, <3>1 DEF Skipped
    <3>3. Cardinality(Skipped') <= Cardinality(Skipped) + 1 /\ Cardinality(Skipped') \in Nat
      BY <3>2, DriftTypes, OneMore
    <3>4. removed' = removed + 1
      BY <1>1, <2>2 DEF Through
    <3> QED BY <3>3, <3>4, DriftTypes DEF DriftInv, StreamTypeOK
  <2> QED BY <2>1, <2>2
<1>9. IF at' = "ended" THEN Cardinality(Again') <= inserted'
      ELSE Cardinality(Again') + Cardinality(Pending') + Cardinality(Returning') <= inserted'
  BY <1>1, <1>5, <1>7, DriftTypes DEF DriftInv, StreamTypeOK
<1>10. /\ at' # "visit" => page' = {}
       /\ \A c \in Contents : c \in before' \/ visits'[c] > 0 \/ c \in page' => row'[c] # "unsaved"
  BY <1>1 DEF DriftInv, StreamTypeOK
<1> QED BY <1>8, <1>9, <1>10 DEF DriftInv
\* The next page: what comes again on it or after it was to come again.
LEMMA DriftList ==
  ASSUME StreamTypeOK, StreamTypeOK', DriftInv, List
  PROVE  DriftInv'
<1> DEFINE found == PageOf(Rows, offset, PageSize)
<1>1. /\ at = "list" /\ page' = found /\ full' = (Cardinality(found) >= PageSize)
      /\ at' = IF found = {} THEN "ended" ELSE "visit"
      /\ UNCHANGED <<row, offset, visits, before, inserted, removed>>
  BY PageIsPage DEF List, streamHist, StreamTypeOK
<1>2. /\ offset \in Nat /\ PageSize \in Nat \ {0} /\ RowSet(Rows)
      /\ \A c : Rank(c) = Above(Rows, c) /\ Rank(c) \in Nat
  BY StreamAssumption, RowsFinite, RankIsAbove, DriftTypes DEF StreamTypeOK
<1>3. Rows' = Rows /\ \A c : Rank(c)' = Rank(c)
  BY <1>1 DEF Rows, Rank
<1>4. \A c : c \in found <=> c \in Rows /\ offset <= Rank(c) /\ Rank(c) < offset + PageSize
  BY <1>2 DEF PageOf
<1> HIDE DEF found
<1>5. page = {} /\ Edge = offset /\ ~Through
  BY <1>1 DEF DriftInv, Edge, Through
<1>6. Again' = Again
  BY <1>1 DEF Again
<1>7. Cardinality(Rows) \in Nat /\ \A c \in Rows : Rank(c) < Cardinality(Rows)
  BY <1>2, AboveType, AboveLess
<1>8. Cardinality(found) \in Nat
      /\ (offset + PageSize <= Cardinality(Rows) => Cardinality(found) = PageSize)
  BY <1>2, PageSizes DEF found
<1>9. \A c \in Contents :
        c \in before' \/ visits'[c] > 0 \/ c \in page' => row'[c] # "unsaved"
  BY <1>1, <1>4 DEF DriftInv, Rows
<1>10. CASE found = {}
  <2>1. \A c \in Rows : Rank(c) < offset
    <3>1. CASE Cardinality(Rows) <= offset
      BY <1>2, <1>7, <3>1
    <3>2. CASE offset < Cardinality(Rows)
      <4>1. offset \in 0 .. Cardinality(Rows) - 1
        BY <1>2, <1>7, <3>2
      <4>2. PICK c \in Rows : Rank(c) = offset
        BY <1>2, <4>1, AboveOnto
      <4> QED BY <1>2, <1>4, <1>10, <4>2
    <3> QED BY <1>2, <1>7, <3>1, <3>2
  <2>2. Skipped' \in SUBSET Skipped
    BY <1>1, <1>3, <1>5, <1>10, <2>1 DEF Skipped
  <2>3. Cardinality(Skipped') <= removed'
    BY <1>1, <2>2, DriftTypes, Smaller DEF DriftInv, StreamTypeOK
  <2>4. at' = "ended" /\ page' = {} /\ Cardinality(Again') <= inserted'
    BY <1>1, <1>6, <1>10, DriftTypes DEF DriftInv, StreamTypeOK
  <2> QED BY <1>9, <2>3, <2>4 DEF DriftInv
<1>11. CASE found # {}
  <2>1. at' = "visit" /\ Edge' = offset + PageSize
    BY <1>1, <1>11 DEF Edge
  <2>2. ~full' => \A c \in Rows : Rank(c) < offset + PageSize
    <3>1. ~full' => ~(offset + PageSize <= Cardinality(Rows))
      <4>1. Cardinality(found) >= PageSize => full'
        BY <1>1
      <4>2. offset + PageSize <= Cardinality(Rows) => Cardinality(found) >= PageSize
        BY <1>2, <1>8
      <4> QED BY <4>1, <4>2, Zenon
    <3> QED BY <1>2, <1>7, <3>1
  <2>3. Skipped' \in SUBSET Skipped
    BY <1>1, <1>2, <1>3, <1>4, <1>5, <2>1, <2>2 DEF Skipped, Through
  <2>4. Cardinality(Skipped') <= removed'
    BY <1>1, <2>3, DriftTypes, Smaller DEF DriftInv, StreamTypeOK
  <2>5. /\ Pending' \cup Returning' \in SUBSET Returning
        /\ Pending' \cap Returning' = {}
    BY <1>1, <1>2, <1>3, <1>4, <1>5, <2>1 DEF Pending, Returning
  <2>6. IsFiniteSet(Pending') /\ IsFiniteSet(Returning')
    BY <2>5, DriftTypes, FS_Subset
  <2>7. /\ Cardinality(Pending') \in Nat /\ Cardinality(Returning') \in Nat
        /\ Cardinality(Pending') + Cardinality(Returning') = Cardinality(Pending' \cup Returning')
    <3>1. /\ Cardinality(Pending' \cup Returning')
               = Cardinality(Pending') + Cardinality(Returning') - Cardinality(Pending' \cap Returning')
          /\ Cardinality(Pending' \cap Returning') = 0
      BY <2>5, <2>6, FS_Union, FS_EmptySet
    <3> QED BY <2>6, <3>1, FS_CardinalityType
  <2>8. Cardinality(Pending' \cup Returning') <= Cardinality(Returning)
    BY <2>5, DriftTypes, Smaller
  <2>9. Cardinality(Again') + Cardinality(Pending') + Cardinality(Returning') <= inserted'
    BY <1>1, <1>6, <2>7, <2>8, DriftTypes DEF DriftInv, StreamTypeOK
  <2> QED BY <1>9, <2>1, <2>4, <2>9 DEF DriftInv
<1> QED BY <1>10, <1>11

\* A content is visited: if it was before, it was pending and is so no more.
LEMMA DriftVisit ==
  ASSUME StreamTypeOK, StreamTypeOK', DriftInv, Visit
  PROVE  DriftInv'
<1> DEFINE c == Newest
<1>1. c \in page /\ c \in Contents
  BY NewestInPage DEF Visit, StreamTypeOK
<1>2. /\ at = "visit" /\ visits' = [visits EXCEPT ![c] = @ + 1] /\ page' = page \ {c}
      /\ UNCHANGED <<row, at, offset, full, before, inserted, removed>>
  BY DEF Visit
<1> HIDE DEF c
<1>3. /\ visits[c] \in Nat /\ visits'[c] = visits[c] + 1
      /\ \A d \in Contents \ {c} : visits'[d] = visits[d]
  BY <1>1, <1>2 DEF StreamTypeOK
<1>4. Rows' = Rows /\ Edge' = Edge /\ Through' = Through /\ \A d : Rank(d)' = Rank(d)
  BY <1>2 DEF Rows, Edge, Through, Rank
<1>5. page \in SUBSET Contents /\ before \in SUBSET Contents /\ Rows \in SUBSET Contents
  BY DEF StreamTypeOK, Rows
<1>6. Skipped' \in SUBSET Skipped
  BY <1>1, <1>2, <1>3, <1>4, <1>5 DEF Skipped
<1>7. Cardinality(Skipped') <= removed'
  BY <1>2, <1>6, DriftTypes, Smaller DEF DriftInv, StreamTypeOK
<1>8. Returning' = Returning
  BY <1>1, <1>2, <1>3, <1>4, <1>5 DEF Returning
<1>9. /\ Cardinality(Again') \in Nat /\ Cardinality(Pending') \in Nat
      /\ Cardinality(Again') + Cardinality(Pending') <= Cardinality(Again) + Cardinality(Pending)
  <2>1. CASE visits[c] = 0
    <3>1. Pending' \in SUBSET Pending
      BY <1>2, <1>3, <1>5 DEF Pending
    <3>2. Again' \in SUBSET Again
      BY <1>1, <1>2, <1>3, <2>1 DEF Again
    <3> QED BY <3>1, <3>2, DriftTypes, Smaller
  <2>2. CASE visits[c] > 0
    <3>1. Pending' = Pending \ {c} /\ c \in Pending
      BY <1>1, <1>2, <1>3, <1>5, <2>2 DEF Pending
    <3>2. Again' \in SUBSET (Again \cup {<<c, visits[c]>>})
      <4>1. ASSUME NEW v \in Again', v \notin Again PROVE v = <<c, visits[c]>>
        <5>1. /\ v \in Contents \X (1 .. Cardinality(Contents) + 1)
              /\ v[2] < visits'[v[1]] /\ ~(v[2] < visits[v[1]])
          BY <4>1 DEF Again
        <5>2. v[1] = c /\ v[2] \in Nat
          <6>1. v[1] \in Contents /\ v[2] \in Nat
            BY <5>1
          <6> QED BY <1>3, <5>1, <6>1
        <5>3. v[2] = visits[c]
          BY <1>3, <5>1, <5>2
        <5> QED BY <5>1, <5>2, <5>3
      <4> QED BY <4>1
    <3>3. Cardinality(Pending') = Cardinality(Pending) - 1 /\ Cardinality(Pending') \in Nat
      BY <3>1, DriftTypes, FS_RemoveElement, FS_CardinalityType
    <3>4. Cardinality(Again') <= Cardinality(Again) + 1 /\ Cardinality(Again') \in Nat
      BY <3>2, DriftTypes, OneMore
    <3> QED BY <3>3, <3>4, DriftTypes
  <2> QED BY <1>3, <2>1, <2>2
<1>10. at # "ended" /\ at' # "ended"
  BY <1>2
<1>11. Cardinality(Again') + Cardinality(Pending') + Cardinality(Returning') <= inserted'
  BY <1>2, <1>8, <1>9, <1>10, DriftTypes DEF DriftInv, StreamTypeOK
<1>12. /\ at' # "visit" => page' = {}
       /\ \A d \in Contents : d \in before' \/ visits'[d] > 0 \/ d \in page' => row'[d] # "unsaved"
  BY <1>1, <1>2, <1>3 DEF DriftInv
<1> QED BY <1>7, <1>10, <1>11, <1>12 DEF DriftInv
\* A stream ends, fails or begins.
LEMMA DriftOpen ==
  ASSUME StreamTypeOK, StreamTypeOK', DriftInv, Open
  PROVE  DriftInv'
<1>1. /\ at' = "list" /\ offset' = 0 /\ page' = {} /\ row' = row
      /\ \A c \in Contents : visits'[c] = 0
      /\ before' = Rows /\ inserted' = 0 /\ removed' = 0
  BY DEF Open
<1>2. \A c : Rank(c)' \in Nat
  <2>1. \A c : Rank(c)' = Rank(c)
    BY <1>1 DEF Rank, Rows
  <2> QED BY <2>1, DriftTypes
<1>3. Skipped' = {}
  BY <1>1, <1>2 DEF Skipped, Through, Edge
<1>4. Pending' = {} /\ Returning' = {} /\ Again' = {}
  BY <1>1 DEF Pending, Returning, Again, Rows
<1>5. /\ at' # "visit" => page' = {}
      /\ \A c \in Contents : c \in before' \/ visits'[c] > 0 \/ c \in page' => row'[c] # "unsaved"
  BY <1>1 DEF Rows
<1>6. /\ Cardinality(Skipped') <= removed'
      /\ Cardinality(Again') + Cardinality(Pending') + Cardinality(Returning') <= inserted'
  BY <1>1, <1>3, <1>4, FS_EmptySet
<1> QED BY <1>1, <1>5, <1>6 DEF DriftInv

LEMMA DriftTurn ==
  ASSUME StreamTypeOK, StreamTypeOK', DriftInv, Turn
  PROVE  DriftInv'
<1>1. /\ at = "visit" /\ page = {} /\ at' = IF full THEN "list" ELSE "ended"
      /\ offset' = IF full THEN offset + PageSize ELSE offset
      /\ UNCHANGED <<row, page, full, visits, before, inserted, removed>>
  BY DEF Turn, streamHist
<1>2. Rows' = Rows /\ \A c : Rank(c)' = Rank(c)
  BY <1>1 DEF Rows, Rank
<1>3. Through' = Through /\ (full => Edge' = Edge)
  BY <1>1 DEF Through, Edge, StreamTypeOK
<1>4. Skipped' = Skipped
  BY <1>1, <1>2, <1>3 DEF Skipped, Through, StreamTypeOK
<1>5. Pending' = Pending /\ Again' = Again /\ (full => Returning' = Returning)
  BY <1>1, <1>2, <1>3 DEF Pending, Returning, Again
<1>6. IF at' = "ended" THEN Cardinality(Again') <= inserted'
      ELSE Cardinality(Again') + Cardinality(Pending') + Cardinality(Returning') <= inserted'
  BY <1>1, <1>5, DriftTypes DEF DriftInv, StreamTypeOK
<1>7. /\ at' # "visit" => page' = {}
      /\ \A c \in Contents : c \in before' \/ visits'[c] > 0 \/ c \in page' => row'[c] # "unsaved"
  BY <1>1 DEF DriftInv
<1> QED BY <1>1, <1>4, <1>6, <1>7 DEF DriftInv

LEMMA DriftBreak ==
  ASSUME StreamTypeOK, StreamTypeOK', DriftInv, Break
  PROVE  DriftInv'
<1>1. /\ at' = "ended" /\ page' = {} /\ row' = row /\ before' = {}
      /\ \A c \in Contents : visits'[c] = 0
      /\ inserted' = 0 /\ removed' = 0
  BY DEF Break
<1>2. Skipped' = {} /\ Again' = {}
  BY <1>1 DEF Skipped, Again
<1>3. \A c \in Contents : c \in before' \/ visits'[c] > 0 \/ c \in page' => row'[c] # "unsaved"
  BY <1>1
<1> QED BY <1>1, <1>2, <1>3, FS_EmptySet DEF DriftInv

LEMMA DriftStep ==
  ASSUME StreamTypeOK, StreamTypeOK', DriftInv, [StreamNext]_streamVars
  PROVE  DriftInv'
<1>1. CASE UNCHANGED streamVars
  <2>1. UNCHANGED <<row, at, offset, page, full, visits, before, inserted, removed>>
    BY <1>1 DEF streamVars, stream, streamHist
  <2>2. Rows' = Rows /\ \A c : Rank(c)' = Rank(c)
    BY <2>1 DEF Rows, Rank
  <2>3. Skipped' = Skipped /\ Pending' = Pending /\ Returning' = Returning /\ Again' = Again
    BY <2>1, <2>2 DEF Skipped, Pending, Returning, Again, Through, Edge
  <2> QED BY <2>1, <2>3 DEF DriftInv
<1> QED
  BY <1>1, DriftSave, DriftDelete, DriftList, DriftVisit, DriftOpen, DriftTurn, DriftBreak
  DEF StreamNext

\* Whatever is saved and deleted between two pages, a stream that ran to its end
\* has missed no more contents than were deleted, and at no time has it come back
\* to contents more often than contents were saved (content_server.go:77-120).
THEOREM DriftIsBounded == StreamSpec => []DriftBounded
<1>1. StreamTypeOK /\ DriftInv /\ [StreamNext]_streamVars => DriftInv'
  BY StreamTypeStep, DriftStep
<1> QED
  BY <1>1, StreamTypeInit, StreamTypeStep, DriftStart, DriftSuffices, PTL DEF StreamSpec

\* While nothing is saved no content comes twice; a stream that ran to its end
\* while nothing was deleted came to every content that was there.
QuietStream ==
  /\ inserted = 0 => \A c \in Contents : visits[c] <= 1
  /\ at = "ended" /\ removed = 0 => \A c \in before \cap Rows : visits[c] > 0

\* With both, it comes to each content exactly once.
THEOREM QuietStreamIsExact == StreamSpec => []QuietStream
<1>1. ASSUME StreamTypeOK, DriftBounded PROVE QuietStream
  <2>1. ASSUME inserted = 0, NEW c \in Contents PROVE visits[c] <= 1
    <3>1. Again = {}
      <4>1. IsFiniteSet(Again) /\ Cardinality(Again) \in Nat /\ Cardinality(Again) <= 0
        BY <1>1, <2>1, DriftTypes DEF DriftBounded
      <4> QED BY <4>1, FS_EmptySet
    <3>2. Cardinality(Contents) \in Nat /\ visits[c] \in Nat
      BY <1>1, StreamAssumption, FS_CardinalityType DEF StreamTypeOK
    <3>3. 1 \in 1 .. Cardinality(Contents) + 1
      BY <3>2
    <3>4. <<c, 1>> \in Contents \X (1 .. Cardinality(Contents) + 1)
      BY <3>3
    <3>5. ~(1 < visits[c])
      BY <3>1, <3>4 DEF Again
    <3> QED BY <3>2, <3>5
  <2>2. ASSUME at = "ended", removed = 0, NEW c \in before \cap Rows PROVE visits[c] > 0
    <3>1. Missed = {}
      <4>1. Missed \in SUBSET Contents
        BY DEF Missed, Rows
      <4>2. IsFiniteSet(Missed) /\ Cardinality(Missed) \in Nat /\ Cardinality(Missed) <= 0
        BY <1>1, <2>2, <4>1, StreamAssumption, Smaller DEF DriftBounded
      <4> QED BY <4>2, FS_EmptySet
    <3>2. visits[c] \in Nat
      BY <1>1 DEF StreamTypeOK, Rows
    <3> QED BY <3>1, <3>2 DEF Missed
  <2> QED BY <2>1, <2>2 DEF QuietStream
<1> QED
  BY <1>1, StreamTypeCorrect, DriftIsBounded, PTL

-----------------------------------------------------------------------------
(* A stream comes to an end                                                *)

\* A full page reaches no further than the rows do.
LEMMA PageFull ==
  ASSUME NEW S, RowSet(S), NEW off \in Nat, NEW limit \in Nat \ {0},
         Cardinality(PageOf(S, off, limit)) >= limit
  PROVE  off + limit <= Cardinality(S)
<1>1. Cardinality(S) \in Nat /\ \A c \in S : Above(S, c) \in Nat /\ Above(S, c) < Cardinality(S)
  BY AboveType, AboveLess
<1>2. ASSUME Cardinality(S) < off + limit, off <= Cardinality(S) PROVE FALSE
  <2> DEFINE rest == Cardinality(S) - off
  <2>1. rest \in Nat /\ rest < limit
    BY <1>1, <1>2
  <2>2. PageOf(S, off, limit) = PageOf(S, off, rest)
    BY <1>1, <1>2 DEF PageOf
  <2> HIDE DEF rest
  <2>3. Cardinality(PageOf(S, off, rest)) \in Nat /\ Cardinality(PageOf(S, off, rest)) <= rest
    BY <2>1, PageSizes
  <2> QED BY <2>1, <2>2, <2>3
<1>3. ASSUME Cardinality(S) < off PROVE FALSE
  <2>1. PageOf(S, off, limit) = {}
    BY <1>1, <1>3 DEF PageOf
  <2>2. Cardinality({}) = 0
    BY FS_EmptySet
  <2> QED BY <2>1, <2>2
<1> QED BY <1>1, <1>2, <1>3

\* The stream never asks for a page beyond the number of the user's contents.
InTable ==
  /\ offset <= Cardinality(Contents)
  /\ at = "visit" /\ full => offset + PageSize <= Cardinality(Contents)

LEMMA TableSize ==
  /\ Cardinality(Contents) \in Nat /\ Cardinality(Rows) \in Nat
  /\ Cardinality(Rows) <= Cardinality(Contents)
BY StreamAssumption, Smaller DEF Rows

LEMMA TableStart == StreamInit => InTable
BY TableSize DEF StreamInit, InTable

LEMMA TableStep ==
  ASSUME StreamTypeOK, InTable, [StreamNext]_streamVars
  PROVE  InTable'
<1> DEFINE N == Cardinality(Contents)
<1>t. offset \in Nat /\ PageSize \in Nat \ {0} /\ N \in Nat
  BY TableSize, StreamAssumption DEF StreamTypeOK
<1>1. CASE List
  <2>1. /\ full' = (Cardinality(PageOf(Rows, offset, PageSize)) >= PageSize)
        /\ offset' = offset
    BY <1>1, PageIsPage DEF List, StreamTypeOK
  <2>2. full' => offset + PageSize <= Cardinality(Rows)
    BY <1>t, <2>1, RowsFinite, PageFull
  <2>3. full' => offset + PageSize <= N
    BY <1>t, <2>2, TableSize
  <2> HIDE DEF N
  <2> QED BY <2>1, <2>3 DEF InTable, N
<1>2. CASE Turn
  <2>1. /\ offset' = IF full THEN offset + PageSize ELSE offset
        /\ at = "visit" /\ at' # "visit"
    BY <1>2 DEF Turn
  <2> QED BY <1>t, <2>1 DEF InTable
<1>3. CASE Open
  BY <1>3, <1>t DEF Open, InTable
<1>4. CASE Visit \/ Break \/ UNCHANGED streamVars
  BY <1>4 DEF Visit, Break, InTable, streamVars, stream
<1>5. ASSUME NEW c \in Contents, Save(c) \/ Delete(c) PROVE InTable'
  BY <1>5 DEF Save, Delete, InTable, stream
<1> QED BY <1>1, <1>2, <1>3, <1>4, <1>5 DEF StreamNext

\* What the stream has before it: the contents behind its offset, and the rest
\* of its page.
StreamLeft ==
  IF at = "ended" THEN 0
  ELSE 3 * (Cardinality(Contents) - offset)
         + (IF at = "list" THEN PageSize + 2 ELSE Cardinality(page) + 1)

\* Whatever is saved and deleted, the stream is not put off, and each of its own
\* steps brings it nearer its end.
StreamShrinks ==
  at # "ended" =>
    /\ StreamLeft \in Nat /\ StreamLeft' \in Nat
    /\ \/ UNCHANGED stream /\ ~(List \/ Visit \/ Turn \/ Break)
       \/ StreamLeft' < StreamLeft

LEMMA ShrinkStep ==
  ASSUME StreamTypeOK, StreamTypeOK', InTable, InTable', [StreamNext]_streamVars
  PROVE  StreamShrinks
<1> DEFINE N == Cardinality(Contents)
           n == Cardinality(page)
<1>t. /\ offset \in Nat /\ offset' \in Nat /\ PageSize \in Nat \ {0} /\ N \in Nat
      /\ n \in Nat /\ n' \in Nat /\ n <= PageSize /\ n' <= PageSize
      /\ offset <= N /\ offset' <= N
      /\ at \in {"ended", "list", "visit"} /\ at' \in {"ended", "list", "visit"}
  <2>1. page \in SUBSET Contents /\ page' \in SUBSET Contents
    BY DEF StreamTypeOK
  <2>2. n \in Nat /\ n' \in Nat
    BY <2>1, StreamAssumption, FS_Subset, FS_CardinalityType
  <2> QED BY <2>2, TableSize, StreamAssumption DEF StreamTypeOK, InTable
<1> DEFINE d == 3 * (N - offset)
<1>l. /\ at = "ended" => StreamLeft = 0
      /\ at = "list" => StreamLeft = d + (PageSize + 2)
      /\ at = "visit" => StreamLeft = d + (n + 1)
      /\ at' = "ended" => StreamLeft' = 0
      /\ at' = "list" => StreamLeft' = d' + (PageSize + 2)
      /\ at' = "visit" => StreamLeft' = d' + (n' + 1)
  BY DEF StreamLeft
<1>d. /\ d \in Nat /\ d' \in Nat
      /\ offset' = offset => d' = d
      /\ offset' = offset + PageSize => d' = d - 3 * PageSize
  BY <1>t
<1>v. Visit => n' = n - 1
  <2> SUFFICES ASSUME Visit PROVE n' = n - 1
    OBVIOUS
  <2>1. IsFiniteSet(page) /\ Newest \in page /\ page' = page \ {Newest}
    BY NewestInPage, StreamAssumption, FS_Subset DEF Visit, StreamTypeOK
  <2> QED BY <2>1, FS_RemoveElement
<1>i. at = "visit" /\ full => offset + PageSize <= N
  BY DEF InTable
<1> HIDE DEF N, n, d
<1>k. StreamLeft \in Nat /\ StreamLeft' \in Nat
  BY <1>d, <1>t, <1>l
<1>0. ASSUME StreamLeft' < StreamLeft PROVE StreamShrinks
  BY <1>0, <1>k DEF StreamShrinks
<1>1. CASE List
  <2>1. at = "list" /\ at' \in {"ended", "visit"} /\ offset' = offset
    BY <1>1 DEF List
  <2> QED BY <1>0, <1>d, <1>l, <1>t, <2>1
<1>2. CASE Visit
  <2>1. at = "visit" /\ at' = at /\ offset' = offset
    BY <1>2 DEF Visit
  <2> QED BY <1>0, <1>2, <1>d, <1>l, <1>t, <1>v, <2>1
<1>3. CASE Turn
  <2>1. /\ at = "visit" /\ at' = IF full THEN "list" ELSE "ended"
        /\ offset' = IF full THEN offset + PageSize ELSE offset
    BY <1>3 DEF Turn
  <2>2. CASE full
    <3>1. at' = "list" /\ offset' = offset + PageSize /\ offset + PageSize <= N
      BY <1>i, <2>1, <2>2
    <3> QED BY <1>0, <1>d, <1>l, <1>t, <2>1, <3>1
  <2>3. CASE ~full
    BY <1>0, <1>d, <1>l, <1>t, <2>1, <2>3
  <2> QED BY <2>2, <2>3
<1>4. CASE Break
  <2>1. at # "ended" /\ at' = "ended"
    BY <1>4 DEF Break
  <2> QED BY <1>0, <1>d, <1>l, <1>t, <2>1
<1>5. CASE Open
  BY <1>5 DEF Open, StreamShrinks
<1>6. ASSUME UNCHANGED stream PROVE StreamShrinks
  BY <1>0, <1>1, <1>2, <1>3, <1>4, <1>6, <1>k DEF StreamShrinks
<1>7. ASSUME NEW c \in Contents, Save(c) \/ Delete(c) PROVE StreamShrinks
  BY <1>6, <1>7 DEF Save, Delete
<1>8. CASE UNCHANGED streamVars
  BY <1>6, <1>8 DEF streamVars
<1> QED BY <1>1, <1>2, <1>3, <1>4, <1>5, <1>7, <1>8 DEF StreamNext

\* A stream asks for a page only where the user may have contents, and ends
\* after a number of its own steps that saves and deletes between its pages do
\* not increase (content_server.go:77-120).
THEOREM StreamsRunOut == StreamSpec => []InTable /\ [][StreamShrinks]_streamVars
<1>1. /\ StreamTypeOK /\ StreamTypeOK' /\ InTable /\ InTable' /\ [StreamNext]_streamVars
           => [StreamShrinks]_streamVars
  BY ShrinkStep
<1> QED
  BY <1>1, StreamTypeInit, StreamTypeStep, TableStart, TableStep, PTL DEF StreamSpec
=============================================================================
