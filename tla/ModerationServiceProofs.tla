----------------------- MODULE ModerationServiceProofs ----------------------
(***************************************************************************)
(* Theorems about ModerationService for every set of contents, workers and *)
(* streams: the state is well typed, the idempotency key excludes, the     *)
(* service implements ModerationContract, and verdicts and notifications   *)
(* are answers of the AI about their content.  With a single worker a      *)
(* verdict is final and the user is told exactly that verdict.             *)
(***************************************************************************)
EXTENDS ModerationService, SequenceTheorems, TLAPS

-----------------------------------------------------------------------------
(* Type correctness                                                        *)

LEMMA TypeInit == Init => TypeOK
<1> SUFFICES ASSUME Init PROVE TypeOK
    OBVIOUS
<1> QED
    BY CallersAssumption
    DEF Init, TypeOK, StoreType, CallerType, HistType, PCs, Critical, Contract!Statuses, Contract!Stored,
        Contract!Decided, Decided

\* Verdict(i) is one of the two decisions.
LEMMA VerdictType == \A i : Verdict(i) \in Decided
BY DEF Verdict, Decided, Contract!Verdict, Contract!Decided

\* A caller that returns, and one that goes on to its next call, stay typed.
LEMMA ReturnType ==
  ASSUME CallerType, NEW p \in Callers, Return(p), UNCHANGED answers
  PROVE  CallerType'
<1> USE DEF CallerType, Return, PCs
<1>1. pc' \in [Callers -> PCs]
    OBVIOUS
<1>2. on' \in [Callers -> Contents \cup {Nobody}]
    OBVIOUS
<1>3. res' \in [Callers -> 0 .. Len(answers')]
    OBVIOUS
<1>4. live' \in [Callers -> BOOLEAN]
    OBVIOUS
<1>5. \A q \in Callers :
        /\ pc'[q] # "idle" => on'[q] \in Contents
        /\ pc'[q] \in {"cache", "update", "reread", "notify"} => res'[q] # 0
    OBVIOUS
<1> QED
    BY <1>1, <1>2, <1>3, <1>4, <1>5

LEMMA GotoType ==
  ASSUME CallerType, NEW p \in Callers, NEW l \in PCs, Goto(p, l),
         UNCHANGED answers, pc[p] # "idle",
         l \in {"cache", "update", "reread", "notify"} => res[p] # 0
  PROVE  CallerType'
BY DEF CallerType, Goto

LEMMA TypeStep == TypeOK /\ [Next]_vars => TypeOK'
<1> SUFFICES ASSUME TypeOK, [Next]_vars PROVE TypeOK'
    OBVIOUS
<1> USE DEF TypeOK, StoreType, CallerType, HistType, vars, store, caller, hist, PCs, Critical
<1>1. ASSUME NEW p \in Callers, NEW c \in Contents, Begin(p, c) PROVE TypeOK'
    BY <1>1 DEF Begin
<1>2. ASSUME NEW p \in Callers, Acquire(p) PROVE TypeOK'
  <2>1. StoreType'
    <3>1. on[p] \in Contents
      BY <1>2 DEF Acquire
    <3> QED
      BY <1>2, <3>1 DEF Acquire, SetKey
  <2>2. CallerType'
    BY <1>2, ReturnType, GotoType DEF Acquire
  <2>3. HistType'
    BY <1>2 DEF Acquire
  <2> QED
    BY <2>1, <2>2, <2>3
<1>3. ASSUME NEW p \in Callers, Infer(p) PROVE TypeOK'
    BY <1>3 DEF Infer, Contract!Answer
<1>4. ASSUME NEW p \in Callers, InferFail(p) PROVE TypeOK'
    BY <1>4 DEF InferFail, Goto
<1>5. ASSUME NEW p \in Callers, CacheResult(p) PROVE TypeOK'
    BY <1>5 DEF CacheResult, Goto
<1>6. ASSUME NEW p \in Callers, Release(p) PROVE TypeOK'
  <2>1. StoreType'
    <3>1. on[p] \in Contents
      BY <1>6 DEF Release
    <3> QED
      BY <1>6, <3>1 DEF Release
  <2>2. CallerType'
    BY <1>6, ReturnType, GotoType DEF Release, AfterModerate
  <2>3. HistType'
    BY <1>6 DEF Release
  <2> QED
    BY <2>1, <2>2, <2>3
<1>7. ASSUME NEW p \in Callers, UpdateStatus(p) PROVE TypeOK'
  <2>1. on[p] \in Contents /\ res[p] \in 1 .. Len(answers)
    BY <1>7 DEF UpdateStatus
  <2>2. StoreType'
    <3>1. Verdict(res[p]) \in Contract!Statuses
      BY VerdictType DEF Decided, Contract!Statuses, Contract!Stored
    <3>2. rows' \in [Contents -> [status : Contract!Statuses, moderationID : Nat]]
      <4>1. CASE UNCHANGED rows
        BY <4>1
      <4>2. CASE Upsert(p)
        BY <2>1, <3>1, <4>2 DEF Upsert
      <4> QED
        BY <1>7, <4>1, <4>2 DEF UpdateStatus, Written
    <3> QED
      BY <1>7, <3>2 DEF UpdateStatus
  <2>3. CallerType'
    BY <1>7, ReturnType, GotoType DEF UpdateStatus
  <2>4. HistType'
    BY <1>7, <2>1 DEF UpdateStatus, Written, Upsert
  <2> QED
    BY <2>2, <2>3, <2>4
<1>8. ASSUME NEW p \in Callers, Reread(p) PROVE TypeOK'
  <2>1. StoreType' /\ HistType'
    BY <1>8 DEF Reread
  <2>2. CallerType'
    BY <1>8, ReturnType, GotoType DEF Reread
  <2> QED
    BY <2>1, <2>2
<1>9. ASSUME NEW p \in Callers, PublishNotification(p) PROVE TypeOK'
  <2>1. on[p] \in Contents /\ res[p] \in Nat
    BY <1>9 DEF PublishNotification
  <2>2. StoreType'
    <3> DEFINE m == [content |-> on[p], type |-> Verdict(res[p]), of |-> res[p]]
               T == [content : Contents, type : Decided, of : Nat]
    <3>1. m \in T
      BY <2>1, VerdictType
    <3>2. Append(notifications, m) \in Seq(T)
      BY <3>1, AppendProperties
    <3>3. notifications' \in Seq(T)
      BY <1>9, <3>2 DEF PublishNotification, Append1
    <3> QED
      BY <1>9, <3>3 DEF PublishNotification
  <2>3. CallerType'
    BY <1>9, ReturnType DEF PublishNotification
  <2>4. HistType'
    BY <1>9 DEF PublishNotification
  <2> QED
    BY <2>2, <2>3, <2>4
<1>10. ASSUME NEW p \in Callers, CtxDone(p) PROVE TypeOK'
    BY <1>10 DEF CtxDone
<1>11. ASSUME NEW c \in Contents, Save(c) PROVE TypeOK'
    BY <1>11 DEF Save, Contract!Statuses, Contract!Stored
<1>12. ASSUME NEW c \in Contents, PublishJob(c) PROVE TypeOK'
    BY <1>12 DEF PublishJob
<1>13. ASSUME NEW c \in Contents, DeleteContent(c) PROVE TypeOK'
    BY <1>13 DEF DeleteContent, Contract!Statuses
<1>14. ASSUME NEW c \in Contents, LockExpire(c) PROVE TypeOK'
    BY <1>14 DEF LockExpire, InCritical
<1>15. ASSUME NEW c \in Contents, CacheExpire(c) PROVE TypeOK'
    BY <1>15 DEF CacheExpire
<1>16. CASE Crash
    BY <1>16 DEF Crash
<1>17. CASE UNCHANGED vars
    BY <1>17
<1> QED
    BY <1>1, <1>2, <1>3, <1>4, <1>5, <1>6, <1>7, <1>8, <1>9, <1>10, <1>11,
       <1>12, <1>13, <1>14, <1>15, <1>16, <1>17
    DEF Next, Step

\* Every reachable state is well typed: HandleModerationResult never gets the
\* nil result of a failed AI call (moderation_service.go:76, :101).
THEOREM TypeCorrect == Spec => []TypeOK
BY TypeInit, TypeStep, PTL DEF Spec

-----------------------------------------------------------------------------
(* The idempotency key excludes                                            *)

\* The key of a content that never expired under a live holder names the live
\* caller between SetIfNotExists and Invalidate.  LockExclusion alone is not
\* inductive: it does not say that a caller that finds no key is alone.
LockInv ==
  \A p \in Callers : \A c \in Contents :
    InCritical(p, c) /\ live[p] /\ ~overrun[c] => lock[c] = p

LEMMA LockInit == Init => LockInv
BY DEF Init, LockInv, InCritical, Critical

LEMMA LockStep == TypeOK /\ LockInv /\ [Next]_vars => LockInv'
<1> SUFFICES ASSUME TypeOK, LockInv, [Next]_vars PROVE LockInv'
    OBVIOUS
<1> USE CallersAssumption DEF LockInv, InCritical, Critical, store, caller, hist
<1>t. /\ lock \in [Contents -> Callers \cup {Nobody}]
      /\ pc \in [Callers -> PCs]
      /\ on \in [Callers -> Contents \cup {Nobody}]
      /\ live \in [Callers -> BOOLEAN]
      /\ overrun \in [Contents -> BOOLEAN]
      /\ \A p \in Callers : pc[p] # "idle" => on[p] \in Contents
    BY DEF TypeOK, StoreType, CallerType, HistType
<1>1. ASSUME NEW p \in Callers, NEW c \in Contents, Begin(p, c) PROVE LockInv'
    BY <1>1, <1>t DEF Begin
<1>2. ASSUME NEW p \in Callers, Acquire(p) PROVE LockInv'
  <2>1. CASE lock[on[p]] = Nobody /\ SetKey(p) /\ Goto(p, "infer")
    BY <1>2, <1>t, <2>1 DEF Acquire, SetKey, Goto, Callers
  <2>2. CASE lock[on[p]] = Nobody /\ SetKey(p) /\ Return(p)
    BY <1>2, <1>t, <2>2 DEF Acquire, SetKey, Return, Callers
  <2>3. CASE UNCHANGED lock /\ Return(p)
    BY <1>2, <1>t, <2>3 DEF Acquire, Return
  <2> QED
    BY <1>2, <2>1, <2>2, <2>3 DEF Acquire
<1>3. ASSUME NEW p \in Callers, Infer(p) PROVE LockInv'
    BY <1>3, <1>t DEF Infer
<1>4. ASSUME NEW p \in Callers, InferFail(p) PROVE LockInv'
    BY <1>4, <1>t DEF InferFail, Goto
<1>5. ASSUME NEW p \in Callers, CacheResult(p) PROVE LockInv'
    BY <1>5, <1>t DEF CacheResult, Goto
<1>6. ASSUME NEW p \in Callers, Release(p) PROVE LockInv'
  <2>1. /\ \A q \in Callers : q # p => pc'[q] = pc[q] /\ on'[q] = on[q] /\ live'[q] = live[q]
        /\ pc'[p] \notin Critical
    BY <1>6, <1>t DEF Release, AfterModerate, Goto, Return
  <2>2. /\ UNCHANGED overrun
        /\ \/ live[p] /\ lock' = [lock EXCEPT ![on[p]] = Nobody]
           \/ UNCHANGED lock
    BY <1>6 DEF Release
  <2> QED
    BY <1>6, <1>t, <2>1, <2>2 DEF Release
<1>7. ASSUME NEW p \in Callers, UpdateStatus(p) PROVE LockInv'
    BY <1>7, <1>t DEF UpdateStatus, Goto, Return
<1>8. ASSUME NEW p \in Callers, Reread(p) PROVE LockInv'
    BY <1>8, <1>t DEF Reread, Goto, Return
<1>9. ASSUME NEW p \in Callers, PublishNotification(p) PROVE LockInv'
    BY <1>9, <1>t DEF PublishNotification, Return
<1>10. ASSUME NEW p \in Callers, CtxDone(p) PROVE LockInv'
    BY <1>10, <1>t DEF CtxDone
<1>11. ASSUME NEW c \in Contents, Save(c) PROVE LockInv'
    BY <1>11 DEF Save
<1>12. ASSUME NEW c \in Contents, PublishJob(c) PROVE LockInv'
    BY <1>12 DEF PublishJob
<1>13. ASSUME NEW c \in Contents, DeleteContent(c) PROVE LockInv'
    BY <1>13 DEF DeleteContent
<1>14. ASSUME NEW c \in Contents, LockExpire(c) PROVE LockInv'
    BY <1>14, <1>t DEF LockExpire
<1>15. ASSUME NEW c \in Contents, CacheExpire(c) PROVE LockInv'
    BY <1>15 DEF CacheExpire
<1>16. CASE Crash
    BY <1>16, <1>t DEF Crash
<1>17. CASE UNCHANGED vars
    BY <1>17 DEF vars
<1> QED
    BY <1>1, <1>2, <1>3, <1>4, <1>5, <1>6, <1>7, <1>8, <1>9, <1>10, <1>11,
       <1>12, <1>13, <1>14, <1>15, <1>16, <1>17
    DEF Next, Step

\* Two live callers are never both between SetIfNotExists and the deferred
\* Invalidate of one content (moderation_service.go:50, :59), unless its key
\* expired under a stream.
THEOREM LockExcludes == Spec => []LockExclusion
<1>1. LockInv => LockExclusion
    BY DEF LockInv, LockExclusion
<1> QED
    BY TypeInit, TypeStep, LockInit, LockStep, <1>1, PTL DEF Spec

-----------------------------------------------------------------------------
(* The service implements the contract                                     *)

Announced == Contract!Announced

\* The AI's answer a caller carries is about its content and carried by nobody
\* else; it enters a row at UpdateStatus and the notification stream after
\* that, each at most once.
Carried(p) ==
  /\ pc[p] # "idle" => rows[on[p]].status # "unsaved"
  /\ pc[p] \in {"idle", "acquire", "infer"} => res[p] = 0
  /\ pc[p] \in {"update", "reread", "notify"} => p \in Workers
  /\ res[p] # 0 =>
       /\ answers[res[p]].content = on[p]
       /\ \A q \in Callers : q # p => res[q] # res[p]
       /\ pc[p] \in {"cache", "release", "update"} => res[p] \notin written
       /\ pc[p] \in {"reread", "notify"} => res[p] \in written \ Announced

CarryInv ==
  /\ \A p \in Callers : Carried(p)
  /\ Announced \subseteq written

LEMMA CarryInit == Init => CarryInv
BY DEF Init, CarryInv, Carried, Announced, Contract!Announced

\* A step that leaves p's call, the answers and the notifications alone, and
\* brings no row back, leaves what p carries alone.
LEMMA CarryFrame ==
  ASSUME TypeOK, CarryInv, UNCHANGED <<answers, written, notifications>>,
         \A c \in Contents : rows[c].status # "unsaved" => rows'[c].status # "unsaved",
         \A q \in Callers :
           \/ pc'[q] = pc[q] /\ on'[q] = on[q] /\ res'[q] = res[q]
           \/ pc'[q] = "idle" /\ res'[q] = 0
           \/ pc'[q] = "acquire" /\ res'[q] = 0 /\ on'[q] \in Contents
                /\ rows'[on'[q]].status # "unsaved"
           \/ /\ pc'[q] = "infer" /\ pc[q] = "acquire"
              /\ on'[q] = on[q] /\ res'[q] = res[q]
           \/ /\ pc'[q] = "release" /\ pc[q] \in {"infer", "cache"}
              /\ on'[q] = on[q] /\ res'[q] = res[q]
           \/ /\ pc'[q] = "update" /\ pc[q] = "release" /\ q \in Workers
              /\ on'[q] = on[q] /\ res'[q] = res[q]
           \/ /\ pc'[q] = "notify" /\ pc[q] = "reread"
              /\ on'[q] = on[q] /\ res'[q] = res[q]
  PROVE  CarryInv'
<1>1. \A q \in Callers : pc[q] # "idle" => on[q] \in Contents
    BY DEF TypeOK, CallerType
<1>2. \A q \in Callers : res'[q] # 0 => res'[q] = res[q] /\ on'[q] = on[q]
    OBVIOUS
<1>3. Announced' = Announced
    BY DEF Announced, Contract!Announced
<1>4. ASSUME NEW q \in Callers PROVE Carried(q)'
  <2> USE DEF CarryInv, Carried
  <2>1. pc'[q] # "idle" => rows'[on'[q]].status # "unsaved"
    BY <1>1
  <2>2. pc'[q] \in {"idle", "acquire", "infer"} => res'[q] = 0
    OBVIOUS
  <2>3. pc'[q] \in {"update", "reread", "notify"} => q \in Workers
    OBVIOUS
  <2>4. ASSUME res'[q] # 0
        PROVE  /\ answers[res'[q]].content = on'[q]
               /\ \A r \in Callers : r # q => res'[r] # res'[q]
               /\ pc'[q] \in {"cache", "release", "update"} => res'[q] \notin written
               /\ pc'[q] \in {"reread", "notify"} => res'[q] \in written \ Announced
    BY <1>2, <2>4
  <2> QED
    BY <1>3, <2>1, <2>2, <2>3, <2>4
<1> QED
    BY <1>3, <1>4 DEF CarryInv

\* One message more on the stream announces one answer more.
LEMMA AnnouncedAppend ==
  ASSUME NEW S, NEW s \in Seq(S), NEW m \in S
  PROVE  {Append(s, m)[n].of : n \in DOMAIN Append(s, m)} =
           {s[n].of : n \in DOMAIN s} \cup {m.of}
<1>1. DOMAIN s = 1 .. Len(s) /\ DOMAIN Append(s, m) = 1 .. Len(s) + 1
    OBVIOUS
<1>2. Append(s, m)[Len(s) + 1] = m
    OBVIOUS
<1>3. \A n \in DOMAIN s : Append(s, m)[n] = s[n]
    OBVIOUS
<1>4. DOMAIN Append(s, m) = DOMAIN s \cup {Len(s) + 1}
    BY <1>1
<1> QED
    BY <1>2, <1>3, <1>4, Zenon

LEMMA CarryStep == TypeOK /\ CarryInv /\ [Next]_vars => CarryInv'
<1> SUFFICES ASSUME TypeOK, CarryInv, [Next]_vars PROVE CarryInv'
    OBVIOUS
<1> USE DEF store, caller, hist, Critical
<1>t. /\ rows \in [Contents -> [status : Contract!Statuses, moderationID : Nat]]
      /\ pc \in [Callers -> PCs]
      /\ on \in [Callers -> Contents \cup {Nobody}]
      /\ res \in [Callers -> 0 .. Len(answers)]
      /\ answers \in Seq(Contract!Answer)
      /\ written \in SUBSET (1 .. Len(answers))
      /\ \A p \in Callers : pc[p] # "idle" => on[p] \in Contents
      /\ \A p \in Callers :
           pc[p] \in {"cache", "update", "reread", "notify"} => res[p] # 0
    BY DEF TypeOK, StoreType, CallerType, HistType
<1>1. ASSUME NEW p \in Callers, NEW c \in Contents, Begin(p, c) PROVE CarryInv'
    BY <1>1, <1>t, CarryFrame DEF Begin, CarryInv, Carried
<1>2. ASSUME NEW p \in Callers, Acquire(p) PROVE CarryInv'
    BY <1>2, <1>t, CarryFrame DEF Acquire, Goto, Return
<1>3. ASSUME NEW p \in Callers, Infer(p) PROVE CarryInv'
  <2> DEFINE n == Len(answers) + 1
  <2>1. PICK b \in BOOLEAN : answers' = Append(answers, [content |-> on[p], approved |-> b])
    BY <1>3 DEF Infer
  <2>2. /\ \A i \in 1 .. Len(answers) : answers'[i] = answers[i]
        /\ answers'[n].content = on[p]
    BY <1>t, <2>1
  <2>3. /\ n \notin written /\ n # 0
        /\ \A q \in Callers : res[q] # n
        /\ res' = [res EXCEPT ![p] = n]
        /\ pc' = [pc EXCEPT ![p] = "cache"]
        /\ UNCHANGED <<rows, on, written, notifications>>
    BY <1>3, <1>t DEF Infer
  <2>4. Announced' = Announced
    BY <2>3 DEF Announced, Contract!Announced
  <2>5. ASSUME NEW q \in Callers PROVE Carried(q)'
    <3>1. CASE q = p
      BY <1>3, <1>t, <2>2, <2>3, <3>1 DEF Infer, CarryInv, Carried
    <3>2. CASE q # p
      BY <1>t, <2>2, <2>3, <2>4, <3>2 DEF CarryInv, Carried
    <3> QED
      BY <3>1, <3>2
  <2> QED
    BY <2>3, <2>4, <2>5 DEF CarryInv
<1>4. ASSUME NEW p \in Callers, InferFail(p) PROVE CarryInv'
    BY <1>4, <1>t, CarryFrame DEF InferFail, Goto
<1>5. ASSUME NEW p \in Callers, CacheResult(p) PROVE CarryInv'
    BY <1>5, <1>t, CarryFrame DEF CacheResult, Goto
<1>6. ASSUME NEW p \in Callers, Release(p) PROVE CarryInv'
    BY <1>6, <1>t, CarryFrame DEF Release, AfterModerate, Goto, Return
<1>7. ASSUME NEW p \in Callers, UpdateStatus(p) PROVE CarryInv'
  <2>1. CASE UNCHANGED <<rows, written>> /\ Return(p)
    BY <1>7, <1>t, <2>1, CarryFrame DEF UpdateStatus, Return
  <2>2. CASE Upsert(p) /\ (Goto(p, "reread") \/ Return(p))
    <3>1. /\ pc[p] = "update" /\ on[p] \in Contents /\ res[p] \in 1 .. Len(answers)
          /\ written' = written \cup {res[p]}
          /\ UNCHANGED <<answers, notifications>>
      BY <1>7, <1>t, <2>2 DEF UpdateStatus, Upsert
    <3>2. res[p] \notin written /\ answers[res[p]].content = on[p]
      BY <3>1 DEF CarryInv, Carried
    <3>3. Announced' = Announced /\ res[p] \notin Announced
      BY <3>1, <3>2 DEF CarryInv, Announced, Contract!Announced
    <3>4. \A c \in Contents : rows[c].status # "unsaved" => rows'[c].status # "unsaved"
      BY <1>t, <2>2, <3>1, VerdictType DEF Upsert, Decided, Contract!Decided
    <3>5. ASSUME NEW q \in Callers, q # p PROVE Carried(q)'
      <4>1. pc'[q] = pc[q] /\ on'[q] = on[q] /\ res'[q] = res[q]
        BY <1>t, <2>2, <3>5 DEF Goto, Return
      <4>2. \A r \in Callers : res'[r] = res[r] \/ res'[r] = 0
        BY <1>t, <2>2 DEF Goto, Return
      <4>3. res[q] # 0 => res[q] # res[p]
        BY <3>1, <3>5 DEF CarryInv, Carried
      <4> QED
        BY <1>t, <3>1, <3>3, <3>4, <4>1, <4>2, <4>3 DEF CarryInv, Carried
    <3>6. Carried(p)'
      <4>1. CASE Goto(p, "reread")
        BY <1>t, <3>1, <3>2, <3>3, <3>4, <4>1 DEF CarryInv, Carried, Goto
      <4>2. CASE Return(p)
        BY <1>t, <4>2 DEF Carried, Return
      <4> QED
        BY <2>2, <4>1, <4>2
    <3> QED
      BY <3>1, <3>3, <3>5, <3>6 DEF CarryInv
  <2> QED
    BY <1>7, <2>1, <2>2 DEF UpdateStatus, Written
<1>8. ASSUME NEW p \in Callers, Reread(p) PROVE CarryInv'
    BY <1>8, <1>t, CarryFrame DEF Reread, Goto, Return
<1>9. ASSUME NEW p \in Callers, PublishNotification(p) PROVE CarryInv'
  <2>1. /\ pc[p] = "notify" /\ on[p] \in Contents /\ res[p] # 0
        /\ res[p] \in written \ Announced
        /\ Return(p)
        /\ UNCHANGED <<rows, answers, written>>
    BY <1>9, <1>t DEF PublishNotification, CarryInv, Carried
  <2>2. Announced' \subseteq Announced \cup {res[p]}
    <3> DEFINE m == [content |-> on[p], type |-> Verdict(res[p]), of |-> res[p]]
               T == [content : Contents, type : Decided, of : Nat]
    <3>1. m \in T /\ notifications \in Seq(T)
      BY <1>t, <2>1, VerdictType DEF TypeOK, StoreType
    <3>2. CASE notifications' = Append(notifications, m)
      BY <3>1, <3>2, AnnouncedAppend DEF Announced, Contract!Announced
    <3>3. CASE UNCHANGED notifications
      BY <3>3 DEF Announced, Contract!Announced
    <3> QED
      BY <1>9, <3>2, <3>3 DEF PublishNotification, Append1
  <2>3. ASSUME NEW q \in Callers PROVE Carried(q)'
    <3>1. CASE q = p
      BY <1>t, <2>1, <3>1 DEF Carried, Return
    <3>2. CASE q # p
      BY <1>t, <2>1, <2>2, <3>2 DEF CarryInv, Carried, Return
    <3> QED
      BY <3>1, <3>2
  <2> QED
    BY <2>1, <2>2, <2>3 DEF CarryInv
<1>10. ASSUME NEW p \in Callers, CtxDone(p) PROVE CarryInv'
    BY <1>10, <1>t, CarryFrame DEF CtxDone
<1>11. ASSUME NEW c \in Contents, Save(c) PROVE CarryInv'
    BY <1>11, <1>t, CarryFrame DEF Save
<1>12. ASSUME NEW c \in Contents, PublishJob(c) PROVE CarryInv'
    BY <1>12, CarryFrame DEF PublishJob
<1>13. ASSUME NEW c \in Contents, DeleteContent(c) PROVE CarryInv'
    BY <1>13, <1>t, CarryFrame DEF DeleteContent
<1>14. ASSUME NEW c \in Contents, LockExpire(c) PROVE CarryInv'
    BY <1>14, CarryFrame DEF LockExpire
<1>15. ASSUME NEW c \in Contents, CacheExpire(c) PROVE CarryInv'
    BY <1>15, CarryFrame DEF CacheExpire
<1>16. CASE Crash
    BY <1>16, <1>t, CarryFrame DEF Crash
<1>17. CASE UNCHANGED vars
    BY <1>17, CarryFrame DEF vars
<1> QED
    BY <1>1, <1>2, <1>3, <1>4, <1>5, <1>6, <1>7, <1>8, <1>9, <1>10, <1>11,
       <1>12, <1>13, <1>14, <1>15, <1>16, <1>17
    DEF Next, Step

\* Every step of the service is a step of the contract or leaves it unchanged.
LEMMA ContractStep ==
  ASSUME TypeOK, CarryInv, [Next]_vars
  PROVE  [Contract!Next]_(Contract!vars)
<1> USE DEF Contract!vars, store, caller, hist
<1> DEFINE Stutter == UNCHANGED <<rows, answers, written, notifications>>
<1>t. /\ on \in [Callers -> Contents \cup {Nobody}]
      /\ res \in [Callers -> 0 .. Len(answers)]
      /\ answers \in Seq(Contract!Answer)
      /\ \A p \in Callers : pc[p] # "idle" => on[p] \in Contents
      /\ \A p \in Callers :
           pc[p] \in {"cache", "update", "reread", "notify"} => res[p] # 0
    BY DEF TypeOK, CallerType, HistType
<1>1. ASSUME NEW p \in Callers, Infer(p) PROVE Contract!Next
  <2>1. on[p] \in Contents /\ rows[on[p]].status # "unsaved"
    BY <1>1, <1>t DEF Infer, CarryInv, Carried
  <2>2. Contract!Judge(on[p])
    BY <1>1, <2>1 DEF Infer, Contract!Judge
  <2> QED
    BY <2>1, <2>2 DEF Contract!Next
<1>2. ASSUME NEW p \in Callers, UpdateStatus(p) PROVE Contract!Next \/ Stutter
  <2>1. /\ res[p] \in DOMAIN answers \ written
        /\ answers[res[p]].content = on[p]
    BY <1>2, <1>t DEF UpdateStatus, CarryInv, Carried
  <2>2. CASE Written(p)
    <3>1. Contract!Write(res[p])
      BY <1>2, <2>1, <2>2
      DEF UpdateStatus, Written, Upsert, Contract!Write, Verdict, Stored
    <3> QED
      BY <2>1, <3>1 DEF Contract!Next
  <2>3. CASE ~Written(p)
    BY <1>2, <2>3 DEF UpdateStatus
  <2> QED
    BY <2>2, <2>3
<1>3. ASSUME NEW p \in Callers, PublishNotification(p) PROVE Contract!Next \/ Stutter
  <2>1. /\ res[p] \in DOMAIN answers
        /\ res[p] \in written \ Announced
        /\ answers[res[p]].content = on[p]
    BY <1>3, <1>t DEF PublishNotification, CarryInv, Carried
  <2>2. CASE Append1(p)
    <3>1. Contract!Announce(res[p])
      BY <1>3, <2>1, <2>2
      DEF PublishNotification, Append1, Contract!Announce, Verdict, Announced
    <3> QED
      BY <2>1, <3>1 DEF Contract!Next
  <2>3. CASE UNCHANGED notifications
    BY <1>3, <2>3 DEF PublishNotification
  <2> QED
    BY <1>3, <2>2, <2>3 DEF PublishNotification
<1>4. ASSUME NEW c \in Contents, Save(c) PROVE Contract!Next
    BY <1>4 DEF Save, Contract!Next, Contract!Submit
<1>5. ASSUME NEW c \in Contents, DeleteContent(c) PROVE Contract!Next
    BY <1>5 DEF DeleteContent, Contract!Next, Contract!Remove, Stored
<1>6. ASSUME NEW p \in Callers,
             \/ \E c \in Contents : Begin(p, c)
             \/ Acquire(p) \/ InferFail(p) \/ CacheResult(p) \/ Release(p)
             \/ Reread(p) \/ CtxDone(p)
      PROVE  Stutter
    BY <1>6
    DEF Begin, Acquire, InferFail, CacheResult, Release, Reread, CtxDone
<1>7. ASSUME NEW c \in Contents, PublishJob(c) \/ LockExpire(c) \/ CacheExpire(c)
      PROVE  Stutter
    BY <1>7 DEF PublishJob, LockExpire, CacheExpire
<1>8. CASE Crash
    BY <1>8 DEF Crash
<1>9. CASE UNCHANGED vars
    BY <1>9 DEF vars
<1> QED
    BY <1>1, <1>2, <1>3, <1>4, <1>5, <1>6, <1>7, <1>8, <1>9 DEF Next, Step

\* The service implements the contract, whatever is lost, late or crashes:
\* each verdict in a row is one answer of the AI about that content
\* (moderation_service.go:122), no answer is written or announced twice, and
\* no notification (:141) precedes its verdict.
THEOREM ServiceImplementsContract == Spec => ContractSpec
<1>1. Init => Contract!Init
    BY DEF Init, Contract!Init
<1> QED
    BY TypeInit, TypeStep, CarryInit, CarryStep, ContractStep, <1>1, PTL
    DEF Spec, ContractSpec, Contract!Spec

-----------------------------------------------------------------------------
(* What the contract means for a reader of the rows and of the stream      *)

\* Row c holds an answer that was written, that is about c, and its verdict.
Deserved(c) ==
  rows[c].status \in Decided =>
    LET i == rows[c].moderationID IN
    /\ i \in written
    /\ answers[i].content = c
    /\ rows[c].status = Verdict(i)

\* Notification n tells a verdict that was once in the row it names, and no
\* other notification tells the same.
Truthful(n) ==
  LET m == notifications[n] IN
  /\ m.of \in written
  /\ answers[m.of].content = m.content
  /\ m.type = Verdict(m.of)
  /\ \A k \in DOMAIN notifications : notifications[k].of = m.of => k = n

HonestInv ==
  /\ \A c \in Contents : Deserved(c)
  /\ \A n \in DOMAIN notifications : Truthful(n)

\* What the service has said it never takes back.
Irrevocable ==
  /\ \A c \in Contents : rows[c].status = "deleted" => rows'[c] = rows[c]
  /\ \A c \in Contents : rows'[c].status = "unsaved" => rows'[c] = rows[c]
  /\ \A i \in DOMAIN answers : i \in DOMAIN answers' /\ answers'[i] = answers[i]
  /\ \A n \in DOMAIN notifications :
       n \in DOMAIN notifications' /\ notifications'[n] = notifications[n]

LEMMA HonestInit == Init => HonestInv
BY DEF Init, HonestInv, Deserved, Truthful, Decided, Contract!Decided

LEMMA ContractKeeps ==
  ASSUME TypeOK, HonestInv, [Contract!Next]_(Contract!vars)
  PROVE  HonestInv' /\ Irrevocable
<1> DEFINE M == [content : Contents, type : Decided, of : Nat]
<1> USE DEF Decided, Stored, Contract!Decided, Contract!Stored
<1>t. /\ rows \in [Contents -> [status : Contract!Statuses, moderationID : Nat]]
      /\ answers \in Seq(Contract!Answer)
      /\ written \in SUBSET (1 .. Len(answers))
      /\ notifications \in Seq(M)
    BY DEF TypeOK, StoreType, HistType
<1>d. DOMAIN answers = 1 .. Len(answers)
    BY <1>t
<1>a. ASSUME NEW i \in DOMAIN answers PROVE i \in Nat /\ answers[i].content \in Contents
  <2>1. answers[i] \in Contract!Answer
      BY <1>t, <1>d, ElementOfSeq
  <2> QED
      BY <1>d, <2>1 DEF Contract!Answer
<1>h. /\ \A c \in Contents : Deserved(c)
      /\ \A n \in DOMAIN notifications : Truthful(n)
    BY DEF HonestInv
<1>v. ASSUME NEW i, answers'[i] = answers[i] PROVE Verdict(i)' = Verdict(i)
    BY <1>v DEF Verdict, Contract!Verdict
<1>1. ASSUME UNCHANGED <<answers, written, notifications>>,
             NEW c \in Contents, NEW s \in {"pending", "deleted"},
             rows[c].status # "deleted",
             rows' = [rows EXCEPT ![c].status = s]
      PROVE  HonestInv' /\ Irrevocable
  <2>1. /\ rows'[c].status = s
        /\ \A d \in Contents : d # c => rows'[d] = rows[d]
      BY <1>1, <1>t
  <2>2. ASSUME NEW d \in Contents PROVE Deserved(d)'
      BY <1>1, <1>h, <1>v, <2>1 DEF Deserved
  <2>3. ASSUME NEW n \in DOMAIN notifications PROVE Truthful(n)'
      BY <1>1, <1>h, <1>v DEF Truthful
  <2> QED
      BY <1>1, <2>1, <2>2, <2>3 DEF HonestInv, Irrevocable
<1>2. ASSUME NEW c \in Contents, Contract!Submit(c) \/ Contract!Remove(c)
      PROVE  HonestInv' /\ Irrevocable
    BY <1>1, <1>2 DEF Contract!Submit, Contract!Remove
<1>3. ASSUME NEW c \in Contents, Contract!Judge(c) PROVE HonestInv' /\ Irrevocable
  <2>1. /\ UNCHANGED <<rows, written, notifications>>
        /\ \A i \in 1 .. Len(answers) : i \in DOMAIN answers' /\ answers'[i] = answers[i]
      BY <1>3, <1>t DEF Contract!Judge, Contract!Answer
  <2>2. ASSUME NEW d \in Contents PROVE Deserved(d)'
      BY <1>t, <1>h, <1>v, <2>1 DEF Deserved
  <2>3. ASSUME NEW n \in DOMAIN notifications PROVE Truthful(n)'
      BY <1>t, <1>h, <1>v, <2>1 DEF Truthful
  <2> QED
      BY <1>d, <2>1, <2>2, <2>3 DEF HonestInv, Irrevocable
<1>4. ASSUME NEW i \in DOMAIN answers, Contract!Write(i) PROVE HonestInv' /\ Irrevocable
  <2> DEFINE c == answers[i].content
  <2>1. /\ c \in Contents /\ rows[c].status \in Stored
        /\ rows' = [rows EXCEPT ![c] = [status |-> Verdict(i), moderationID |-> i]]
        /\ written' = written \cup {i}
        /\ UNCHANGED <<answers, notifications>>
      BY <1>4, <1>a DEF Contract!Write, Verdict
  <2>2. Deserved(c)'
      BY <1>t, <1>v, <2>1 DEF Deserved
  <2>3. ASSUME NEW d \in Contents, d # c PROVE Deserved(d)'
      BY <1>t, <1>h, <1>v, <2>1, <2>3 DEF Deserved
  <2>4. ASSUME NEW n \in DOMAIN notifications PROVE Truthful(n)'
      BY <1>h, <1>v, <2>1 DEF Truthful
  <2>5. Verdict(i) # "unsaved"
      BY VerdictType
  <2> QED
      BY <1>t, <2>1, <2>2, <2>3, <2>4, <2>5 DEF HonestInv, Irrevocable
<1>5. ASSUME NEW i \in DOMAIN answers, Contract!Announce(i)
      PROVE  HonestInv' /\ Irrevocable
  <2> DEFINE m == [content |-> answers[i].content, type |-> Verdict(i), of |-> i]
             last == Len(notifications) + 1
  <2>1. /\ i \in written
        /\ \A n \in DOMAIN notifications : notifications[n].of # i
        /\ notifications' = Append(notifications, m)
        /\ UNCHANGED <<rows, answers, written>>
      BY <1>5 DEF Contract!Announce, Contract!Announced, Verdict
  <2>6. m \in M /\ m.content = answers[i].content /\ m.type = Verdict(i) /\ m.of = i
      BY <1>a, VerdictType
  <2> HIDE DEF m
  <2>2. /\ DOMAIN notifications' = DOMAIN notifications \cup {last}
        /\ last \notin DOMAIN notifications
        /\ notifications'[last] = m
        /\ \A n \in DOMAIN notifications : notifications'[n] = notifications[n]
      BY <1>t, <2>1, <2>6
  <2>3. ASSUME NEW d \in Contents PROVE Deserved(d)'
      BY <1>h, <1>v, <2>1 DEF Deserved
  <2>4. ASSUME NEW n, n = last PROVE Truthful(n)'
      BY <1>v, <2>1, <2>2, <2>4, <2>6 DEF Truthful
  <2>5. ASSUME NEW n \in DOMAIN notifications PROVE Truthful(n)'
      BY <1>h, <1>v, <2>1, <2>2, <2>6 DEF Truthful
  <2> QED
      BY <2>1, <2>2, <2>3, <2>4, <2>5 DEF HonestInv, Irrevocable
<1>6. CASE UNCHANGED Contract!vars
  <2>1. UNCHANGED <<rows, answers, written, notifications>>
      BY <1>6 DEF Contract!vars
  <2> QED
      BY <1>h, <1>v, <2>1 DEF HonestInv, Irrevocable, Deserved, Truthful
<1> QED
    BY <1>2, <1>3, <1>4, <1>5, <1>6 DEF Contract!Next

LEMMA HonestStep ==
  TypeOK /\ CarryInv /\ HonestInv /\ [Next]_vars => HonestInv' /\ Irrevocable
BY ContractStep, ContractKeeps

\* However many workers and streams there are, and whatever fails: a decided
\* row holds the verdict of an answer the AI gave about that very content
\* (moderation_service.go:112-122), and each notification tells such a verdict,
\* of the content it names and at most once per answer (:134-141).
THEOREM VerdictsAreHonest == Spec => []HonestInv
BY TypeInit, TypeStep, CarryInit, CarryStep, HonestInit, HonestStep, PTL DEF Spec

\* A content that was deleted stays deleted, though a moderation of it may be
\* under way and reach its UPDATE later (content_repository.go's UpdateStatus finds no
\* row); no row, answer or notification is ever withdrawn.
THEOREM NothingIsWithdrawn == Spec => [][Irrevocable]_vars
<1>1. TypeOK /\ CarryInv /\ HonestInv /\ [Next]_vars => [Irrevocable]_vars
    BY HonestStep
<1> QED
    BY TypeInit, TypeStep, CarryInit, CarryStep, HonestInit, HonestStep, <1>1,
       PTL DEF Spec

-----------------------------------------------------------------------------
(* With a single worker a verdict is final                                 *)

OneWorker == \A v, w \in Workers : v = w

Untold(c) == \A n \in DOMAIN notifications : notifications[n].content # c

\* What a single worker found pending nobody else decides, and what it has just
\* decided nobody else announces.
Sole(w) ==
  /\ pc[w] \in {"acquire", "infer", "cache", "release", "update"} =>
       rows[on[w]].status \in {"pending", "deleted"}
  /\ pc[w] \in {"reread", "notify"} =>
       /\ Untold(on[w])
       /\ \/ rows[on[w]].status = "deleted"
          \/ rows[on[w]] = [status |-> Verdict(res[w]), moderationID |-> res[w]]

FinalInv == (\A w \in Workers : Sole(w)) /\ ToldTheVerdict

LEMMA NotificationContent ==
  ASSUME NEW s \in Seq([content : Contents, type : Decided, of : Nat]),
         NEW n \in DOMAIN s
  PROVE  s[n].content \in Contents
<1> DEFINE T == [content : Contents, type : Decided, of : Nat]
<1>1. s \in Seq(T) /\ n \in 1 .. Len(s)
    OBVIOUS
<1>2. s[n] \in T
  <2> HIDE DEF T
  <2> QED
    BY <1>1, ElementOfSeq
<1> QED
    BY <1>2

LEMMA FinalInit == Init => FinalInv
BY DEF Init, FinalInv, Sole, ToldTheVerdict, Told, Callers

\* A step that writes no verdict and announces none keeps FinalInv.
LEMMA FinalFrame ==
  ASSUME TypeOK, FinalInv, UNCHANGED notifications,
         \A i \in 1 .. Len(answers) : Verdict(i)' = Verdict(i),
         \A c \in Contents :
           \/ rows'[c] = rows[c]
           \/ rows'[c].status = "deleted"
           \/ rows[c].status = "unsaved" /\ rows'[c].status = "pending",
         \A w \in Workers :
           \/ pc'[w] = "idle"
           \/ /\ pc'[w] = "acquire" /\ on'[w] \in Contents
              /\ rows'[on'[w]].status = "pending"
           \/ /\ pc'[w] \in {"acquire", "infer", "cache", "release", "update"}
              /\ pc[w] \in {"acquire", "infer", "cache", "release", "update"}
              /\ on'[w] = on[w]
           \/ /\ pc'[w] \in {"reread", "notify"} /\ pc[w] \in {"reread", "notify"}
              /\ on'[w] = on[w] /\ res'[w] = res[w]
  PROVE  FinalInv'
<1>1. \A w \in Workers : pc[w] # "idle" => on[w] \in Contents
    BY DEF TypeOK, CallerType, Callers
<1>2. ASSUME NEW w \in Workers, pc[w] \in {"reread", "notify"}
      PROVE  res[w] \in 1 .. Len(answers)
    BY <1>2 DEF TypeOK, CallerType, HistType, Callers
<1>3. \A n \in DOMAIN notifications : notifications[n].content \in Contents
    BY NotificationContent DEF TypeOK, StoreType
<1>4. ASSUME NEW w \in Workers PROVE Sole(w)'
  <2>1. Sole(w)
    BY DEF FinalInv
  <2>2. CASE pc'[w] \in {"idle", "acquire"} /\ pc[w] \notin {"acquire", "infer", "cache", "release", "update"}
    BY <2>2 DEF Sole
  <2>3. CASE /\ pc'[w] \in {"acquire", "infer", "cache", "release", "update"}
             /\ pc[w] \in {"acquire", "infer", "cache", "release", "update"}
             /\ on'[w] = on[w]
    BY <1>1, <2>1, <2>3 DEF Sole
  <2>4. CASE /\ pc'[w] \in {"reread", "notify"} /\ pc[w] \in {"reread", "notify"}
             /\ on'[w] = on[w] /\ res'[w] = res[w]
    <3>1. /\ on[w] \in Contents /\ Untold(on[w])
          /\ Verdict(res[w])' = Verdict(res[w])
          /\ \/ rows[on[w]].status = "deleted"
             \/ rows[on[w]] = [status |-> Verdict(res[w]), moderationID |-> res[w]]
      BY <1>1, <1>2, <2>1, <2>4 DEF Sole
    <3>2. Untold(on[w])'
      BY <2>4, <3>1 DEF Untold
    <3>3. Verdict(res[w])' = Verdict(res[w])
      BY <3>1
    <3> QED
      BY <2>4, <3>1, <3>2, VerdictType DEF Sole, Decided, Contract!Decided
  <2> QED
    BY <2>1, <2>2, <2>3, <2>4 DEF Sole
<1>5. ToldTheVerdict'
    BY <1>3 DEF FinalInv, ToldTheVerdict, Told, Decided, Contract!Decided
<1> QED
    BY <1>4, <1>5 DEF FinalInv

LEMMA FinalStep ==
  OneWorker /\ TypeOK /\ CarryInv /\ FinalInv /\ [Next]_vars => FinalInv'
<1> SUFFICES ASSUME OneWorker, TypeOK, CarryInv, FinalInv, [Next]_vars PROVE FinalInv'
    OBVIOUS
<1> USE DEF store, caller, hist, Critical
<1>t. /\ rows \in [Contents -> [status : Contract!Statuses, moderationID : Nat]]
      /\ pc \in [Callers -> PCs]
      /\ on \in [Callers -> Contents \cup {Nobody}]
      /\ res \in [Callers -> 0 .. Len(answers)]
      /\ answers \in Seq(Contract!Answer)
      /\ Workers \subseteq Callers
      /\ \A p \in Callers : pc[p] # "idle" => on[p] \in Contents
      /\ \A p \in Callers :
           pc[p] \in {"cache", "update", "reread", "notify"} => res[p] # 0
    BY DEF TypeOK, StoreType, CallerType, HistType, Callers
<1>v. UNCHANGED answers => \A i : Verdict(i)' = Verdict(i)
    BY DEF Verdict, Contract!Verdict
<1>1. ASSUME NEW p \in Callers, NEW c \in Contents, Begin(p, c) PROVE FinalInv'
    BY <1>1, <1>t, <1>v, FinalFrame DEF Begin, PCs
<1>2. ASSUME NEW p \in Callers, Acquire(p) PROVE FinalInv'
    BY <1>2, <1>t, <1>v, FinalFrame DEF Acquire, Goto, Return, PCs
<1>3. ASSUME NEW p \in Callers, Infer(p) PROVE FinalInv'
  <2>1. \A i \in 1 .. Len(answers) : Verdict(i)' = Verdict(i)
    BY <1>3, <1>t DEF Infer, Verdict, Contract!Verdict
  <2> QED
    BY <1>3, <1>t, <2>1, FinalFrame DEF Infer, PCs
<1>4. ASSUME NEW p \in Callers, InferFail(p) PROVE FinalInv'
    BY <1>4, <1>t, <1>v, FinalFrame DEF InferFail, Goto, PCs
<1>5. ASSUME NEW p \in Callers, CacheResult(p) PROVE FinalInv'
    BY <1>5, <1>t, <1>v, FinalFrame DEF CacheResult, Goto, PCs
<1>6. ASSUME NEW p \in Callers, Release(p) PROVE FinalInv'
    BY <1>6, <1>t, <1>v, FinalFrame DEF Release, AfterModerate, Goto, Return, PCs
<1>7. ASSUME NEW p \in Callers, UpdateStatus(p) PROVE FinalInv'
  <2>1. CASE UNCHANGED <<rows, written>> /\ Return(p)
    BY <1>7, <1>t, <1>v, <2>1, FinalFrame DEF UpdateStatus, Return, PCs
  <2>2. CASE Written(p) /\ (Goto(p, "reread") \/ Return(p))
    <3>1. /\ p \in Workers /\ on[p] \in Contents /\ res[p] \in Nat
          /\ rows[on[p]].status = "pending"
          /\ UNCHANGED <<answers, notifications>>
      <4>1. pc[p] = "update" /\ UNCHANGED <<answers, notifications>>
        BY <1>7 DEF UpdateStatus
      <4>2. p \in Workers
        BY <4>1 DEF CarryInv, Carried
      <4>3. rows[on[p]].status \in {"pending", "deleted"}
        BY <4>1, <4>2 DEF FinalInv, Sole
      <4> QED
        BY <1>t, <2>2, <4>1, <4>2, <4>3
        DEF Written, Stored, Contract!Stored, Contract!Decided
    <3>2. Untold(on[p])
      BY <3>1 DEF FinalInv, ToldTheVerdict, Told, Untold, Decided, Contract!Decided
    <3>3. /\ rows'[on[p]] = [status |-> Verdict(res[p]), moderationID |-> res[p]]
          /\ \A c \in Contents : c # on[p] => rows'[c] = rows[c]
      BY <1>t, <2>2, <3>1 DEF Written, Upsert
    <3>4. ASSUME NEW w \in Workers PROVE Sole(w)'
      <4>1. w = p
        BY <3>1 DEF OneWorker
      <4>2. CASE Goto(p, "reread")
        BY <1>t, <1>v, <3>1, <3>2, <3>3, <4>1, <4>2 DEF Sole, Goto, Untold
      <4>3. CASE Return(p)
        BY <1>t, <4>1, <4>3 DEF Sole, Return
      <4> QED
        BY <2>2, <4>2, <4>3
    <3>5. ToldTheVerdict'
      <4> SUFFICES ASSUME NEW n \in DOMAIN notifications PROVE Told(n)'
        BY <3>1 DEF ToldTheVerdict
      <4>1. notifications[n].content \in Contents \ {on[p]}
        BY <3>2, NotificationContent DEF Untold, TypeOK, StoreType
      <4>2. Told(n)
        BY DEF FinalInv, ToldTheVerdict
      <4> QED
        BY <3>1, <3>3, <4>1, <4>2 DEF Told
    <3> QED
      BY <3>4, <3>5 DEF FinalInv
  <2> QED
    BY <1>7, <2>1, <2>2 DEF UpdateStatus
<1>8. ASSUME NEW p \in Callers, Reread(p) PROVE FinalInv'
    BY <1>8, <1>t, <1>v, FinalFrame DEF Reread, Goto, Return, PCs
<1>9. ASSUME NEW p \in Callers, PublishNotification(p) PROVE FinalInv'
  <2>1. CASE UNCHANGED notifications
    BY <1>9, <1>t, <1>v, <2>1, FinalFrame DEF PublishNotification, Return, PCs
  <2>2. CASE Append1(p)
    <3> DEFINE m == [content |-> on[p], type |-> Verdict(res[p]), of |-> res[p]]
               T == [content : Contents, type : Decided, of : Nat]
    <3>1. /\ p \in Workers /\ on[p] \in Contents /\ res[p] \in Nat
          /\ pc[p] = "notify" /\ Return(p)
          /\ UNCHANGED <<rows, answers>>
      BY <1>9, <1>t DEF PublishNotification, CarryInv, Carried
    <3>2. /\ Untold(on[p])
          /\ \/ rows[on[p]].status = "deleted"
             \/ rows[on[p]] = [status |-> Verdict(res[p]), moderationID |-> res[p]]
      BY <3>1 DEF FinalInv, Sole
    <3>3. m \in T /\ notifications \in Seq(T)
      BY <3>1, VerdictType DEF TypeOK, StoreType
    <3>4. notifications' = Append(notifications, m)
      BY <2>2 DEF Append1
    <3>5. /\ DOMAIN notifications' = DOMAIN notifications \cup {Len(notifications) + 1}
          /\ Len(notifications) + 1 \notin DOMAIN notifications
          /\ notifications'[Len(notifications) + 1] = m
          /\ \A n \in DOMAIN notifications : notifications'[n] = notifications[n]
      BY <3>3, <3>4
    <3>6. ToldTheVerdict'
      <4>1. ASSUME NEW n \in DOMAIN notifications PROVE Told(n)'
        <5>1. Told(n) /\ notifications[n].content # on[p]
          BY <3>2 DEF FinalInv, ToldTheVerdict, Untold
        <5> QED
          BY <3>1, <3>5, <5>1 DEF Told
      <4>2. ASSUME NEW n, n = Len(notifications) + 1 PROVE Told(n)'
        <5>1. /\ notifications'[n] = m /\ m.content = on[p]
              /\ m.of = res[p] /\ m.type = Verdict(res[p])
          BY <3>5, <4>2
        <5>2. \A k \in DOMAIN notifications' : notifications'[k].content = on[p] => k = n
          BY <3>2, <3>5, <4>2 DEF Untold
        <5>3. /\ rows[on[p]].status \in Decided \cup {"deleted"}
              /\ rows[on[p]].status \in Decided =>
                   rows[on[p]].moderationID = res[p] /\ rows[on[p]].status = Verdict(res[p])
          BY <3>2, VerdictType DEF Decided, Contract!Decided
        <5> HIDE DEF m
        <5> QED
          BY <3>1, <5>1, <5>2, <5>3 DEF Told
      <4> QED
        BY <3>5, <4>1, <4>2 DEF ToldTheVerdict
    <3>7. ASSUME NEW w \in Workers PROVE Sole(w)'
      <4>1. w = p
        BY <3>1 DEF OneWorker
      <4> QED
        BY <1>t, <3>1, <4>1 DEF Sole, Return
    <3> QED
      BY <3>6, <3>7 DEF FinalInv
  <2> QED
    BY <1>9, <2>1, <2>2 DEF PublishNotification
<1>10. ASSUME NEW p \in Callers, CtxDone(p) PROVE FinalInv'
    BY <1>10, <1>t, <1>v, FinalFrame DEF CtxDone, PCs
<1>11. ASSUME NEW c \in Contents, Save(c) PROVE FinalInv'
    BY <1>11, <1>t, <1>v, FinalFrame DEF Save, PCs
<1>12. ASSUME NEW c \in Contents, PublishJob(c) PROVE FinalInv'
    BY <1>12, <1>t, <1>v, FinalFrame DEF PublishJob, PCs
<1>13. ASSUME NEW c \in Contents, DeleteContent(c) PROVE FinalInv'
    BY <1>13, <1>t, <1>v, FinalFrame DEF DeleteContent, PCs
<1>14. ASSUME NEW c \in Contents, LockExpire(c) PROVE FinalInv'
    BY <1>14, <1>t, <1>v, FinalFrame DEF LockExpire, PCs
<1>15. ASSUME NEW c \in Contents, CacheExpire(c) PROVE FinalInv'
    BY <1>15, <1>t, <1>v, FinalFrame DEF CacheExpire, PCs
<1>16. CASE Crash
    BY <1>16, <1>t, <1>v, FinalFrame DEF Crash, PCs
<1>17. CASE UNCHANGED vars
    BY <1>17, <1>t, <1>v, FinalFrame DEF vars, PCs
<1> QED
    BY <1>1, <1>2, <1>3, <1>4, <1>5, <1>6, <1>7, <1>8, <1>9, <1>10, <1>11,
       <1>12, <1>13, <1>14, <1>15, <1>16, <1>17
    DEF Next, Step

\* With one worker the user is told, at most once, exactly the verdict that the
\* row holds (moderation_service.go:112-141).
THEOREM ToldOnce == ASSUME OneWorker PROVE Spec => []ToldTheVerdict
<1>1. FinalInv => ToldTheVerdict
    BY DEF FinalInv
<1> QED
    BY OneWorker, TypeInit, TypeStep, CarryInit, CarryStep, FinalInit, FinalStep,
       <1>1, PTL DEF Spec

\* With one worker a decided row changes only by deletion, although the status
\* is read before the key is taken and written after it is released
\* (moderation_service.go:45, :59, :122).
THEOREM FirstVerdictStands == ASSUME OneWorker PROVE Spec => DecidedOnce
<1> DEFINE Keeps ==
      \A c \in Contents :
        rows[c].status \in Decided =>
          rows'[c] = rows[c] \/ rows'[c].status = "deleted"
<1>1. ASSUME TypeOK, CarryInv, FinalInv, [Next]_vars PROVE Keeps
  <2> USE DEF store, caller, hist
  <2>r. rows \in [Contents -> [status : Contract!Statuses, moderationID : Nat]]
      BY <1>1 DEF TypeOK, StoreType
  <2>1. ASSUME NEW c \in Contents, Save(c) PROVE Keeps
      BY <2>1, <2>r DEF Save, Decided, Contract!Decided
  <2>2. ASSUME NEW c \in Contents, DeleteContent(c) PROVE Keeps
      BY <2>2, <2>r DEF DeleteContent
  <2>3. ASSUME NEW p \in Callers, UpdateStatus(p) PROVE Keeps
    <3>1. CASE Written(p)
      <4>1. pc[p] = "update"
        BY <2>3 DEF UpdateStatus
      <4>2. p \in Workers
        BY <1>1, <4>1 DEF CarryInv, Carried
      <4>3. rows[on[p]].status \in {"pending", "deleted"}
        BY <1>1, <4>1, <4>2 DEF FinalInv, Sole
      <4> QED
        BY <2>r, <3>1, <4>3 DEF Written, Upsert, Decided, Contract!Decided
    <3>2. CASE UNCHANGED rows
      BY <3>2
    <3> QED
      BY <2>3, <3>1, <3>2 DEF UpdateStatus
  <2>4. ASSUME NEW p \in Callers,
               \/ \E c \in Contents : Begin(p, c)
               \/ Acquire(p) \/ Infer(p) \/ InferFail(p) \/ CacheResult(p)
               \/ Release(p) \/ Reread(p) \/ PublishNotification(p) \/ CtxDone(p)
        PROVE  UNCHANGED rows
      BY <2>4
      DEF Begin, Acquire, Infer, InferFail, CacheResult, Release, Reread,
          PublishNotification, CtxDone
  <2>5. ASSUME NEW c \in Contents, PublishJob(c) \/ LockExpire(c) \/ CacheExpire(c)
        PROVE  UNCHANGED rows
      BY <2>5 DEF PublishJob, LockExpire, CacheExpire
  <2>6. Crash \/ UNCHANGED vars => UNCHANGED rows
      BY DEF Crash, vars
  <2> QED
      BY <1>1, <2>1, <2>2, <2>3, <2>4, <2>5, <2>6 DEF Next, Step
<1> QED
    BY OneWorker, TypeInit, TypeStep, CarryInit, CarryStep, FinalInit, FinalStep,
       <1>1, PTL DEF Spec, DecidedOnce
=============================================================================
