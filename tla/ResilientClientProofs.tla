------------------------ MODULE ResilientClientProofs -----------------------
(***************************************************************************)
(* Theorems about ResilientClient for any finite sets of callers and any   *)
(* trip rule, number of retries and half-open calls: the counts of a       *)
(* generation are about its own calls, the breaker's states mean what the  *)
(* settings of NewCircuitBreakerAIClient say, it moves between them only on*)
(* that evidence, and a call makes a bounded number of attempts.           *)
(***************************************************************************)
EXTENDS ResilientClient, FiniteSetTheorems, TLAPS

Breakers == [state : States, requests : Nat, successes : Nat, failures : Nat]

\* The counts b add up when the calls in F are in flight.
Adds(b, F) == b.requests = Cardinality(F) + b.successes + b.failures

\* A half-open breaker is not yet convinced and has seen no failure, and an open
\* one has admitted no call.
Fits(b) ==
  /\ b.state = "open" => b.requests = 0
  /\ b.state = "half-open" => b.failures = 0 /\ b.successes < MaxRequests

\* A caller that pauses has another attempt.
Pausing == \A p \in Clients : phase[p] = "pause" => left[p] > 0

CountInv == ClientTypeOK /\ Pausing /\ CountsAddUp /\ Fits(breaker)

LEMMA Budget == 0 \in 0 .. Retries /\ Retries \in 0 .. Retries
BY ClientAssumption

LEMMA CallersFinite == ASSUME NEW F \in SUBSET Clients
                       PROVE  IsFiniteSet(F) /\ Cardinality(F) \in Nat
<1>1. IsFiniteSet(Clients)
  BY ClientAssumption, FS_Union DEF Clients
<1> QED
  BY <1>1, FS_Subset, FS_CardinalityType

LEMMA NewGeneration ==
  ASSUME NEW s \in States
  PROVE  /\ Generation(s) \in Breakers
         /\ Adds(Generation(s), {})
         /\ Fits(Generation(s))
<1>1. Cardinality({}) = 0
  BY FS_EmptySet
<1> QED
  BY <1>1, ClientAssumption DEF Generation, Breakers, Adds, Fits

\* What a call finds: the breaker of the calls that are left.
Left == {p \in Clients : Stay[p]}

LEMMA NowOK ==
  ASSUME CountInv
  PROVE  /\ Now \in Breakers /\ Adds(Now, Left) /\ Fits(Now)
         /\ Stay \in [Clients -> BOOLEAN]
<1>1. Stay \in [Clients -> BOOLEAN]
  BY DEF Stay
<1>2. CASE due
  <2>1. Left = {}
    BY <1>2 DEF Left, Stay
  <2>2. \E s \in States : Now = Generation(s)
    BY <1>2 DEF Now, States
  <2> QED BY <1>1, <2>1, <2>2, NewGeneration
<1>3. CASE ~due
  <2>1. Now = breaker
    BY <1>3 DEF Now
  <2>2. Left = InFlight
    BY <1>3 DEF Left, Stay, InFlight, CountInv, ClientTypeOK
  <2> QED BY <1>1, <2>1, <2>2 DEF CountInv, ClientTypeOK, CountsAddUp, Breakers, Adds
<1> QED BY <1>2, <1>3

\* What the outcome of a call of the generation makes of it.
LEMMA OutcomeOK ==
  ASSUME NEW b \in Breakers, NEW F \in SUBSET Clients, NEW p \in F,
         Adds(b, F), Fits(b),
         NEW a, a = Success(b) \/ a = Failure(b)
  PROVE  /\ a \in Breakers /\ Fits(a)
         /\ IF a.state = b.state THEN Adds(a, F \ {p}) ELSE Adds(a, {})
<1>1. IsFiniteSet(F) /\ Cardinality(F) \in Nat /\ Cardinality(F \ {p}) = Cardinality(F) - 1
  BY CallersFinite, FS_RemoveElement
<1>2. /\ b.state \in States /\ b.requests \in Nat
      /\ b.successes \in Nat /\ b.failures \in Nat
  BY DEF Breakers
<1>3. CASE a = Success(b)
  <2>1. CASE b.state = "half-open" /\ b.successes + 1 >= MaxRequests
    <3>1. a = Generation("closed")
      BY <1>3, <2>1 DEF Success
    <3>2. a.state # b.state
      BY <2>1, <3>1 DEF Generation
    <3> QED BY <3>1, <3>2, NewGeneration DEF States
  <2>2. CASE ~(b.state = "half-open" /\ b.successes + 1 >= MaxRequests)
    <3>1. a = [b EXCEPT !.successes = @ + 1]
      BY <1>3, <2>2 DEF Success
    <3>2. /\ a.state = b.state /\ a.requests = b.requests
          /\ a.successes = b.successes + 1 /\ a.failures = b.failures
      BY <3>1 DEF Breakers
    <3>3. a \in Breakers
      BY <1>2, <3>1 DEF Breakers
    <3>4. Adds(a, F \ {p})
      BY <1>1, <1>2, <3>2 DEF Adds
    <3>5. Fits(a)
      BY <1>2, <2>2, <3>2, ClientAssumption DEF Fits
    <3> QED BY <3>2, <3>3, <3>4, <3>5
  <2> QED BY <2>1, <2>2
<1>4. CASE a = Failure(b)
  <2> DEFINE f == [b EXCEPT !.failures = @ + 1]
  <2>1. /\ f \in Breakers /\ f.state = b.state /\ f.requests = b.requests
        /\ f.successes = b.successes /\ f.failures = b.failures + 1
    BY <1>2 DEF Breakers
  <2>2. Adds(f, F \ {p})
    BY <1>1, <1>2, <2>1 DEF Adds
  <2>3. CASE b.state = "half-open" \/ ReadyToTrip(f)
    <3>1. a = Generation("open")
      BY <1>4, <2>3 DEF Failure
    <3>2. CASE b.state # "open"
      BY <3>1, <3>2, NewGeneration DEF States, Generation
    <3>3. CASE b.state = "open"
      <4>1. b.requests = 0 /\ Cardinality(F) >= 1
        BY <1>1, <3>3, CallersFinite DEF Fits
      <4> QED BY <1>1, <1>2, <4>1 DEF Adds
    <3> QED BY <3>2, <3>3
  <2>4. CASE ~(b.state = "half-open" \/ ReadyToTrip(f))
    <3>1. a = f
      BY <1>4, <2>4 DEF Failure
    <3>2. Fits(f)
      <4>1. b.requests >= 1
        BY <1>1, <1>2, CallersFinite DEF Adds
      <4> QED BY <2>1, <2>4, <4>1 DEF Fits
    <3> QED BY <2>1, <2>2, <3>1, <3>2
  <2> QED BY <2>3, <2>4
<1> QED BY <1>3, <1>4

LEMMA AfterOK ==
  ASSUME CountInv, NEW p \in Clients, NEW ok \in BOOLEAN, After(p, ok)
  PROVE  /\ breaker' \in Breakers /\ due' = FALSE /\ current' \in [Clients -> BOOLEAN]
         /\ \A q \in Clients : current'[q] => current[q] /\ q # p
         /\ CountsAddUp' /\ Fits(breaker')
<1> DEFINE b == Now
           a == IF ~Stay[p] THEN b ELSE IF ok THEN Success(b) ELSE Failure(b)
<1>1. /\ b \in Breakers /\ Adds(b, Left) /\ Fits(b)
      /\ Stay \in [Clients -> BOOLEAN] /\ Left \in SUBSET Clients
  BY NowOK DEF Left
<1>2. /\ breaker' = a /\ due' = FALSE
      /\ current' = [q \in Clients |-> Stay[q] /\ q # p /\ a.state = b.state]
  BY DEF After
<1>3. /\ current' \in [Clients -> BOOLEAN]
      /\ \A q \in Clients : current'[q] => current[q] /\ q # p
  BY <1>2 DEF Stay
<1> HIDE DEF b
<1>4. CASE ~Stay[p]
  <2>1. a = b
    BY <1>4
  <2>2. InFlight' = Left
    BY <1>2, <1>4, <2>1 DEF InFlight, Left
  <2> QED BY <1>1, <1>2, <1>3, <2>1, <2>2 DEF CountsAddUp, Adds
<1>5. CASE Stay[p]
  <2>1. a = Success(b) \/ a = Failure(b)
    BY <1>5
  <2>2. p \in Left
    BY <1>5 DEF Left
  <2> HIDE DEF a
  <2>3. /\ a \in Breakers /\ Fits(a)
        /\ IF a.state = b.state THEN Adds(a, Left \ {p}) ELSE Adds(a, {})
    BY <1>1, <2>1, <2>2, OutcomeOK
  <2>4. InFlight' = IF a.state = b.state THEN Left \ {p} ELSE {}
    BY <1>2 DEF InFlight, Left
  <2> QED BY <1>2, <1>3, <2>3, <2>4 DEF CountsAddUp, Adds
<1> QED BY <1>4, <1>5

LEMMA BeginOK ==
  ASSUME CountInv, NEW p \in Clients, BeginCall(p)
  PROVE  CountInv'
<1>1. /\ Now \in Breakers /\ Adds(Now, Left) /\ Fits(Now)
      /\ Stay \in [Clients -> BOOLEAN] /\ Left \in SUBSET Clients
  BY NowOK DEF Left
<1>2. /\ breaker' = [Now EXCEPT !.requests = @ + 1]
      /\ current' = [Stay EXCEPT ![p] = TRUE] /\ Admits(Now)
  BY DEF BeginCall
<1>3. ClientTypeOK'
  <2>1. breaker' \in Breakers
    BY <1>1, <1>2 DEF Breakers
  <2>2. \A q \in Clients : current'[q] => q = p \/ current[q]
    BY <1>1, <1>2 DEF Stay
  <2>3. /\ phase' = [phase EXCEPT ![p] = "infer"]
        /\ ctxLive' = [ctxLive EXCEPT ![p] = TRUE] /\ due' = FALSE
    BY DEF BeginCall
  <2>4. left' \in [Clients -> 0 .. Retries]
    BY Budget DEF BeginCall, CountInv, ClientTypeOK
  <2>5. current' \in [Clients -> BOOLEAN]
    BY <1>1, <1>2
  <2>6. \A q \in Clients : current'[q] => phase'[q] # "idle"
    BY <2>2, <2>3 DEF CountInv, ClientTypeOK
  <2> QED BY <2>1, <2>3, <2>4, <2>5, <2>6 DEF CountInv, ClientTypeOK, Breakers
<1>4. /\ breaker'.state = Now.state /\ breaker'.requests = Now.requests + 1
      /\ breaker'.successes = Now.successes /\ breaker'.failures = Now.failures
  BY <1>1, <1>2 DEF Breakers
<1>5. CountsAddUp'
  <2>1. ~current[p]
    BY DEF BeginCall, CountInv, ClientTypeOK
  <2>2. p \notin Left
    BY <2>1 DEF Left, Stay
  <2>3. InFlight' = Left \cup {p}
    BY <1>1, <1>2 DEF InFlight, Left
  <2>4. Cardinality(InFlight') = Cardinality(Left) + 1 /\ Cardinality(Left) \in Nat
    BY <1>1, <2>2, <2>3, CallersFinite, FS_AddElement
  <2> QED BY <1>1, <1>4, <2>4 DEF CountsAddUp, Adds, Breakers
<1>6. Fits(breaker')
  <2>1. Now.state # "open"
    BY <1>2 DEF Admits
  <2> QED BY <1>1, <1>4, <2>1 DEF Fits
<1>7. Pausing'
  BY DEF BeginCall, CountInv, ClientTypeOK, Pausing
<1> QED BY <1>3, <1>5, <1>6, <1>7 DEF CountInv

LEMMA ReturnOK ==
  ASSUME CountInv, NEW p \in Clients, NEW ok \in BOOLEAN, EndCall(p, ok)
  PROVE  CountInv'
<1>1. /\ phase' = [phase EXCEPT ![p] = "idle"] /\ left' = [left EXCEPT ![p] = 0]
      /\ ctxLive' = [ctxLive EXCEPT ![p] = FALSE] /\ After(p, ok)
  BY DEF EndCall
<1>2. ClientTypeOK'
  <2>1. /\ breaker' \in Breakers /\ due' = FALSE /\ current' \in [Clients -> BOOLEAN]
        /\ \A q \in Clients : current'[q] => current[q] /\ q # p
    BY <1>1, AfterOK
  <2>2. /\ phase' \in [Clients -> {"idle", "infer", "pause"}]
        /\ left' \in [Clients -> 0 .. Retries]
        /\ ctxLive' \in [Clients -> BOOLEAN]
    BY <1>1, Budget DEF CountInv, ClientTypeOK
  <2>3. \A q \in Clients : current'[q] => phase'[q] # "idle"
    BY <1>1, <2>1 DEF CountInv, ClientTypeOK
  <2> QED BY <2>1, <2>2, <2>3 DEF ClientTypeOK, Breakers
<1>3. Pausing'
  BY <1>1 DEF CountInv, ClientTypeOK, Pausing
<1>4. CountsAddUp' /\ Fits(breaker')
  BY <1>1, AfterOK
<1> QED BY <1>2, <1>3, <1>4 DEF CountInv

LEMMA CountInit == ClientInit => CountInv
<1> SUFFICES ASSUME ClientInit PROVE CountInv
  OBVIOUS
<1>1. InFlight = {}
  BY DEF ClientInit, InFlight
<1>2. breaker = Generation("closed") /\ "closed" \in States
  BY DEF ClientInit, States
<1>3. ClientTypeOK
  <2>1. breaker \in Breakers
    BY <1>2, NewGeneration
  <2>2. left \in [Clients -> 0 .. Retries]
    BY Budget DEF ClientInit
  <2> QED BY <2>1, <2>2 DEF ClientInit, ClientTypeOK, Breakers
<1>4. Pausing
  BY DEF ClientInit, Pausing
<1> QED BY <1>1, <1>2, <1>3, <1>4, NewGeneration DEF CountInv, CountsAddUp, Adds

LEMMA RestartOK == ASSUME Restart PROVE CountInv'
<1>1. InFlight' = {}
  BY DEF Restart, InFlight
<1>2. breaker' = Generation("closed") /\ "closed" \in States
  BY DEF Restart, States
<1>3. ClientTypeOK'
  <2>1. breaker' \in Breakers
    BY <1>2, NewGeneration
  <2>2. left' \in [Clients -> 0 .. Retries]
    BY Budget DEF Restart
  <2> QED BY <2>1, <2>2 DEF Restart, ClientTypeOK, Breakers
<1>4. Pausing'
  BY DEF Restart, Pausing
<1> QED BY <1>1, <1>2, <1>3, <1>4, NewGeneration DEF CountInv, CountsAddUp, Adds

LEMMA CountStep == CountInv /\ [ClientNext]_clientVars => CountInv'
<1> SUFFICES ASSUME CountInv, [ClientNext]_clientVars PROVE CountInv'
  OBVIOUS
<1>0. ASSUME ClientTypeOK', Pausing', UNCHANGED <<breaker, current>> PROVE CountInv'
  BY <1>0 DEF CountInv, CountsAddUp, InFlight, Fits
<1>1. ASSUME NEW p \in Clients, BeginCall(p) PROVE CountInv'
  BY <1>1, BeginOK
<1>2. ASSUME NEW p \in Clients, Reply(p) PROVE CountInv'
  BY <1>2, ReturnOK, RestartOK DEF Reply
<1>3. ASSUME NEW p \in Clients, InferError(p) PROVE CountInv'
  <2>1. CASE EndCall(p, FALSE)
    BY <2>1, ReturnOK
  <2>2. CASE ~EndCall(p, FALSE)
    <3>1. ClientTypeOK' /\ Pausing' /\ UNCHANGED <<breaker, current>>
      BY <1>3, <2>2 DEF InferError, CountInv, ClientTypeOK, Pausing
    <3> QED BY <3>1, <1>0
  <2> QED BY <2>1, <2>2
<1>4. ASSUME NEW p \in Clients, Pause(p) PROVE CountInv'
  <2>1. CASE EndCall(p, FALSE)
    BY <2>1, ReturnOK
  <2>2. CASE ~EndCall(p, FALSE)
    <3>1. UNCHANGED <<breaker, due, ctxLive, current>>
      BY <1>4, <2>2 DEF Pause
    <3>2. /\ phase' = [phase EXCEPT ![p] = "infer"]
          /\ left' = [left EXCEPT ![p] = @ - 1]
      BY <1>4, <2>2 DEF Pause
    <3>3. left[p] - 1 \in 0 .. Retries
      BY <1>4, ClientAssumption DEF Pause, CountInv, ClientTypeOK, Pausing
    <3>4. ClientTypeOK'
      BY <3>1, <3>2, <3>3 DEF CountInv, ClientTypeOK, Breakers
    <3>5. Pausing'
      BY <3>2 DEF CountInv, ClientTypeOK, Pausing
    <3> QED BY <3>1, <3>4, <3>5, <1>0
  <2> QED BY <2>1, <2>2
<1>5. ASSUME NEW p \in Clients, ClientCtxDone(p) PROVE CountInv'
  <2>1. ClientTypeOK' /\ Pausing' /\ UNCHANGED <<breaker, current>>
    BY <1>5 DEF ClientCtxDone, CountInv, ClientTypeOK, Pausing
  <2> QED BY <2>1, <1>0
<1>6. CASE Elapse
  <2>1. ClientTypeOK' /\ Pausing' /\ UNCHANGED <<breaker, current>>
    BY <1>6 DEF Elapse, caller, CountInv, ClientTypeOK, Pausing
  <2> QED BY <2>1, <1>0
<1>7. CASE Restart
  BY <1>7, RestartOK
<1>8. CASE UNCHANGED clientVars
  <2>1. ClientTypeOK' /\ Pausing' /\ UNCHANGED <<breaker, current>>
    BY <1>8 DEF clientVars, caller, CountInv, ClientTypeOK, Pausing
  <2> QED BY <2>1, <1>0
<1> QED BY <1>1, <1>2, <1>3, <1>4, <1>5, <1>6, <1>7, <1>8 DEF ClientNext, ClientStep

\* The state is well typed: no call has more attempts than it was given
\* (client.go:70).
THEOREM ClientTypeCorrect == ClientSpec => []ClientTypeOK
BY CountInit, CountStep, PTL DEF ClientSpec, CountInv

\* The counts of a generation are about its own calls, however late calls of
\* earlier generations return (circuit_breaker.go:37-55).
THEOREM ClientCountsAddUp == ClientSpec => []CountsAddUp
BY CountInit, CountStep, PTL DEF ClientSpec, CountInv

\* A half-open breaker admits another call or waits for one it admitted
\* (circuit_breaker.go:27).
THEOREM HalfOpenNeverStuck == ClientSpec => []HalfOpenCanSettle
<1>1. CountInv => HalfOpenCanSettle
  <2> SUFFICES ASSUME CountInv, breaker.state = "half-open", InFlight = {}
               PROVE  breaker.requests < MaxRequests
    BY DEF HalfOpenCanSettle
  <2>1. Cardinality(InFlight) = 0
    BY FS_EmptySet
  <2> QED
    BY <2>1, ClientAssumption DEF CountInv, ClientTypeOK, CountsAddUp, Fits
<1> QED BY <1>1, CountInit, CountStep, PTL DEF ClientSpec

-----------------------------------------------------------------------------
(* How the breaker changes its state                                       *)

\* A half-open breaker has admitted no more than its share, and has no clock.
HalfOpenShare == breaker.state = "half-open" => breaker.requests <= MaxRequests /\ ~due

Opened == breaker.state # "open" /\ breaker'.state = "open"

\* What must have come before a change of state: Moves without its converse.
Evidence ==
  /\ Opened => \E p \in Clients :
       FailureCounted(p) /\ (breaker.state = "closed" => OneMoreTrips)
  /\ breaker.state # "half-open" /\ breaker'.state = "half-open" =>
       breaker.state = "open" /\ due
  /\ breaker.state # "closed" /\ breaker'.state = "closed" =>
       \/ Restart
       \/ /\ breaker.state = "half-open" /\ breaker.requests = MaxRequests
          /\ breaker.failures = 0
          /\ \E p \in Clients : InFlight = {p} /\ EndCall(p, TRUE)

LEMMA SameState ==
  ASSUME breaker'.state = breaker.state
  PROVE  Evidence
BY DEF Evidence, Opened

\* No call of an open breaker is in flight.
LEMMA OpenIsIdle ==
  ASSUME CountInv, breaker.state = "open"
  PROVE  InFlight = {}
<1>1. InFlight \in SUBSET Clients
  BY DEF InFlight
<1>2. IsFiniteSet(InFlight) /\ Cardinality(InFlight) \in Nat
  BY <1>1, CallersFinite
<1>3. Cardinality(InFlight) = 0
  BY <1>2 DEF CountInv, CountsAddUp, Fits, ClientTypeOK
<1> QED BY <1>2, <1>3, FS_EmptySet

\* Conversely, a failure that is enough does open the breaker ...
LEMMA FailureOpens ==
  ASSUME CountInv, NEW p \in Clients, FailureCounted(p),
         breaker.state = "closed" => OneMoreTrips
  PROVE  Opened
<1> DEFINE f == [breaker EXCEPT !.failures = @ + 1]
<1>1. breaker.state \in States /\ breaker.state # "open"
  BY OpenIsIdle DEF FailureCounted, CountInv, ClientTypeOK
<1>2. breaker' = Failure(breaker)
  BY DEF FailureCounted, InFlight, EndCall, After, Stay, Now
<1>3. f.requests = breaker.requests /\ f.failures = breaker.failures + 1
  BY DEF CountInv, ClientTypeOK
<1>4. breaker.state = "half-open" \/ ReadyToTrip(f)
  BY <1>1, <1>3 DEF ReadyToTrip, OneMoreTrips, States
<1>5. breaker' = Generation("open")
  BY <1>2, <1>4 DEF Failure
<1> QED BY <1>1, <1>5 DEF Opened, Generation

\* ... and a success never does.
LEMMA SuccessOpensNot ==
  ASSUME CountInv, NEW p \in Clients, EndCall(p, TRUE)
  PROVE  ~Opened
<1>1. breaker' = IF ~Stay[p] THEN Now ELSE Success(Now)
  BY DEF EndCall, After
<1>2. Now.state = "open" => breaker.state = "open"
  BY DEF Now, Generation
<1>3. Now \in Breakers
  BY NowOK
<1>4. breaker'.state \in {Now.state, "closed"}
  BY <1>1, <1>3 DEF Success, Generation, Breakers
<1> QED BY <1>2, <1>4 DEF Opened

LEMMA EvidenceMoves ==
  ASSUME CountInv, Evidence
  PROVE  Moves
BY FailureOpens, SuccessOpensNot DEF Evidence, Opened, Moves

LEMMA SoleCall ==
  ASSUME NEW F \in SUBSET Clients, NEW p \in F, Cardinality(F) <= 1
  PROVE  F = {p}
<1>1. /\ IsFiniteSet(F \ {p}) /\ Cardinality(F \ {p}) = Cardinality(F) - 1
      /\ Cardinality(F) \in Nat /\ Cardinality(F \ {p}) \in Nat
  BY CallersFinite, FS_RemoveElement
<1>2. Cardinality(F \ {p}) = 0
  BY <1>1
<1>3. F \ {p} = {}
  BY <1>1, <1>2, FS_EmptySet
<1> QED BY <1>3

LEMMA ReturnMoves ==
  ASSUME CountInv, HalfOpenShare, NEW p \in Clients, NEW ok \in BOOLEAN, EndCall(p, ok)
  PROVE  /\ Evidence
         /\ breaker'.state = "half-open" => breaker'.requests <= MaxRequests
<1> DEFINE b == Now
           a == IF ~Stay[p] THEN b ELSE IF ok THEN Success(b) ELSE Failure(b)
<1>1. breaker' = a
  BY DEF EndCall, After
<1>b. /\ breaker \in Breakers /\ breaker.state \in States /\ breaker.requests \in Nat
      /\ breaker.successes \in Nat /\ breaker.failures \in Nat
      /\ MaxRequests \in Nat \ {0}
  BY ClientAssumption DEF CountInv, ClientTypeOK, Breakers
<1>2. CASE due
  <2>1. Stay[p] = FALSE /\ b = Generation(IF breaker.state = "open" THEN "half-open" ELSE "closed")
    BY <1>2 DEF Stay, Now
  <2>2. /\ breaker'.state = (IF breaker.state = "open" THEN "half-open" ELSE "closed")
        /\ breaker'.requests = 0
    BY <1>1, <2>1 DEF Generation
  <2>3. breaker.state # "half-open"
    BY <1>2 DEF HalfOpenShare
  <2>4. Evidence
    <3>1. breaker.state = "open" \/ breaker.state = "closed"
      BY <1>b, <2>3 DEF States
    <3> QED BY <1>2, <2>2, <3>1 DEF Evidence, Opened
  <2>5. 0 <= MaxRequests
    BY <1>b
  <2> QED BY <2>2, <2>4, <2>5
<1>3. CASE ~due /\ ~current[p]
  <2>1. breaker' = breaker
    BY <1>1, <1>3 DEF Stay, Now
  <2> QED BY <2>1, SameState DEF HalfOpenShare
<1>4. CASE ~due /\ current[p]
  <2>1. b = breaker /\ breaker' = IF ok THEN Success(breaker) ELSE Failure(breaker)
    BY <1>1, <1>4 DEF Stay, Now
  <2>2. p \in InFlight /\ InFlight \in SUBSET Clients
    BY <1>4 DEF InFlight
  <2>3. CASE ok /\ breaker.state = "half-open" /\ breaker.successes + 1 >= MaxRequests
    <3>1. breaker'.state = "closed"
      BY <2>1, <2>3 DEF Success, Generation
    <3>2. breaker.requests <= MaxRequests /\ breaker.failures = 0
      BY <2>3 DEF HalfOpenShare, CountInv, Fits
    <3>3. /\ breaker.requests = Cardinality(InFlight) + breaker.successes + breaker.failures
          /\ Cardinality(InFlight) \in Nat
      BY <2>2, CallersFinite DEF CountInv, CountsAddUp
    <3>4. Cardinality(InFlight) >= 1
      <4>1. /\ Cardinality(InFlight \ {p}) = Cardinality(InFlight) - 1
            /\ Cardinality(InFlight \ {p}) \in Nat
        BY <2>2, CallersFinite, FS_RemoveElement
      <4> QED BY <3>3, <4>1
    <3>5. breaker.requests = MaxRequests /\ Cardinality(InFlight) <= 1
      BY <1>b, <2>3, <3>2, <3>3, <3>4
    <3>6. InFlight = {p} /\ EndCall(p, TRUE)
      BY <2>2, <2>3, <3>5, SoleCall
    <3> QED BY <2>3, <3>1, <3>2, <3>5, <3>6 DEF Evidence, Opened
  <2>4. CASE ok /\ ~(breaker.state = "half-open" /\ breaker.successes + 1 >= MaxRequests)
    <3>1. breaker' = [breaker EXCEPT !.successes = @ + 1]
      BY <2>1, <2>4 DEF Success
    <3>2. breaker'.state = breaker.state /\ breaker'.requests = breaker.requests
      BY <1>b, <3>1 DEF Breakers
    <3> QED BY <3>2, SameState DEF HalfOpenShare
  <2>5. CASE ~ok
    <3> DEFINE f == [breaker EXCEPT !.failures = @ + 1]
    <3>1. /\ f.state = breaker.state /\ f.requests = breaker.requests
          /\ f.failures = breaker.failures + 1
      BY <1>b DEF Breakers
    <3>2. breaker' = IF breaker.state = "half-open" \/ ReadyToTrip(f)
                     THEN Generation("open") ELSE f
      BY <2>1, <2>5 DEF Failure
    <3>3. CASE breaker.state # "half-open" /\ ~ReadyToTrip(f)
      <4>1. breaker'.state = breaker.state
        BY <3>1, <3>2, <3>3
      <4> QED BY <3>3, <4>1, SameState
    <3>4. CASE breaker.state = "half-open" \/ ReadyToTrip(f)
      <4>1. breaker'.state = "open"
        BY <3>2, <3>4 DEF Generation
      <4>2. breaker.state = "closed" => OneMoreTrips
        BY <3>1, <3>4 DEF ReadyToTrip, OneMoreTrips
      <4>3. FailureCounted(p)
        BY <1>4, <2>2, <2>5 DEF FailureCounted
      <4> QED BY <4>1, <4>2, <4>3 DEF Evidence, Opened
    <3> QED BY <3>3, <3>4
  <2> QED BY <2>3, <2>4, <2>5
<1> QED BY <1>2, <1>3, <1>4

LEMMA BreakerStep ==
  ASSUME CountInv, CountInv', HalfOpenShare, [ClientNext]_clientVars
  PROVE  Evidence /\ HalfOpenShare'
<1>0. ASSUME UNCHANGED <<breaker, due>> PROVE Evidence /\ HalfOpenShare'
  BY <1>0, SameState DEF HalfOpenShare
<1>1. ASSUME NEW p \in Clients, BeginCall(p) PROVE Evidence /\ HalfOpenShare'
  <2>1. /\ Admits(Now) /\ breaker' = [Now EXCEPT !.requests = @ + 1] /\ due' = FALSE
    BY <1>1 DEF BeginCall
  <2>2. Now \in Breakers /\ breaker \in Breakers
    BY NowOK DEF CountInv, ClientTypeOK, Breakers
  <2>3. breaker'.state = Now.state /\ breaker'.requests = Now.requests + 1
    BY <2>1, <2>2 DEF Breakers
  <2>4. breaker'.state = "half-open" => breaker'.requests <= MaxRequests
    BY <2>1, <2>2, <2>3, ClientAssumption DEF Admits, Breakers
  <2>5. Evidence
    BY <2>2, <2>3
    DEF Now, Generation, Evidence, Opened, HalfOpenShare, Breakers, States
  <2> QED BY <2>1, <2>4, <2>5 DEF HalfOpenShare
<1>2. ASSUME NEW p \in Clients, NEW ok \in BOOLEAN, EndCall(p, ok)
      PROVE  Evidence /\ HalfOpenShare'
  <2>1. due' = FALSE
    BY <1>2 DEF EndCall, After
  <2> QED BY <1>2, <2>1, ReturnMoves DEF HalfOpenShare
<1>3. ASSUME Restart PROVE Evidence /\ HalfOpenShare'
  BY <1>3 DEF Restart, Generation, Evidence, Opened, HalfOpenShare
<1>4. ASSUME NEW p \in Clients, Reply(p) PROVE Evidence /\ HalfOpenShare'
  BY <1>2, <1>3, <1>4 DEF Reply
<1>5. ASSUME NEW p \in Clients, InferError(p) \/ Pause(p) \/ ClientCtxDone(p)
      PROVE  Evidence /\ HalfOpenShare'
  BY <1>0, <1>2, <1>5 DEF InferError, Pause, ClientCtxDone
<1>6. CASE Elapse
  BY <1>6, SameState DEF Elapse, HalfOpenShare
<1>7. CASE UNCHANGED clientVars
  BY <1>0, <1>7 DEF clientVars
<1> QED BY <1>1, <1>3, <1>4, <1>5, <1>6, <1>7 DEF ClientNext, ClientStep

\* The breaker changes its state only on the evidence its settings ask for: it
\* opens on a failure of its own generation that meets the trip rule or is a
\* probe's, and on every such failure; it is half-open only after the open
\* state's timeout; and it closes only on the success of the last of MaxRequests
\* probes none of which failed, unless the process starts again
\* (circuit_breaker.go:19-35).
THEOREM BreakerMovesOnEvidence == ClientSpec => BreakerMoves
<1>1. ClientInit => HalfOpenShare
  BY DEF ClientInit, Generation, HalfOpenShare
<1>2. ASSUME CountInv, CountInv', HalfOpenShare, [ClientNext]_clientVars
      PROVE  HalfOpenShare' /\ Moves
  BY <1>2, BreakerStep, EvidenceMoves
<1>3. /\ CountInv /\ CountInv' /\ HalfOpenShare /\ [ClientNext]_clientVars => HalfOpenShare'
      /\ CountInv /\ CountInv' /\ HalfOpenShare /\ [ClientNext]_clientVars => [Moves]_clientVars
  BY <1>2
<1> QED BY <1>1, <1>3, CountInit, CountStep, PTL DEF ClientSpec, BreakerMoves

-----------------------------------------------------------------------------
(* A call comes to an end                                                  *)

\* The steps a call has left at most: an attempt and a pause for each retry.
StepsLeft(p) ==
  CASE phase[p] = "infer" -> 2 * left[p] + 2
    [] phase[p] = "pause" -> 2 * left[p] + 1
    [] OTHER           -> 0

\* Nothing sets a call back, and each of its own steps brings it nearer its end.
CallsAdvance ==
  \A p \in Clients :
    phase[p] # "idle" =>
      /\ StepsLeft(p) \in 1 .. 2 * Retries + 2 /\ StepsLeft(p)' \in Nat
      /\ \/ /\ UNCHANGED <<phase[p], left[p]>>
            /\ ~(Reply(p) \/ InferError(p) \/ Pause(p))
         \/ StepsLeft(p)' < StepsLeft(p)

LEMMA AttemptMoves ==
  ASSUME CountInv, NEW p \in Clients, Reply(p) \/ InferError(p) \/ Pause(p) \/ Restart
  PROVE  /\ \A q \in Clients : q # p => UNCHANGED <<phase[q], left[q]>> \/ phase'[q] = "idle"
         /\ \/ phase'[p] = "idle"
            \/ phase[p] = "infer" /\ phase'[p] = "pause" /\ left'[p] = left[p]
            \/ phase[p] = "pause" /\ phase'[p] = "infer" /\ left'[p] = left[p] - 1 /\ left[p] > 0
<1>t. /\ phase \in [Clients -> {"idle", "infer", "pause"}]
      /\ left \in [Clients -> 0 .. Retries]
      /\ phase[p] = "pause" => left[p] > 0
  BY DEF CountInv, ClientTypeOK, Pausing
<1>1. CASE Restart
  BY <1>1 DEF Restart
<1>2. ASSUME NEW ok, EndCall(p, ok)
      PROVE  /\ \A q \in Clients : q # p => UNCHANGED <<phase[q], left[q]>>
             /\ phase'[p] = "idle"
  BY <1>2, <1>t DEF EndCall
<1>3. CASE Reply(p)
  BY <1>1, <1>2, <1>3 DEF Reply
<1>4. CASE InferError(p)
  BY <1>2, <1>4, <1>t DEF InferError
<1>5. CASE Pause(p)
  BY <1>2, <1>5, <1>t DEF Pause
<1> QED BY <1>1, <1>3, <1>4, <1>5

LEMMA AdvanceStep ==
  ASSUME CountInv, CountInv', [ClientNext]_clientVars
  PROVE  CallsAdvance
<1>t. \A p \in Clients :
        /\ StepsLeft(p) \in Nat /\ StepsLeft(p)' \in Nat
        /\ phase[p] # "idle" => StepsLeft(p) \in 1 .. 2 * Retries + 2
        /\ left[p] \in 0 .. Retries /\ left'[p] \in 0 .. Retries
        /\ phase[p] \in {"idle", "infer", "pause"} /\ phase'[p] \in {"idle", "infer", "pause"}
  BY ClientAssumption DEF CountInv, ClientTypeOK, StepsLeft
<1>b. ASSUME \A q \in Clients : phase[q] # "idle" =>
               \/ /\ UNCHANGED <<phase[q], left[q]>>
                  /\ ~(Reply(q) \/ InferError(q) \/ Pause(q))
               \/ StepsLeft(q)' < StepsLeft(q)
      PROVE  CallsAdvance
  BY <1>b, <1>t DEF CallsAdvance
<1>e. ASSUME NEW q \in Clients, phase[q] # "idle", phase'[q] = "idle"
      PROVE  StepsLeft(q)' < StepsLeft(q)
  <2>1. StepsLeft(q)' = 0 /\ StepsLeft(q) \in 1 .. 2 * Retries + 2 /\ Retries \in Nat
    BY <1>e, <1>t, ClientAssumption DEF StepsLeft
  <2> QED BY <2>1
<1>a. ASSUME NEW q \in Clients, phase[q] # "idle", Reply(q) \/ InferError(q) \/ Pause(q)
      PROVE  StepsLeft(q)' < StepsLeft(q)
  <2>1. Retries \in Nat /\ left[q] \in Nat /\ left'[q] \in Nat
    BY <1>t, ClientAssumption
  <2>2. CASE phase'[q] = "idle"
    BY <1>a, <1>e, <2>2
  <2>3. CASE phase[q] = "infer" /\ phase'[q] = "pause" /\ left'[q] = left[q]
    BY <2>1, <2>3 DEF StepsLeft
  <2>4. CASE phase[q] = "pause" /\ phase'[q] = "infer" /\ left'[q] = left[q] - 1 /\ left[q] > 0
    BY <2>1, <2>4 DEF StepsLeft
  <2> QED BY <1>a, <2>2, <2>3, <2>4, AttemptMoves
<1>d. ASSUME \A q \in Clients : phase[q] # "idle" =>
               UNCHANGED <<phase[q], left[q]>> \/ phase'[q] = "idle" \/ Reply(q) \/ InferError(q) \/ Pause(q)
      PROVE  CallsAdvance
  <2>1. ASSUME NEW q \in Clients, phase[q] # "idle"
        PROVE  \/ /\ UNCHANGED <<phase[q], left[q]>>
                  /\ ~(Reply(q) \/ InferError(q) \/ Pause(q))
               \/ StepsLeft(q)' < StepsLeft(q)
    BY <1>a, <1>d, <1>e, <2>1
  <2> QED BY <1>b, <2>1
<1>1. ASSUME NEW p \in Clients, BeginCall(p) PROVE CallsAdvance
  <2>1. \A q \in Clients : phase[q] # "idle" => UNCHANGED <<phase[q], left[q]>>
    BY <1>1 DEF BeginCall, CountInv, ClientTypeOK
  <2> QED BY <1>d, <2>1
<1>2. ASSUME NEW p \in Clients, Reply(p) \/ InferError(p) \/ Pause(p) PROVE CallsAdvance
  BY <1>2, <1>d, AttemptMoves
<1>3. CASE Restart
  <2>1. \A q \in Clients : phase'[q] = "idle"
    BY <1>3 DEF Restart
  <2> QED BY <1>d, <2>1
<1>4. ASSUME NEW p \in Clients, ClientCtxDone(p) PROVE CallsAdvance
  BY <1>4, <1>d DEF ClientCtxDone
<1>5. CASE Elapse
  BY <1>5, <1>d DEF Elapse, caller
<1>6. CASE UNCHANGED clientVars
  BY <1>6, <1>d DEF clientVars, caller
<1> QED BY <1>1, <1>2, <1>3, <1>4, <1>5, <1>6 DEF ClientNext, ClientStep

\* A call of the client makes at most Retries + 1 attempts with a pause
\* between two, whatever the breaker and the other callers do meanwhile
\* (client.go:70-102).
THEOREM ClientCallsAdvance == ClientSpec => [][CallsAdvance]_clientVars
<1>1. CountInv /\ CountInv' /\ [ClientNext]_clientVars => [CallsAdvance]_clientVars
  BY AdvanceStep
<1> QED BY <1>1, CountInit, CountStep, PTL DEF ClientSpec
=============================================================================
