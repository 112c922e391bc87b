--------------------------- MODULE ResilientClient --------------------------
(***************************************************************************)
(* internal/adapter/outbound/triton: CircuitBreakerAIClient around         *)
(* TritonClient, called by concurrent pool workers, which have a deadline, *)
(* and gRPC streams, which have none.  The retries of a text call happen   *)
(* inside one execution of the breaker.                                    *)
(*                                                                         *)
(* The breaker itself is gobreaker, an external library: a generation of   *)
(* counts lives from one state change, or one interval of the closed       *)
(* state, to the next, and the outcome of a call that was admitted in an   *)
(* earlier generation is ignored.  A timeout or interval that has passed   *)
(* takes effect when the next call begins or ends.                         *)
(***************************************************************************)
EXTENDS Naturals, FiniteSets

CONSTANTS
  Workers,                 \* callers with a deadline (JobTimeout)
  Streams,                 \* callers without one
  Retries,                 \* further attempts of a text call
  MaxRequests,             \* the calls a half-open breaker admits
  MinRequests,             \* the least number of calls the trip rule looks at
  RatioNum, RatioDen,      \* its failure ratio
  MaxWindow                \* bound: calls admitted in one interval

ASSUME ClientAssumption ==
  /\ IsFiniteSet(Workers) /\ IsFiniteSet(Streams)
  /\ Workers \cap Streams = {}
  /\ Retries \in Nat
  /\ MaxRequests \in Nat \ {0}
  /\ MinRequests \in Nat \ {0}
  /\ RatioNum \in Nat \ {0} /\ RatioDen \in Nat \ {0}
  /\ RatioNum <= RatioDen
  /\ MaxWindow \in Nat \ {0}

VARIABLES
  breaker,                 \* its state and the counts of its generation
  due,                     \* its timeout or interval has passed
  phase,                   \* the caller waits for Triton, for its next
                           \* attempt, or is outside the client
  left,                    \* the attempts it has left after this one
  ctxLive,                 \* its context is not done
  current                  \* it was admitted in the breaker's generation

caller == <<phase, left, ctxLive>>
clientVars   == <<breaker, due, caller, current>>

Clients == Workers \cup Streams
States  == {"closed", "open", "half-open"}

Generation(s) == [state |-> s, requests |-> 0, successes |-> 0, failures |-> 0]

ClientInit ==
  /\ breaker = Generation("closed")
  /\ due = FALSE
  /\ phase = [p \in Clients |-> "idle"]
  /\ left = [p \in Clients |-> 0]
  /\ ctxLive = [p \in Clients |-> FALSE]
  /\ current = [p \in Clients |-> FALSE]

-----------------------------------------------------------------------------
(* gobreaker with the settings of NewCircuitBreakerAIClient                *)

\* currentState: what a call finds once the clock has been looked at.
Now ==
  IF ~due THEN breaker
  ELSE Generation(IF breaker.state = "open" THEN "half-open" ELSE "closed")

\* The calls of the generation the clock leaves in place.
Stay == [p \in Clients |-> current[p] /\ ~due]

TripsOnCount(b) == b.failures >= MinRequests

\* ReadyToTrip.  The quotient of the two counts is compared with 0.6; the
\* rounding of either side does not change the outcome.
ReadyToTrip(b) ==
  b.requests >= MinRequests /\ b.failures * RatioDen >= RatioNum * b.requests

\* beforeRequest: an open breaker turns the call away, and so does a half-open
\* one that has admitted its share.
Admits(b) ==
  \/ b.state = "closed" /\ b.requests < MaxWindow
  \/ b.state = "half-open" /\ b.requests < MaxRequests

SuccessLate(b) ==
  IF b.state = "half-open" /\ b.successes + 1 > MaxRequests
  THEN Generation("closed")
  ELSE [b EXCEPT !.successes = @ + 1]

\* onSuccess.  A half-open breaker counts no failure without leaving, so its
\* consecutive successes are all its successes.
Success(b) ==
  IF b.state = "half-open" /\ b.successes + 1 >= MaxRequests
  THEN Generation("closed")
  ELSE [b EXCEPT !.successes = @ + 1]

\* onFailure: the trip rule is looked at on failures only.
Failure(b) ==
  LET f == [b EXCEPT !.failures = @ + 1] IN
  IF b.state = "half-open" \/ ReadyToTrip(f) THEN Generation("open") ELSE f

AfterAnyGeneration(p, ok) ==
  LET b == Now
      a == IF ok THEN Success(b) ELSE Failure(b) IN
  /\ breaker' = a
  /\ due' = FALSE
  /\ current' = [q \in Clients |-> Stay[q] /\ q # p /\ a.state = b.state]

AfterForgotten(p, ok) ==
  LET b == Now
      a == IF ~Stay[p] THEN b ELSE IF ok THEN Success(b) ELSE Failure(b) IN
  /\ breaker' = a
  /\ due' = FALSE
  /\ current' = [q \in Clients |-> Stay[q] /\ a.state = b.state]

\* afterRequest: only the outcome of a call of this generation is counted.
After(p, ok) ==
  LET b == Now
      a == IF ~Stay[p] THEN b ELSE IF ok THEN Success(b) ELSE Failure(b) IN
  /\ breaker' = a
  /\ due' = FALSE
  /\ current' = [q \in Clients |-> Stay[q] /\ q # p /\ a.state = b.state]

-----------------------------------------------------------------------------
(* CircuitBreakerAIClient.ModerateText and ModerateImage                   *)

\* A call is admitted; a text call may try again, an image call may not.  (A
\* call that is turned away returns an error at once and changes nothing: a
\* breaker whose time has come turns nobody away.)
BeginCall(p) ==
  /\ phase[p] = "idle" /\ Admits(Now)
  /\ breaker' = [Now EXCEPT !.requests = @ + 1]
  /\ due' = FALSE
  /\ current' = [Stay EXCEPT ![p] = TRUE]
  /\ phase' = [phase EXCEPT ![p] = "infer"]
  /\ \E n \in {0, Retries} : left' = [left EXCEPT ![p] = n]
  /\ ctxLive' = [ctxLive EXCEPT ![p] = TRUE]

\* Execute returns.
EndCall(p, ok) ==
  /\ phase' = [phase EXCEPT ![p] = "idle"]
  /\ left' = [left EXCEPT ![p] = 0]
  /\ ctxLive' = [ctxLive EXCEPT ![p] = FALSE]
  /\ After(p, ok)

\* The process starts again with a breaker that remembers nothing.
Restart ==
  /\ breaker' = Generation("closed")
  /\ due' = FALSE
  /\ phase' = [p \in Clients |-> "idle"]
  /\ left' = [p \in Clients |-> 0]
  /\ ctxLive' = [p \in Clients |-> FALSE]
  /\ current' = [p \in Clients |-> FALSE]

\* What Triton may answer: a score, nothing that is a score, a score outside 0
\* to 1, or a tensor without contents (raw outputs).
Answers == {"scored", "unscored", "out of range", "raw"}

\* The score is checked; an answer without one has the score 0.
NewModerationResult(a) == IF a = "out of range" THEN "error" ELSE "result"

\* parseTextModerationResponse reads the contents of every tensor unasked.
Parsed(a) == IF a = "raw" THEN "panic" ELSE NewModerationResult(a)

\* The breaker counts a panic as a failure and lets it pass on: the gRPC
\* server recovers it, a pool worker does not and the process dies.
Reply(p) ==
  /\ phase[p] = "infer"
  /\ \E a \in Answers :
       IF Parsed(a) = "panic" /\ p \in Workers THEN Restart
       ELSE EndCall(p, Parsed(a) = "result")

InferErrorDetached(p) ==
  /\ phase[p] = "infer" /\ ctxLive[p]
  /\ \/ /\ left[p] > 0
        /\ phase' = [phase EXCEPT ![p] = "pause"]
        /\ UNCHANGED <<breaker, due, left, ctxLive, current>>
     \/ left[p] = 0 /\ EndCall(p, FALSE)

\* ModelInfer fails, by itself or because the context is done.
InferError(p) ==
  /\ phase[p] = "infer"
  /\ \/ /\ left[p] > 0
        /\ phase' = [phase EXCEPT ![p] = "pause"]
        /\ UNCHANGED <<breaker, due, left, ctxLive, current>>
     \/ left[p] = 0 /\ EndCall(p, FALSE)

\* The select between 100 milliseconds and ctx.Done(), which may take either
\* when both are there.
Pause(p) ==
  /\ phase[p] = "pause"
  /\ \/ /\ phase' = [phase EXCEPT ![p] = "infer"]
        /\ left' = [left EXCEPT ![p] = @ - 1]
        /\ UNCHANGED <<breaker, due, ctxLive, current>>
     \/ ~ctxLive[p] /\ EndCall(p, FALSE)

-----------------------------------------------------------------------------
(* The environment                                                         *)

ClientCtxDone(p) ==
  /\ phase[p] # "idle" /\ ctxLive[p]
  /\ ctxLive' = [ctxLive EXCEPT ![p] = FALSE]
  /\ UNCHANGED <<breaker, due, phase, left, current>>

\* The closed state's interval or the open state's timeout passes; the
\* half-open state has none.
Elapse ==
  /\ ~due /\ breaker.state # "half-open"
  /\ due' = TRUE
  /\ UNCHANGED <<breaker, caller, current>>

ClientStep(p) ==
  BeginCall(p) \/ Reply(p) \/ InferError(p) \/ Pause(p) \/ ClientCtxDone(p)

ClientNext == (\E p \in Clients : ClientStep(p)) \/ Elapse \/ Restart

ClientSpec == ClientInit /\ [][ClientNext]_clientVars

\* A call whose context is done fails.
DeadlineError(p) == InferError(p) /\ ~ctxLive[p]

\* Goroutines run and a worker's deadline passes; Triton need not answer and a
\* peer need not cancel.
ClientFairness ==
  /\ \A p \in Clients : WF_clientVars(DeadlineError(p)) /\ WF_clientVars(Pause(p))
  /\ \A w \in Workers : WF_clientVars(ClientCtxDone(w))
-----------------------------------------------------------------------------
(* What the callers may rely on                                            *)

InFlight == {p \in Clients : current[p]}

ClientTypeOK ==
  /\ breaker \in [state : States, requests : Nat, successes : Nat, failures : Nat]
  /\ due \in BOOLEAN
  /\ phase \in [Clients -> {"idle", "infer", "pause"}]
  /\ left \in [Clients -> 0 .. Retries]
  /\ ctxLive \in [Clients -> BOOLEAN]
  /\ current \in [Clients -> BOOLEAN]
  /\ \A p \in Clients : current[p] => phase[p] # "idle"

\* The counts of a generation are about its own calls: each call admitted in it
\* is in flight, or succeeded, or failed, whatever calls of earlier
\* generations came back in the meantime.
CountsAddUp ==
  breaker.requests =
    Cardinality(InFlight) + breaker.successes + breaker.failures

\* A half-open breaker is never stuck on its own account: it admits another
\* call or waits for one it admitted.
HalfOpenCanSettle ==
  breaker.state = "half-open" =>
    breaker.requests < MaxRequests \/ InFlight # {}

\* With one more failure the calls of the interval, those in flight included,
\* are enough and failed often enough.
OneMoreTrips ==
  /\ breaker.requests >= MinRequests
  /\ (breaker.failures + 1) * RatioDen >= RatioNum * breaker.requests

\* A call of the breaker's generation fails, and no clock has ended that
\* generation before.
FailureCounted(p) == p \in InFlight /\ ~due /\ EndCall(p, FALSE)

\* The evidence on which the breaker changes its state, whatever calls of
\* earlier generations come back in the meantime:
\*  - it opens on a failure of its own generation, of a probe or one that meets
\*    the trip rule, and on each of these; never on a success, although a
\*    success, too, may leave the rule met;
\*  - it is half-open only after the open state's timeout;
\*  - it closes on a success only, the last of exactly MaxRequests probes, none
\*    of which failed.  Nothing else closes it but a process that starts again.
Moves ==
  LET from   == breaker.state
      to     == breaker'.state
      opened == from # "open" /\ to = "open" IN
  /\ opened <=> \E p \in Clients :
       FailureCounted(p) /\ (from = "closed" => OneMoreTrips)
  /\ (\E p \in Clients : EndCall(p, TRUE)) => ~opened
  /\ from # "half-open" /\ to = "half-open" => from = "open" /\ due
  /\ from # "closed" /\ to = "closed" =>
       \/ Restart
       \/ /\ from = "half-open" /\ breaker.requests = MaxRequests
          /\ breaker.failures = 0
          /\ \E p \in Clients : InFlight = {p} /\ EndCall(p, TRUE)

\* The breaker changes its state on the evidence that its settings ask for, and
\* whenever there is enough of it to open (circuit_breaker.go:20-29).
BreakerMoves == [][Moves]_clientVars

\* A half-open breaker that admits nobody any more settles, unless a stream
\* without a deadline holds one of its places.
Saturated == breaker.state = "half-open" /\ breaker.requests = MaxRequests
HalfOpenSettles == []<>(~Saturated \/ \E s \in Streams : current[s])
=============================================================================
