---------------------------- MODULE ServerProcess ---------------------------
(***************************************************************************)
(* cmd/server/main.go: the life of a server process, as far as the         *)
(* subscriptions it opens in goroutines depend on it.  A signal cancels    *)
(* their context and the process ends some time later, without waiting for *)
(* them; log.Fatal and a crash end it at once.                             *)
(***************************************************************************)
EXTENDS Naturals

CONSTANT MaxRuns           \* bound: process starts

ASSUME RunsAssumption == MaxRuns \in Nat \ {0}

VARIABLES
  proc,                    \* the process serves, is shutting down, or is down
  runs                     \* counted against MaxRuns

process == <<proc, runs>>

ProcessInit == proc = "serving" /\ runs = 1

ProcessTypeOK == proc \in {"serving", "stopping", "down"} /\ runs \in 1 .. MaxRuns

Up == proc # "down"

\* The supervisor starts the process again.
Boot ==
  /\ proc = "down" /\ runs < MaxRuns
  /\ proc' = "serving" /\ runs' = runs + 1

\* SIGINT or SIGTERM: cancel() ends the context of every subscription.
Signal == proc = "serving" /\ proc' = "stopping" /\ UNCHANGED runs

\* main returns when the servers have stopped; or log.Fatal, or a crash.
Ends == Up /\ proc' = "down" /\ UNCHANGED runs
=============================================================================
