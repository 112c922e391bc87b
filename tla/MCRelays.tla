------------------------------ MODULE MCRelays ------------------------------
(***************************************************************************)
(* Small instances of ServerRelays.  All the two relays share is the life  *)
(* of the process, which either may see end at any time, so a behaviour    *)
(* runs one of them and leaves the other at rest: every behaviour of       *)
(* either is explored without their product.                               *)
(***************************************************************************)
EXTENDS ServerRelays, TLC

VARIABLE running           \* the relay this behaviour is about

vars == <<running, serverVars>>

Init == ServerInit /\ running \in {"bridge", "dead"}

Next ==
  /\ UNCHANGED running
  /\ \/ running = "bridge" /\ UNCHANGED dead
     \/ running = "dead" /\ UNCHANGED bridge
  /\ ServerNext

BridgeSubscribes == running = "bridge" /\ Subscribe /\ UNCHANGED <<running, dead>>

MonitorSubscribes == running = "dead" /\ StartMonitor /\ UNCHANGED <<running, bridge>>

\* NotifyFairness and DLQFairness; the relay at rest is not asked to subscribe.
Spec ==
  /\ Init /\ [][Next]_vars
  /\ BridgeFairness /\ WF_vars(BridgeSubscribes)
  /\ MonitorFairness /\ WF_vars(MonitorSubscribes)
=============================================================================
