----------------------------- MODULE MCAdapters -----------------------------
(***************************************************************************)
(* Small instances of three parts that are called one by one and share no  *)
(* variable: WithCacheLock (CacheLock), StreamModerationResults            *)
(* (ResultStream) and the client of the AI server (ResilientClient).  A    *)
(* behaviour runs one of them and leaves the others at rest: every         *)
(* behaviour of each is explored without their product.                    *)
(***************************************************************************)
EXTENDS CacheLock, ResultStream, ResilientClient, TLC

VARIABLE running           \* the component this behaviour is about

vars == <<running, lockVars, streamVars, clientVars>>

Init ==
  /\ LockInit /\ StreamInit /\ ClientInit
  /\ running \in {"lock", "stream", "client"}

Next ==
  /\ UNCHANGED running
  /\ \/ running = "lock" /\ LockNext /\ UNCHANGED <<streamVars, clientVars>>
     \/ running = "stream" /\ StreamNext /\ UNCHANGED <<lockVars, clientVars>>
     \/ running = "client" /\ ClientNext /\ UNCHANGED <<lockVars, streamVars>>

Spec == Init /\ [][Next]_vars /\ LockFairness /\ ClientFairness
=============================================================================
