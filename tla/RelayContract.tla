---------------------------- MODULE RelayContract ---------------------------
(***************************************************************************)
(* What a subscriber that passes messages on promises: a message is taken  *)
(* off its consumer only once it has been passed on.  It may be passed on  *)
(* more than once, and a consumer that is deleted forgets all it was told, *)
(* so that every message is due again.                                     *)
(***************************************************************************)
CONSTANT Items             \* messages

VARIABLES
  posted,                  \* the messages there are
  forwarded,               \* those passed on at least once
  settled                  \* those acknowledged

vars == <<posted, forwarded, settled>>

Init == posted = {} /\ forwarded = {} /\ settled = {}

Post(i) ==
  /\ i \notin posted
  /\ posted' = posted \cup {i}
  /\ UNCHANGED <<forwarded, settled>>

Forward(i) ==
  /\ i \in posted
  /\ forwarded' = forwarded \cup {i}
  /\ UNCHANGED <<posted, settled>>

Settle(i) ==
  /\ i \in forwarded
  /\ settled' = settled \cup {i}
  /\ UNCHANGED <<posted, forwarded>>

Replay ==
  /\ settled' = {}
  /\ UNCHANGED <<posted, forwarded>>

Next == (\E i \in Items : Post(i) \/ Forward(i) \/ Settle(i)) \/ Replay

Spec == Init /\ [][Next]_vars
=============================================================================
