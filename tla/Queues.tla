------------------------------- MODULE Queues -------------------------------
(***************************************************************************)
(* What the properties say of sequences used as queues.                    *)
(***************************************************************************)
EXTENDS Naturals, Sequences, FiniteSets, Functions

\* How often m is in the queue s.
Occurrences(m, s) == Cardinality({i \in DOMAIN s : s[i] = m})

\* A queue of numbers in which a later one is greater.
Increasing(s) == \A i, j \in DOMAIN s : i < j => s[i] < s[j]

\* The queue s holds numbers of D, in order, and none of D is missing before
\* its last.
PrefixOf(s, D) ==
  /\ Increasing(s) /\ Range(s) \subseteq D
  /\ \A i \in Range(s) : \A j \in D : j < i => j \in Range(s)
=============================================================================
