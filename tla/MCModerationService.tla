------------------------ MODULE MCModerationService ------------------------
(***************************************************************************)
(* Small instances of ModerationService: callers and contents are model    *)
(* values, given in each .cfg.  Callers of one kind are interchangeable.   *)
(***************************************************************************)
EXTENDS ModerationService, TLC

Symmetry == Permutations(Workers) \cup Permutations(Contents)
=============================================================================
