-------------------------- MODULE MCDailyOperations --------------------------
(***************************************************************************)
(* Instances of DailyOperations for TLC.                                   *)
(***************************************************************************)
EXTENDS DailyOperations, TLC

CallerSymmetry == Permutations(Callers)
=============================================================================
