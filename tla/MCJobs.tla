------------------------------- MODULE MCJobs -------------------------------
(***************************************************************************)
(* Instances of Jobs for TLC.  Workers are interchangeable, and so are     *)
(* operators; job ids are ordered and are not.                             *)
(***************************************************************************)
EXTENDS Jobs, TLC

WorkerSymmetry == Permutations(Workers)
OperatorSymmetry == Permutations(Operators)
ProcessSymmetry == WorkerSymmetry \cup OperatorSymmetry
=============================================================================
