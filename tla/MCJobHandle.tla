---------------------------- MODULE MCJobHandle ----------------------------
(***************************************************************************)
(* Small instances of JobHandle for TLC.                                   *)
(***************************************************************************)
EXTENDS JobHandle, TLC

Interchangeable == Permutations(Callers) \cup Permutations(JobIds)
=============================================================================
