--------------------------- MODULE MCSubscription ---------------------------
(***************************************************************************)
(* Small instances of Subscription for TLC.                                *)
(***************************************************************************)
EXTENDS Subscription, TLC

Interchangeable == Permutations(Callers) \cup Permutations(SubIds)
=============================================================================
