--------------------------- MODULE MCEventStream ---------------------------
(***************************************************************************)
(* Small instances of EventStream for TLC: the sets are in the .cfg files. *)
(* Queues and jobs are interchangeable; the tasks are not, one of them     *)
(* being the poller.                                                       *)
(***************************************************************************)
EXTENDS EventStream, TLC

Interchangeable == Permutations(Queues) \cup Permutations(JobIds)
=============================================================================
