------------------------ MODULE MCEventStreamHistory ------------------------
(***************************************************************************)
(* A small instance of EventStreamHistory for TLC.                         *)
(***************************************************************************)
EXTENDS EventStreamHistory
=============================================================================
