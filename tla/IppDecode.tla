----------------------------- MODULE IppDecode -----------------------------
(***************************************************************************)
(* How the client reads a printer and a job out of an IPP reply            *)
(* (ipp-async/src/model.rs and the decode loops of client.rs).             *)
(*                                                                         *)
(* The attributes of a queue or a job are abstracted to one integer, the   *)
(* `printer-state' or `job-state' code: it is the attribute that decides   *)
(* whether the group decodes, and two groups are equal exactly when their  *)
(* codes are.  A decoded state is named by its code.                       *)
(***************************************************************************)
EXTENDS Integers

CONSTANTS
    Queues,     \* names of queues
    JobIds,     \* job ids; cupsd numbers jobs across all its queues
    None        \* absence: the Rust `None', or a group a reply does not have

PrinterStates == 3..5
JobStates == 3..9

\* PrinterState::from_ipp and JobState::from_ipp: `None' stands for Err.
PrinterStateFromIpp(v) == IF v \in PrinterStates THEN v ELSE None
JobStateFromIpp(v) == IF v \in JobStates THEN v ELSE None

\* What is kept of a printer and of a job.  The key (a printer's name, a
\* job's id) is the index under which the record is found.
Printers == [state : PrinterStates, isDefault : BOOLEAN]
Jobs == [printer : Queues, state : JobStates]

\* A reply maps a key to the attribute code of its group, or to None when
\* it has no group for that key.  A group that does not decode is skipped.
DecodePrinters(reply, default) ==
    [q \in Queues |->
        IF PrinterStateFromIpp(reply[q]) = None
        THEN None
        ELSE [state |-> PrinterStateFromIpp(reply[q]), isDefault |-> q = default]]

DecodeJobs(reply) ==
    [j \in JobIds |->
        IF reply[j] = None \/ JobStateFromIpp(reply[j].code) = None
        THEN None
        ELSE [printer |-> reply[j].printer,
              state |-> JobStateFromIpp(reply[j].code)]]
=============================================================================
