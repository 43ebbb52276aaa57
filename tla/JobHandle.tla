----------------------------- MODULE JobHandle -----------------------------
(***************************************************************************)
(* IppPrinter::create_job and IppJob (ipp-async/src/client.rs): a job that *)
(* stays open while documents are added one at a time, until it is closed  *)
(* or cancelled, or the handle is dropped.  A call borrows the handle, so  *)
(* one caller has one request under way; close and cancel consume it.      *)
(***************************************************************************)
EXTENDS JobServer

VARIABLES
    pc,         \* where each caller is with its handle
    id,         \* the handle's job id, or None
    closed,     \* the handle's `closed' flag
    sent,       \* how many documents the caller has tried to add
    acked,      \* the documents whose add_document returned Ok
    last,       \* whether the document being added is marked as the last
    ended       \* how close ended: "ok", "error", or "none"

handleVars == <<pc, id, closed, sent, acked, last, ended>>
vars == <<serverVars, handleVars>>

Locations == {"idle", "creating", "held", "adding", "closing", "cancelling", "over"}

\* Every variable is of its type.
TypeOK ==
    /\ ServerTypeOK
    /\ pc \in [Callers -> Locations]
    /\ id \in [Callers -> JobIds \cup {None}]
    /\ closed \in [Callers -> BOOLEAN]
    /\ sent \in [Callers -> 0..MaxDocs]
    /\ acked \in [Callers -> SUBSET Documents]
    /\ last \in [Callers -> BOOLEAN]
    /\ ended \in [Callers -> {"none", "ok", "error"}]

Init ==
    /\ ServerInit
    /\ pc = [c \in Callers |-> "idle"]
    /\ id = [c \in Callers |-> None]
    /\ closed = [c \in Callers |-> FALSE]
    /\ sent = [c \in Callers |-> 0]
    /\ acked = [c \in Callers |-> {}]
    /\ last = [c \in Callers |-> FALSE]
    /\ ended = [c \in Callers |-> "none"]

Goto(c, l) == pc' = [pc EXCEPT ![c] = l]

-----------------------------------------------------------------------------
(* create_job. *)

Begin(c) ==
    /\ pc[c] = "idle"
    /\ Post(c, CreateJob(c))
    /\ Goto(c, "creating")
    /\ UNCHANGED <<jobState, docs, id, closed, sent, acked, last, ended>>

\* Mutant: the job id of the reply is taken as it is.
CreatedUnchecked(c) ==
    /\ pc[c] = "creating" /\ Succeeds(c)
    /\ id' = [id EXCEPT ![c] = reply[c].job]
    /\ Rest(c)
    /\ Goto(c, "held")
    /\ UNCHANGED <<jobState, docs, closed, sent, acked, last, ended>>

Created(c) ==
    /\ pc[c] = "creating" /\ Succeeds(c) /\ reply[c].job # None
    /\ id' = [id EXCEPT ![c] = reply[c].job]
    /\ Rest(c)
    /\ Goto(c, "held")
    /\ UNCHANGED <<jobState, docs, closed, sent, acked, last, ended>>

\* An error, or a reply without a job id: there is no handle.
CreateFails(c) ==
    /\ pc[c] = "creating" /\ Fails(c)
    /\ Rest(c)
    /\ Goto(c, "over")
    /\ UNCHANGED <<jobState, docs, id, closed, sent, acked, last, ended>>

-----------------------------------------------------------------------------
(* add_document.  It does not look at `closed'. *)

AddDocument(c, isLast) ==
    /\ pc[c] = "held" /\ sent[c] < MaxDocs
    /\ sent' = [sent EXCEPT ![c] = @ + 1]
    /\ last' = [last EXCEPT ![c] = isLast]
    /\ Post(c, SendDocument(c, id[c], sent[c] + 1, isLast))
    /\ Goto(c, "adding")
    /\ UNCHANGED <<jobState, docs, id, closed, acked, ended>>

\* Mutants: any reply counts as success; a document that is not the last
\* closes the handle too.
AddedAnyStatus(c) ==
    /\ pc[c] = "adding" /\ reply[c] # None
    /\ closed' = [closed EXCEPT ![c] = @ \/ last[c]]
    /\ acked' = [acked EXCEPT ![c] = @ \cup {awaiting[c].doc}]
    /\ Rest(c)
    /\ Goto(c, "held")
    /\ UNCHANGED <<jobState, docs, id, sent, last, ended>>

AddedClosing(c) ==
    /\ pc[c] = "adding" /\ Succeeds(c)
    /\ closed' = [closed EXCEPT ![c] = TRUE]
    /\ acked' = [acked EXCEPT ![c] = @ \cup {awaiting[c].doc}]
    /\ Rest(c)
    /\ Goto(c, "held")
    /\ UNCHANGED <<jobState, docs, id, sent, last, ended>>

Added(c) ==
    /\ pc[c] = "adding" /\ Succeeds(c)
    /\ closed' = [closed EXCEPT ![c] = @ \/ last[c]]
    /\ acked' = [acked EXCEPT ![c] = @ \cup {awaiting[c].doc}]
    /\ Rest(c)
    /\ Goto(c, "held")
    /\ UNCHANGED <<jobState, docs, id, sent, last, ended>>

AddFails(c) ==
    /\ pc[c] = "adding" /\ Fails(c)
    /\ Rest(c)
    /\ Goto(c, "held")
    /\ UNCHANGED <<jobState, docs, id, closed, sent, acked, last, ended>>

-----------------------------------------------------------------------------
(* close, cancel, and the end of the handle. *)

EndClose(c, how) ==
    /\ ended' = [ended EXCEPT ![c] = how]
    /\ Goto(c, "over")

\* A handle that is closed has nothing to ask the printer.
CloseAtOnce(c) ==
    /\ pc[c] = "held" /\ closed[c]
    /\ EndClose(c, "ok")
    /\ UNCHANGED <<serverVars, id, closed, sent, acked, last>>

BeginClose(c) ==
    /\ pc[c] = "held" /\ ~closed[c]
    /\ Post(c, CloseJob(c, id[c]))
    /\ Goto(c, "closing")
    /\ UNCHANGED <<jobState, docs, id, closed, sent, acked, last, ended>>

CloseEnds(c) ==
    /\ pc[c] = "closing"
    /\ \/ Succeeds(c) /\ closed' = [closed EXCEPT ![c] = TRUE] /\ EndClose(c, "ok")
       \/ Fails(c) /\ EndClose(c, "error") /\ UNCHANGED closed
    /\ Rest(c)
    /\ UNCHANGED <<jobState, docs, id, sent, acked, last>>

BeginCancel(c) ==
    /\ pc[c] = "held"
    /\ Post(c, CancelJob(c, id[c]))
    /\ Goto(c, "cancelling")
    /\ UNCHANGED <<jobState, docs, id, closed, sent, acked, last, ended>>

CancelEnds(c) ==
    /\ pc[c] = "cancelling" /\ (Succeeds(c) \/ Fails(c))
    /\ Rest(c)
    /\ Goto(c, "over")
    /\ UNCHANGED <<jobState, docs, id, closed, sent, acked, last, ended>>

\* The handle, or the future that borrows it, is dropped: the job stays as it is.
Drop(c) ==
    /\ pc[c] \notin {"idle", "over"}
    /\ Rest(c)
    /\ Goto(c, "over")
    /\ UNCHANGED <<jobState, docs, id, closed, sent, acked, last, ended>>

Caller(c) ==
    \/ Begin(c) \/ Created(c) \/ CreateFails(c)
    \/ (\E isLast \in BOOLEAN : AddDocument(c, isLast)) \/ Added(c) \/ AddFails(c)
    \/ CloseAtOnce(c) \/ BeginClose(c) \/ CloseEnds(c)
    \/ BeginCancel(c) \/ CancelEnds(c) \/ Drop(c)

Next ==
    \/ \E c \in Callers : Caller(c)
    \/ Printer /\ UNCHANGED handleVars

Spec == Init /\ [][Next]_vars

-----------------------------------------------------------------------------
\* A handle that says it is closed, and a close that returned Ok, mean that
\* the printer is no longer waiting for documents.  ("Closes the job, so the
\* printer stops waiting for documents and starts printing", IppJob::close.)
ClosedMeansReleased ==
    \A c \in Callers :
        closed[c] \/ ended[c] = "ok" => jobState[id[c]] # "open"

\* Every document whose addition was confirmed is in the job, in whatever
\* state the job is, and whatever was lost or came late before and after.
ConfirmedIsKept ==
    \A c \in Callers : id[c] # None => acked[c] \subseteq docs[id[c]]
=============================================================================
