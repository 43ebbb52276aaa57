---------------------------- MODULE PrintStream ----------------------------
(***************************************************************************)
(* IppClient::print_stream_at (ipp-async/src/client.rs), which print_file  *)
(* and print_stream of IppClient and IppPrinter end in: a document is      *)
(* streamed by Create-Job and Send-Document, and the job is cancelled      *)
(* again when the second request fails.  Several callers print at once.    *)
(***************************************************************************)
EXTENDS JobServer

\* A call has a document to send, and there are finitely many calls.
ASSUME PrintStreamAssumption == MaxDocs > 0 /\ IsFiniteSet(Callers)

VARIABLES
    pc,         \* where each call is
    id,         \* the job id it was given, or None
    result,     \* None, then whether it returned Ok and the job id it gave
    cleanup     \* how the Cancel-Job of a failed call ended, or which of
                \* its requests the call could not build

callVars == <<pc, id, result, cleanup>>
vars == <<serverVars, callVars>>

Locations == {"idle", "creating", "sending", "cancelling", "returned", "dropped"}

Doc(c) == <<c, 1>>

\* Every variable is of its type.
TypeOK ==
    /\ ServerTypeOK
    /\ pc \in [Callers -> Locations]
    /\ id \in [Callers -> JobIds \cup {None}]
    /\ result \in [Callers -> Replies \cup {None}]
    /\ cleanup \in [Callers -> {"none", "done", "failed", "unbuilt", "unsent"}]

Init ==
    /\ ServerInit
    /\ pc = [c \in Callers |-> "idle"]
    /\ id = [c \in Callers |-> None]
    /\ result = [c \in Callers |-> None]
    /\ cleanup = [c \in Callers |-> "none"]

Goto(c, l) == pc' = [pc EXCEPT ![c] = l]

Return(c, ok) ==
    /\ Goto(c, "returned")
    /\ result' = [result EXCEPT ![c] = [ok |-> ok, job |-> IF ok THEN id[c] ELSE None]]

\* The file does not open, or the first request cannot be built.
BeginFails(c) ==
    /\ pc[c] = "idle"
    /\ Return(c, FALSE)
    /\ cleanup' = [cleanup EXCEPT ![c] = "unsent"]
    /\ UNCHANGED <<jobState, docs, sendVars, id>>

Begin(c) ==
    /\ pc[c] = "idle"
    /\ Post(c, CreateJob(c))
    /\ Goto(c, "creating")
    /\ UNCHANGED <<jobState, docs, id, result, cleanup>>

\* Create-Job fails, or its reply has no job id: nothing can be cleaned up.
CreateFails(c) ==
    /\ pc[c] = "creating"
    /\ Fails(c)
    /\ Rest(c)
    /\ Return(c, FALSE)
    /\ UNCHANGED <<jobState, docs, id, cleanup>>

\* Mutant: the job id of the reply is taken as it is.
CreatedUnchecked(c) ==
    /\ pc[c] = "creating" /\ Succeeds(c)
    /\ id' = [id EXCEPT ![c] = reply[c].job]
    /\ Post(c, SendDocument(c, reply[c].job, 1, TRUE))
    /\ Goto(c, "sending")
    /\ UNCHANGED <<jobState, docs, result, cleanup>>

\* The job is there; now the document.
Created(c) ==
    /\ pc[c] = "creating" /\ Succeeds(c) /\ reply[c].job # None
    /\ id' = [id EXCEPT ![c] = reply[c].job]
    /\ Post(c, SendDocument(c, reply[c].job, 1, TRUE))
    /\ Goto(c, "sending")
    /\ UNCHANGED <<jobState, docs, result, cleanup>>

\* The job is there, but the second request cannot be built: `?' returns.
BuildFails(c) ==
    /\ pc[c] = "creating" /\ Succeeds(c) /\ reply[c].job # None
    /\ id' = [id EXCEPT ![c] = reply[c].job]
    /\ Rest(c)
    /\ Return(c, FALSE)
    /\ cleanup' = [cleanup EXCEPT ![c] = "unbuilt"]
    /\ UNCHANGED <<jobState, docs>>

\* Mutant: any reply counts as success.
SentAnyStatus(c) ==
    /\ pc[c] = "sending" /\ reply[c] # None
    /\ Rest(c)
    /\ Return(c, TRUE)
    /\ UNCHANGED <<jobState, docs, id, cleanup>>

Sent(c) ==
    /\ pc[c] = "sending" /\ Succeeds(c)
    /\ Rest(c)
    /\ Return(c, TRUE)
    /\ UNCHANGED <<jobState, docs, id, cleanup>>

\* Mutants: the error is reported without cleaning up; the call starts over.
SendFailsLeavingJob(c) ==
    /\ pc[c] = "sending" /\ Fails(c)
    /\ Rest(c)
    /\ Return(c, FALSE)
    /\ UNCHANGED <<jobState, docs, id, cleanup>>

SendFailsRetrying(c) ==
    /\ pc[c] = "sending" /\ Fails(c)
    /\ Post(c, CreateJob(c))
    /\ Goto(c, "creating")
    /\ UNCHANGED <<jobState, docs, id, result, cleanup>>

\* Send-Document fails: take the job back out before reporting the failure.
SendFails(c) ==
    /\ pc[c] = "sending" /\ Fails(c)
    /\ Post(c, CancelJob(c, id[c]))
    /\ Goto(c, "cancelling")
    /\ UNCHANGED <<jobState, docs, id, result, cleanup>>

\* Whether the cleanup worked or not, the first error is returned.
CancelEnds(c) ==
    /\ pc[c] = "cancelling"
    /\ \/ Succeeds(c) /\ cleanup' = [cleanup EXCEPT ![c] = "done"]
       \/ Fails(c) /\ cleanup' = [cleanup EXCEPT ![c] = "failed"]
    /\ Rest(c)
    /\ Return(c, FALSE)
    /\ UNCHANGED <<jobState, docs, id>>

\* The caller drops the future at an await: nothing is cleaned up.
Drop(c) ==
    /\ pc[c] \in {"creating", "sending", "cancelling"}
    /\ Rest(c)
    /\ Goto(c, "dropped")
    /\ UNCHANGED <<jobState, docs, id, result, cleanup>>

Proceed(c) ==
    \/ CreateFails(c) \/ Created(c) \/ BuildFails(c)
    \/ Sent(c) \/ SendFails(c) \/ CancelEnds(c)

Next ==
    \/ \E c \in Callers : Begin(c) \/ BeginFails(c) \/ Proceed(c) \/ Drop(c)
    \/ Printer /\ UNCHANGED callVars

Spec == Init /\ [][Next]_vars

-----------------------------------------------------------------------------
\* Ok(job) is returned only when that job has the document and is no longer
\* waiting for another.
OkMeansSubmitted ==
    \A c \in Callers :
        result[c] # None /\ result[c].ok =>
            /\ Doc(c) \in docs[result[c].job]
            /\ jobState[result[c].job] # "open"

\* Once a call that sent its document has failed, the job it was given does
\* not sit open on the printer unless Cancel-Job failed as well, whatever of
\* its requests arrives late.  ("take it back out before reporting the failure")
FailedUploadTakesJobBack ==
    \A c \in Callers :
        result[c] # None /\ ~result[c].ok /\ id[c] # None
        /\ cleanup[c] \notin {"failed", "unbuilt"}
            => jobState[id[c]] # "open"

\* The same of every failed call that was given a job: "Create-Job already
\* queued a job.  Left alone it would sit there indefinitely".
FailureTakesJobBack ==
    \A c \in Callers :
        result[c] # None /\ ~result[c].ok /\ id[c] # None /\ cleanup[c] # "failed"
            => jobState[id[c]] # "open"

\* A job that sits open on the printer belongs to a call that is still at it,
\* that was dropped, or that could not clean up; or nobody was ever told its
\* id, and there are no more of those than calls that were never told one.
OpenJobsExplained ==
    LET Open == {j \in JobIds : jobState[j] = "open"}
        Told == {id[c] : c \in Callers}
    IN  /\ \A c \in Callers :
            id[c] \in Open =>
                pc[c] \in {"sending", "cancelling", "dropped"} \/ cleanup[c] \in {"failed", "unbuilt"}
        /\ Cardinality(Open \ Told)
                <= Cardinality({c \in Callers : id[c] = None /\ pc[c] # "idle"
                                                /\ cleanup[c] # "unsent"})

\* One call puts its document in one job at most, however its requests fare.
AtMostOnce ==
    \A c \in Callers, i, j \in JobIds :
        Doc(c) \in docs[i] \cap docs[j] => i = j
=============================================================================
