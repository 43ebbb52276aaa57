----------------------------- MODULE JobServer -----------------------------
(***************************************************************************)
(* One printer's job queue, as the requests of this crate find it.  It is  *)
(* not part of the repository, and it may refuse any request.              *)
(***************************************************************************)
EXTENDS Integers, FiniteSets, IppSend

CONSTANTS
    JobIds,
    MaxDocs     \* documents a caller sends at most

VARIABLES
    jobState,   \* of each job id, free until Create-Job takes it
    docs        \* the documents each job has accepted

serverVars == <<jobState, docs, sendVars>>

JobStates == {"free", "open", "queued", "printed", "gone"}
Documents == Callers \X (1..MaxDocs)

CreateJob(c) == [op |-> "Create-Job", from |-> c]
SendDocument(c, j, n, last) ==
    [op |-> "Send-Document", from |-> c, job |-> j, doc |-> <<c, n>>, last |-> last]
CloseJob(c, j) == [op |-> "Close-Job", from |-> c, job |-> j]
CancelJob(c, j) == [op |-> "Cancel-Job", from |-> c, job |-> j]

Requests ==
    {CreateJob(c) : c \in Callers}
        \cup {SendDocument(c, j, n, last) :
                c \in Callers, j \in JobIds, n \in 1..MaxDocs, last \in BOOLEAN}
        \cup {CloseJob(c, j) : c \in Callers, j \in JobIds}
        \cup {CancelJob(c, j) : c \in Callers, j \in JobIds}

\* A reply says whether the status was a success, and carries a job id or not.
Replies == [ok : BOOLEAN, job : JobIds \cup {None}]
Refusal == [ok |-> FALSE, job |-> None]
Acceptance == [ok |-> TRUE, job |-> None]

\* None is neither a job id nor a message.
ASSUME JobServerAssumption ==
    /\ MaxDocs \in Nat
    /\ None \notin JobIds /\ None \notin Requests /\ None \notin Replies

ServerTypeOK ==
    /\ jobState \in [JobIds -> JobStates]
    /\ docs \in [JobIds -> SUBSET Documents]
    /\ wire \subseteq Requests
    /\ awaiting \in [Callers -> Requests \cup {None}]
    /\ reply \in [Callers -> Replies \cup {None}]

ServerInit ==
    /\ jobState = [j \in JobIds |-> "free"]
    /\ docs = [j \in JobIds |-> {}]
    /\ SendInit

-----------------------------------------------------------------------------
(* The printer. *)

\* A reply to Create-Job may lack the job id.
Create(r) ==
    /\ r.op = "Create-Job"
    /\ \E j \in JobIds :
        /\ jobState[j] = "free"
        /\ jobState' = [jobState EXCEPT ![j] = "open"]
        /\ \E id \in {j, None} : Answer(r, [ok |-> TRUE, job |-> id])
    /\ UNCHANGED docs

Accept(r) ==
    /\ r.op = "Send-Document" /\ jobState[r.job] = "open"
    /\ docs' = [docs EXCEPT ![r.job] = @ \cup {r.doc}]
    /\ jobState' = IF r.last THEN [jobState EXCEPT ![r.job] = "queued"] ELSE jobState
    /\ Answer(r, Acceptance)

Close(r) ==
    /\ r.op = "Close-Job" /\ jobState[r.job] = "open"
    /\ jobState' = [jobState EXCEPT ![r.job] = "queued"]
    /\ Answer(r, Acceptance)
    /\ UNCHANGED docs

Cancel(r) ==
    /\ r.op = "Cancel-Job" /\ jobState[r.job] \in {"open", "queued"}
    /\ jobState' = [jobState EXCEPT ![r.job] = "gone"]
    /\ Answer(r, Acceptance)
    /\ UNCHANGED docs

Refuse(r) == Answer(r, Refusal) /\ UNCHANGED <<jobState, docs>>

Process(r) == Create(r) \/ Accept(r) \/ Close(r) \/ Cancel(r) \/ Refuse(r)

\* A queued job is printed; an operator cancels one; an open job nobody
\* completes is dropped after the printer's own timeout.
Finish(j) ==
    /\ jobState[j] = "queued"
    /\ jobState' = [jobState EXCEPT ![j] = "printed"]
    /\ UNCHANGED <<docs, sendVars>>

Remove(j) ==
    /\ jobState[j] \in {"open", "queued"}
    /\ jobState' = [jobState EXCEPT ![j] = "gone"]
    /\ UNCHANGED <<docs, sendVars>>

Printer == (\E r \in wire : Process(r)) \/ (\E j \in JobIds : Finish(j) \/ Remove(j))
=============================================================================
