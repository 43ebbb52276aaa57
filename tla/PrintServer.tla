---------------------------- MODULE PrintServer ----------------------------
(***************************************************************************)
(* The print daemon the client talks to.  It is not part of the            *)
(* repository: this is the behaviour the client's requests can meet.       *)
(* Queues come and go, jobs are submitted, progress, move and leave, the   *)
(* default changes, and the daemon is unreachable for a while.  A deleted  *)
(* queue takes its jobs with it.                                           *)
(***************************************************************************)
EXTENDS IppDecode

CONSTANTS
    QueueCodes,     \* attribute codes a queue may report
    JobCodes        \* attribute codes an active job may report

ASSUME CodesAssumption ==
    /\ QueueCodes \subseteq Int /\ JobCodes \subseteq Int
    /\ None \notin Int /\ None \notin Queues

VARIABLES
    queues,         \* what CUPS-Get-Printers would report of each queue
    jobs,           \* what Get-Jobs would report of each job of the user
    default,        \* the server's default queue, or None
    up              \* whether requests are answered

serverVars == <<queues, jobs, default, up>>

JobEntries == [printer : Queues, code : JobCodes]

ServerTypeOK ==
    /\ queues \in [Queues -> QueueCodes \cup {None}]
    /\ jobs \in [JobIds -> JobEntries \cup {None}]
    /\ default \in Queues \cup {None}
    /\ up \in BOOLEAN

\* A job sits on a queue that exists, and so does the default.
ServerSane ==
    /\ \A j \in JobIds : jobs[j] # None => queues[jobs[j].printer] # None
    /\ default # None => queues[default] # None

\* The client may start at any moment of the daemon's life.
ServerInit == ServerTypeOK /\ ServerSane

SetQueue(q, c) ==
    /\ queues[q] # c
    /\ queues' = [queues EXCEPT ![q] = c]
    /\ UNCHANGED <<jobs, default, up>>

DeleteQueue(q) ==
    /\ queues[q] # None
    /\ queues' = [queues EXCEPT ![q] = None]
    /\ jobs' = [j \in JobIds |->
                    IF jobs[j] # None /\ jobs[j].printer = q THEN None ELSE jobs[j]]
    /\ default' = IF default = q THEN None ELSE default
    /\ UNCHANGED up

\* A job is submitted, changes, or is moved to another queue.
SetJob(j, q, c) ==
    /\ queues[q] # None
    /\ jobs[j] # [printer |-> q, code |-> c]
    /\ jobs' = [jobs EXCEPT ![j] = [printer |-> q, code |-> c]]
    /\ UNCHANGED <<queues, default, up>>

JobLeaves(j) ==
    /\ jobs[j] # None
    /\ jobs' = [jobs EXCEPT ![j] = None]
    /\ UNCHANGED <<queues, default, up>>

SetDefault(q) ==
    /\ queues[q] # None /\ default # q
    /\ default' = q
    /\ UNCHANGED <<queues, jobs, up>>

Outage == up /\ up' = FALSE /\ UNCHANGED <<queues, jobs, default>>
Recovery == ~up /\ up' = TRUE /\ UNCHANGED <<queues, jobs, default>>

ServerNext ==
    \/ \E q \in Queues, c \in QueueCodes : SetQueue(q, c)
    \/ \E q \in Queues : DeleteQueue(q)
    \/ \E j \in JobIds, q \in Queues, c \in JobCodes : SetJob(j, q, c)
    \/ \E j \in JobIds : JobLeaves(j)
    \/ \E q \in Queues : SetDefault(q)
    \/ Outage
    \/ Recovery
=============================================================================
