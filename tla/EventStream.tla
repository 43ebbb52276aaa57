---------------------------- MODULE EventStream ----------------------------
(***************************************************************************)
(* IppClient::events: the poll loop that turns snapshots of the daemon     *)
(* into a stream of changes (ipp-async/src/client.rs), together with the   *)
(* daemon it polls, the default-printer cache it shares with other tasks,  *)
(* and a consumer that applies every event it is given.                    *)
(*                                                                         *)
(* The stream is a generator: it runs from one await or yield to the next. *)
(* One action stands for one such stretch, cut once more where a shared    *)
(* variable is touched, so that the daemon and the other tasks move        *)
(* between the requests of one snapshot.                                   *)
(***************************************************************************)
EXTENDS DefaultPrinter, Snapshot

CONSTANT
    Poller      \* the task that drives the stream

ASSUME PollerAssumption == Poller \in Tasks

\* None is the absence of a record as well as of a name.
ASSUME NoneAssumption ==
    /\ None \notin Printers /\ None \notin Jobs /\ None \notin JobEntries
    /\ None \notin Snapshots

VARIABLES
    pc,         \* where the loop is
    previous,   \* the snapshot the last poll left, or None
    current,    \* the snapshot being read, then the one being told
    pending,    \* the events of this poll that are still to be yielded
    backoff,    \* the retry delay, 0 when the last poll succeeded
    delay,      \* the sleep under way, in seconds
    view, live  \* the consumer's side: see EventFeed

pollVars == <<pc, previous, current, pending, backoff, delay, view, live>>
vars == <<serverVars, cacheVars, pollVars>>

Others == Tasks \ {Poller}

Locations == {"head", "resolve", "printers", "jobs", "yield", "failed", "sleep"}
Backoffs == {0, 1, 2, 4, 8, 16, 30}

\* Every variable is of its type.
TypeOK ==
    /\ ServerTypeOK
    /\ CacheTypeOK
    /\ pc \in Locations
    /\ previous \in Snapshots \cup {None}
    /\ current \in Snapshots \cup {None}
    /\ pending \subseteq Events
    /\ backoff \in Backoffs
    /\ delay \in Backoffs \cup {POLL_INTERVAL}
    /\ view \in Snapshots
    /\ live \in BOOLEAN

PollInit ==
    /\ pc = "head"
    /\ previous = None /\ current = None /\ pending = {}
    /\ backoff = 0 /\ delay = 0
    /\ view = EmptySnapshot /\ live = FALSE

Init == ServerInit /\ CacheInit /\ PollInit

-----------------------------------------------------------------------------
\* Mutant: the cache is never invalidated.
BeginPollTrusting ==
    /\ pc = "head"
    /\ pc' = "resolve"
    /\ UNCHANGED <<serverVars, cacheVars,
                   previous, current, pending, backoff, delay, view, live>>

\* The top of the loop: starting up, or after a failure, the cache goes.
BeginPoll ==
    /\ pc = "head"
    /\ cache' = IF previous = None THEN Unset ELSE cache
    /\ pc' = "resolve"
    /\ UNCHANGED <<serverVars, lpoptions, call, answer,
                   previous, current, pending, backoff, delay, view, live>>

\* snapshot() calls printers(), which begins with default_printer().
ResolveDefault ==
    /\ pc = "resolve"
    /\ \/ BeginCall(Poller) /\ pc' = pc
       \/ Resolve(Poller) /\ pc' = pc
       \/ Return(Poller) /\ pc' = "printers"
    /\ UNCHANGED <<serverVars,
                   previous, current, pending, backoff, delay, view, live>>

\* The reply of CUPS-Get-Printers, decoded against the default found before.
ListPrinters ==
    /\ pc = "printers" /\ up
    /\ current' = [printers |-> DecodePrinters(queues, answer[Poller]),
                   jobs |-> NoJobs]
    /\ pc' = "jobs"
    /\ UNCHANGED <<serverVars, cacheVars,
                   previous, pending, backoff, delay, view, live>>

\* Mutant: no reload, only what differs from nothing.
OwedWithoutReload(before, after) ==
    Diff(IF before = None THEN EmptySnapshot ELSE before, after)

\* The events a poll owes the consumer.
Owed(before, after) ==
    IF before = None THEN {Resynchronised(after)} ELSE Diff(before, after)

\* Mutant: a good poll does not reset the backoff.
ListJobsKeepingBackoff ==
    /\ pc = "jobs" /\ up
    /\ LET snapshot == [current EXCEPT !.jobs = DecodeJobs(jobs)]
       IN  /\ current' = snapshot
           /\ pending' = Owed(previous, snapshot)
    /\ previous' = None
    /\ pc' = "yield"
    /\ UNCHANGED <<serverVars, cacheVars, backoff, delay, view, live>>

\* The reply of Get-Jobs completes the snapshot; `previous' is taken.
ListJobs ==
    /\ pc = "jobs" /\ up
    /\ LET snapshot == [current EXCEPT !.jobs = DecodeJobs(jobs)]
       IN  /\ current' = snapshot
           /\ pending' = Owed(previous, snapshot)
    /\ backoff' = 0
    /\ previous' = None
    /\ pc' = "yield"
    /\ UNCHANGED <<serverVars, cacheVars, delay, view, live>>

\* The consumer takes one event and applies it.
YieldEvent(e) ==
    /\ pc = "yield"
    /\ e \in Foremost(pending)
    /\ pending' = pending \ {e}
    /\ view' = Apply(view, e)
    /\ live' = (live \/ e.kind = "Resynchronised")
    /\ UNCHANGED <<serverVars, cacheVars,
                   pc, previous, current, backoff, delay>>

\* Mutant: the snapshot is not kept after it was taken.
SettleForgetting ==
    /\ pc = "yield" /\ pending = {}
    /\ current' = None
    /\ delay' = POLL_INTERVAL
    /\ pc' = "sleep"
    /\ UNCHANGED <<serverVars, cacheVars, previous, pending, backoff, view, live>>

\* Nothing left to tell: the snapshot is kept and the loop sleeps.
Settle ==
    /\ pc = "yield" /\ pending = {}
    /\ previous' = current
    /\ current' = None
    /\ delay' = POLL_INTERVAL
    /\ pc' = "sleep"
    /\ UNCHANGED <<serverVars, cacheVars, pending, backoff, view, live>>

\* Mutant: a failure leaves the old snapshot in place.
RequestFailsKeeping ==
    /\ pc \in {"printers", "jobs"} /\ ~up
    /\ current' = None
    /\ live' = FALSE
    /\ pc' = "failed"
    /\ UNCHANGED <<serverVars, cacheVars, previous, pending, backoff, delay, view>>

\* Either request fails: the snapshot is dropped and the error yielded.
RequestFails ==
    /\ pc \in {"printers", "jobs"} /\ ~up
    /\ previous' = None
    /\ current' = None
    /\ live' = FALSE
    /\ pc' = "failed"
    /\ UNCHANGED <<serverVars, cacheVars, pending, backoff, delay, view>>

\* Mutant: the stream gives up at the longest delay.
BackOffGivingUp ==
    /\ pc = "failed" /\ backoff < MAX_BACKOFF
    /\ backoff' = BackoffAfter(backoff)
    /\ delay' = backoff'
    /\ pc' = "sleep"
    /\ UNCHANGED <<serverVars, cacheVars,
                   previous, current, pending, view, live>>

BackOff ==
    /\ pc = "failed"
    /\ backoff' = BackoffAfter(backoff)
    /\ delay' = backoff'
    /\ pc' = "sleep"
    /\ UNCHANGED <<serverVars, cacheVars,
                   previous, current, pending, view, live>>

Wake ==
    /\ pc = "sleep"
    /\ delay' = 0
    /\ pc' = "head"
    /\ UNCHANGED <<serverVars, cacheVars,
                   previous, current, pending, backoff, view, live>>

\* The consumer drops the stream where it is suspended and opens another.
\* The cache is the client's and survives; everything else starts anew.
Reopen ==
    /\ pc # "head"
    /\ pc = "resolve" => call[Poller] = "asking"
    /\ call' = [call EXCEPT ![Poller] = "idle"]
    /\ pc' = "head"
    /\ previous' = None /\ current' = None /\ pending' = {}
    /\ backoff' = 0 /\ delay' = 0
    /\ live' = FALSE
    /\ UNCHANGED <<serverVars, lpoptions, cache, answer, view>>

-----------------------------------------------------------------------------
\* The stream itself, the rest of the program, and the world around them.

Poll ==
    \/ BeginPoll \/ ResolveDefault \/ ListPrinters \/ ListJobs
    \/ (\E e \in pending : YieldEvent(e)) \/ Settle
    \/ RequestFails \/ BackOff \/ Wake

OtherTasks == \E t \in Others : Borrow(t) /\ UNCHANGED <<serverVars, pollVars>>

Server == ServerNext /\ UNCHANGED <<cacheVars, pollVars>>

User ==
    /\ \E f \in LpFiles, d \in Queues \cup {None} : EditLpoptions(f, d)
    /\ UNCHANGED <<serverVars, pollVars>>

Next == Poll \/ Reopen \/ OtherTasks \/ Server \/ User

Spec == Init /\ [][Next]_vars

\* The runtime keeps polling the stream, and the consumer keeps asking for
\* its next item; a request is answered or refused in the end.
FairSpec == Spec /\ WF_vars(Poll)

-----------------------------------------------------------------------------
(* Safety. *)

\* Outside the telling of a poll, a consumer that applied every event holds
\* exactly the snapshot the next poll will be compared with: no difference
\* was ever lost or told twice.  (events: `previous = Some(current)' after
\* the last event of diff.)
ViewTracksSnapshot ==
    previous # None => live /\ view = previous

\* Every event still to be told is one the consumer can act on when its turn
\* comes: an arrival is of a job it does not have, a change or a removal of
\* one it has, and only a full reload comes before the first one or after an
\* error.  (Snapshot::diff against the state the earlier events left.)
EventsFitView ==
    \A e \in pending :
        /\ Fits(view, e)
        /\ e.kind # "Resynchronised" => live

\* While a poll is being told, what is left to tell is exactly the difference
\* between what the consumer has and the snapshot it is told about, or the
\* whole of it; at any other time nothing is left to tell, and a consumer
\* without a kept snapshot behind it is waiting for a full reload.
Telling ==
    pc = "yield" =>
        /\ previous = None /\ current \in Snapshots
        /\ pending = IF live THEN Diff(view, current) ELSE {Resynchronised(current)}

Waiting ==
    pc # "yield" =>
        /\ pending = {}
        /\ previous = None => ~live
        /\ pc = "jobs" => current \in Snapshots

PollInv == ViewTracksSnapshot /\ Telling /\ Waiting

\* When a new job reaches a live consumer, every job that left between the
\* same two polls is already gone from its state.  ("Removals come first so
\* a consumer replacing a job id sees the old one leave before the new one
\* arrives", Snapshot::diff.)
OldLeaveBeforeNewArrive ==
    [][ \A j, k \in JobIds :
            live /\ view.jobs[j] = None /\ view'.jobs[j] # None
                => (view.jobs[k] # None => current.jobs[k] # None) ]_vars

\* The stream refines what the documentation of PrinterEvent promises.
Feed == INSTANCE EventFeed
FeedRefined == Feed!Spec

-----------------------------------------------------------------------------
(* Liveness. *)

\* The consumer does not keep reopening the stream.
KeptOpen == <>[][~Reopen]_vars

\* "Never ends; retries with backoff on error": the loop asks the server for
\* its printers again and again, whatever the server does.
NeverEnds == KeptOpen => []<>(pc = "printers")

\* Once the server stays up, the consumer gets a full reload and hears of
\* no further error.
Recovers == KeptOpen /\ <>[]up => <>[]live

\* What the server would be decoded to now, the default flag aside.
SameButDefault(p, q) ==
    IF p = None \/ q = None THEN p = q ELSE p.state = q.state

InAgreement ==
    /\ view.jobs = DecodeJobs(jobs)
    /\ \A q \in Queues :
        SameButDefault(view.printers[q], DecodePrinters(queues, None)[q])

\* Once the server stays up and nothing changes on it any more, the consumer
\* comes to hold what the server has, whatever happened before.
Converges ==
    KeptOpen /\ <>[]up /\ <>[][FALSE]_<<queues, jobs>> => <>[]InAgreement
=============================================================================
