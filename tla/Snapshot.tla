------------------------------ MODULE Snapshot ------------------------------
(***************************************************************************)
(* ipp-async/src/events.rs: the events of the stream, the difference of    *)
(* two snapshots as a list of them, and the retry delay.                   *)
(***************************************************************************)
EXTENDS IppDecode

\* A snapshot maps each key to what was decoded for it, or to None.
Snapshots == [printers : [Queues -> Printers \cup {None}],
              jobs : [JobIds -> Jobs \cup {None}]]

NoPrinters == [q \in Queues |-> None]
NoJobs == [j \in JobIds |-> None]
EmptySnapshot == [printers |-> NoPrinters, jobs |-> NoJobs]

-----------------------------------------------------------------------------
\* The variants of PrinterEvent.

JobAdded(j, job) == [kind |-> "JobAdded", id |-> j, item |-> job]
JobChanged(j, job) == [kind |-> "JobChanged", id |-> j, item |-> job]
JobRemoved(j) == [kind |-> "JobRemoved", id |-> j, item |-> None]
PrinterChanged(q, p) == [kind |-> "PrinterChanged", id |-> q, item |-> p]
PrinterRemoved(q) == [kind |-> "PrinterRemoved", id |-> q, item |-> None]
Resynchronised(s) == [kind |-> "Resynchronised", id |-> None, item |-> s]

JobEvents ==
    {JobAdded(j, job) : j \in JobIds, job \in Jobs}
        \cup {JobChanged(j, job) : j \in JobIds, job \in Jobs}
        \cup {JobRemoved(j) : j \in JobIds}
PrinterEvents ==
    {PrinterChanged(q, p) : q \in Queues, p \in Printers}
        \cup {PrinterRemoved(q) : q \in Queues}
Resyncs == {Resynchronised(s) : s \in Snapshots}
Events == JobEvents \cup PrinterEvents \cup Resyncs

-----------------------------------------------------------------------------
\* Snapshot::diff.  The list is kept as a set with the rank of the loop that
\* pushed each event; inside one loop the order is that of the reply, which
\* is any order.

\* Mutants: what has left is overlooked; what was there is added once more;
\* a change of the default flag or of the queue is no change.
GoneMissed(old, new) == {}
ArrivedAgain(old, new) == {k \in DOMAIN old : new[k] # None /\ old[k] # new[k]}
AlteredByState(old, new) ==
    {k \in DOMAIN old : old[k] # None /\ new[k] # None /\ old[k].state # new[k].state}

Gone(old, new) == {k \in DOMAIN old : old[k] # None /\ new[k] = None}
Arrived(old, new) == {k \in DOMAIN old : old[k] = None /\ new[k] # None}
Altered(old, new) ==
    {k \in DOMAIN old : old[k] # None /\ new[k] # None /\ old[k] # new[k]}

JobDiff(before, after) ==
    {JobRemoved(j) : j \in Gone(before.jobs, after.jobs)}
        \cup {JobAdded(j, after.jobs[j]) : j \in Arrived(before.jobs, after.jobs)}
        \cup {JobChanged(j, after.jobs[j]) : j \in Altered(before.jobs, after.jobs)}

\* Mutant: only a printer that was there before is looked at.
PrinterDiffOfKnown(before, after) ==
    {PrinterRemoved(q) : q \in Gone(before.printers, after.printers)}
        \cup {PrinterChanged(q, after.printers[q]) :
                q \in Altered(before.printers, after.printers)}

PrinterDiff(before, after) ==
    {PrinterRemoved(q) : q \in Gone(before.printers, after.printers)}
        \cup {PrinterChanged(q, after.printers[q]) :
                q \in Arrived(before.printers, after.printers)
                        \cup Altered(before.printers, after.printers)}

Diff(before, after) == JobDiff(before, after) \cup PrinterDiff(before, after)

\* Mutant: the two job loops in the other order.
RankArrivalsFirst(e) ==
    CASE e.kind \in {"JobAdded", "JobChanged"} -> 0
      [] e.kind = "JobRemoved" -> 1
      [] e.kind = "PrinterRemoved" -> 2
      [] OTHER -> 3

Rank(e) ==
    CASE e.kind = "JobRemoved" -> 0
      [] e.kind \in {"JobAdded", "JobChanged"} -> 1
      [] e.kind = "PrinterRemoved" -> 2
      [] OTHER -> 3

\* The events that may be yielded next out of those still to come.
Foremost(events) == {e \in events : \A f \in events : Rank(e) <= Rank(f)}

-----------------------------------------------------------------------------
\* What an event tells a consumer, and what the doc comments of PrinterEvent
\* say the consumer's state is when it arrives.

Apply(view, e) ==
    CASE e.kind = "Resynchronised" -> e.item
      [] e.kind \in {"JobAdded", "JobChanged", "JobRemoved"} ->
            [view EXCEPT !.jobs[e.id] = e.item]
      [] e.kind \in {"PrinterChanged", "PrinterRemoved"} ->
            [view EXCEPT !.printers[e.id] = e.item]

Fits(view, e) ==
    \/ e.kind = "Resynchronised"
    \/ e.kind = "JobAdded" /\ view.jobs[e.id] = None
    \/ e.kind = "JobChanged" /\ view.jobs[e.id] \notin {None, e.item}
    \/ e.kind = "JobRemoved" /\ view.jobs[e.id] # None
    \/ e.kind = "PrinterChanged" /\ view.printers[e.id] # e.item
    \/ e.kind = "PrinterRemoved" /\ view.printers[e.id] # None

-----------------------------------------------------------------------------
\* Delays, in seconds.

POLL_INTERVAL == 3
MAX_BACKOFF == 30

\* Mutant: no cap.
BackoffUncapped(previous) == IF previous = 0 THEN 1 ELSE 2 * previous

BackoffAfter(previous) ==
    IF previous = 0 THEN 1
    ELSE IF 2 * previous < MAX_BACKOFF THEN 2 * previous ELSE MAX_BACKOFF
=============================================================================
