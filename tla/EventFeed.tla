----------------------------- MODULE EventFeed -----------------------------
(***************************************************************************)
(* What the event stream promises its consumer (the doc comments of        *)
(* PrinterEvent in ipp-async/src/events.rs): a consumer that does nothing  *)
(* but apply events always holds a snapshot; no event contradicts what it  *)
(* holds; and between an error and the next full reload it hears nothing.  *)
(***************************************************************************)
EXTENDS Snapshot

VARIABLES
    view,   \* what a consumer that applies every event has
    live    \* whether the last item it got was an event and not an error

Init == view = EmptySnapshot /\ live = FALSE

\* A full reload, the first item and the first after every error.
Reload(s) ==
    /\ view' = s
    /\ live' = TRUE

\* One change, of something the consumer holds or does not hold accordingly.
Change(e) ==
    /\ live
    /\ Fits(view, e)
    /\ view' = Apply(view, e)
    /\ UNCHANGED live

\* An error, or the consumer closes the stream.
Lose ==
    /\ live' = FALSE
    /\ UNCHANGED view

Next ==
    \/ \E s \in Snapshots : Reload(s)
    \/ \E e \in JobEvents \cup PrinterEvents : Change(e)
    \/ Lose

Spec == Init /\ [][Next]_<<view, live>>
=============================================================================
