------------------------- MODULE EventStreamProofs -------------------------
(***************************************************************************)
(* Proofs about EventStream, for any queues, jobs, tasks and lpoptions     *)
(* files: types, what a consumer holds between polls, the order of the     *)
(* events, the refinement of EventFeed; and about the histories of it that *)
(* EventStreamHistory records.                                             *)
(*                                                                         *)
(* The argument rests on one fact: while a poll is being told, the events  *)
(* still to come are exactly the difference between what the consumer has  *)
(* and the snapshot being told (Telling, below).                           *)
(***************************************************************************)
EXTENDS EventStreamHistory, TLAPS

-----------------------------------------------------------------------------
(* The operators of Snapshot. *)

\* The difference of two snapshots is made of well-typed events, none of
\* them a full reload.
LEMMA DiffType ==
    ASSUME NEW a \in Snapshots, NEW b \in Snapshots
    PROVE  Diff(a, b) \subseteq JobEvents \cup PrinterEvents
<1>1. JobDiff(a, b) \subseteq JobEvents
  <2>1. \A j \in Gone(a.jobs, b.jobs) : j \in JobIds
    BY DEF Gone, Snapshots
  <2>2. \A j \in Arrived(a.jobs, b.jobs) : j \in JobIds /\ b.jobs[j] \in Jobs
    BY DEF Arrived, Snapshots
  <2>3. \A j \in Altered(a.jobs, b.jobs) : j \in JobIds /\ b.jobs[j] \in Jobs
    BY DEF Altered, Snapshots
  <2> QED
    BY <2>1, <2>2, <2>3 DEF JobDiff, JobEvents
<1>2. PrinterDiff(a, b) \subseteq PrinterEvents
  <2>1. \A q \in Gone(a.printers, b.printers) : q \in Queues
    BY DEF Gone, Snapshots
  <2>2. \A q \in Arrived(a.printers, b.printers) \cup Altered(a.printers, b.printers) :
            q \in Queues /\ b.printers[q] \in Printers
    BY DEF Arrived, Altered, Snapshots
  <2> QED
    BY <2>1, <2>2 DEF PrinterDiff, PrinterEvents
<1> QED
  BY <1>1, <1>2 DEF Diff

\* Applying an event to a snapshot gives a snapshot.
LEMMA ApplyType ==
    ASSUME NEW s \in Snapshots, NEW e \in Events
    PROVE  Apply(s, e) \in Snapshots
<1>1. CASE e \in Resyncs
  BY <1>1 DEF Resyncs, Resynchronised, Apply
<1>2. CASE e \in JobEvents
  <2>1. /\ e.kind \in {"JobAdded", "JobChanged", "JobRemoved"}
        /\ e.id \in JobIds
        /\ e.item \in Jobs \cup {None}
    BY <1>2 DEF JobEvents, JobAdded, JobChanged, JobRemoved
  <2>2. Apply(s, e) = [s EXCEPT !.jobs[e.id] = e.item]
    BY <2>1 DEF Apply
  <2> QED
    BY <2>1, <2>2 DEF Snapshots
<1>3. CASE e \in PrinterEvents
  <2>1. /\ e.kind \in {"PrinterChanged", "PrinterRemoved"}
        /\ e.id \in Queues
        /\ e.item \in Printers \cup {None}
    BY <1>3 DEF PrinterEvents, PrinterChanged, PrinterRemoved
  <2>2. Apply(s, e) = [s EXCEPT !.printers[e.id] = e.item]
    BY <2>1 DEF Apply
  <2> QED
    BY <2>1, <2>2 DEF Snapshots
<1> QED
  BY <1>1, <1>2, <1>3 DEF Events

\* Two snapshots without a difference are the same.
LEMMA NoDiff ==
    ASSUME NEW a \in Snapshots, NEW b \in Snapshots, Diff(a, b) = {}
    PROVE  a = b
<1>1. JobDiff(a, b) = {} /\ PrinterDiff(a, b) = {}
  BY DEF Diff
<1>2. \A j \in JobIds : a.jobs[j] = b.jobs[j]
  <2> SUFFICES ASSUME NEW j \in JobIds, a.jobs[j] # b.jobs[j]
               PROVE  FALSE
    OBVIOUS
  <2>1. j \in Gone(a.jobs, b.jobs) \cup Arrived(a.jobs, b.jobs) \cup Altered(a.jobs, b.jobs)
    BY DEF Gone, Arrived, Altered, Snapshots
  <2>2. JobDiff(a, b) # {}
    BY <2>1 DEF JobDiff
  <2> QED
    BY <1>1, <2>2
<1>3. \A q \in Queues : a.printers[q] = b.printers[q]
  <2> SUFFICES ASSUME NEW q \in Queues, a.printers[q] # b.printers[q]
               PROVE  FALSE
    OBVIOUS
  <2>1. \/ q \in Gone(a.printers, b.printers)
        \/ q \in Arrived(a.printers, b.printers) \cup Altered(a.printers, b.printers)
    BY DEF Gone, Arrived, Altered, Snapshots
  <2>2. PrinterDiff(a, b) # {}
    BY <2>1 DEF PrinterDiff
  <2> QED
    BY <1>1, <2>2
<1>4. a.jobs = b.jobs /\ a.printers = b.printers
  BY <1>2, <1>3 DEF Snapshots
<1> QED
  BY <1>4 DEF Snapshots

\* Every event of a difference fits the snapshot it is the difference from.
LEMMA DiffFits ==
    ASSUME NEW a \in Snapshots, NEW b \in Snapshots, NEW e \in Diff(a, b)
    PROVE  Fits(a, e) /\ e.kind # "Resynchronised"
<1>1. CASE \E j \in Gone(a.jobs, b.jobs) : e = JobRemoved(j)
  BY <1>1 DEF Gone, JobRemoved, Fits
<1>2. CASE \E j \in Arrived(a.jobs, b.jobs) : e = JobAdded(j, b.jobs[j])
  BY <1>2 DEF Arrived, JobAdded, Fits
<1>3. CASE \E j \in Altered(a.jobs, b.jobs) : e = JobChanged(j, b.jobs[j])
  BY <1>3 DEF Altered, JobChanged, Fits
<1>4. CASE \E q \in Gone(a.printers, b.printers) : e = PrinterRemoved(q)
  BY <1>4 DEF Gone, PrinterRemoved, Fits
<1>5. CASE \E q \in Arrived(a.printers, b.printers) \cup Altered(a.printers, b.printers) :
                e = PrinterChanged(q, b.printers[q])
  BY <1>5 DEF Arrived, Altered, PrinterChanged, Fits
<1> QED
  BY <1>1, <1>2, <1>3, <1>4, <1>5 DEF Diff, JobDiff, PrinterDiff

\* Telling one job leaves the differences of the other jobs as they were.
LEMMA JobTold ==
    ASSUME NEW a \in Snapshots, NEW b \in Snapshots, NEW j \in JobIds,
           NEW e \in JobDiff(a, b), e.id = j
    PROVE  Diff([a EXCEPT !.jobs[j] = b.jobs[j]], b) = Diff(a, b) \ {e}
<1> DEFINE c == [a EXCEPT !.jobs[j] = b.jobs[j]]
<1>1. /\ c \in Snapshots
      /\ c.printers = a.printers
      /\ \A k \in JobIds : c.jobs[k] = IF k = j THEN b.jobs[k] ELSE a.jobs[k]
      /\ DOMAIN c.jobs = JobIds /\ DOMAIN a.jobs = JobIds
  BY DEF Snapshots
<1> HIDE DEF c
<1>2. /\ Gone(c.jobs, b.jobs) = Gone(a.jobs, b.jobs) \ {j}
      /\ Arrived(c.jobs, b.jobs) = Arrived(a.jobs, b.jobs) \ {j}
      /\ Altered(c.jobs, b.jobs) = Altered(a.jobs, b.jobs) \ {j}
  BY <1>1 DEF Gone, Arrived, Altered
<1>3. \A f \in JobDiff(a, b) : f.id = j => f = e
  <2>1. CASE j \in Gone(a.jobs, b.jobs)
    BY <2>1 DEF Gone, Arrived, Altered, JobDiff, JobRemoved, JobAdded, JobChanged
  <2>2. CASE j \in Arrived(a.jobs, b.jobs)
    BY <2>2 DEF Gone, Arrived, Altered, JobDiff, JobRemoved, JobAdded, JobChanged
  <2>3. CASE j \in Altered(a.jobs, b.jobs)
    BY <2>3 DEF Gone, Arrived, Altered, JobDiff, JobRemoved, JobAdded, JobChanged
  <2> QED
    BY <2>1, <2>2, <2>3 DEF JobDiff, JobRemoved, JobAdded, JobChanged
<1>4. JobDiff(c, b) = {f \in JobDiff(a, b) : f.id # j}
  BY <1>2 DEF JobDiff, JobRemoved, JobAdded, JobChanged
<1>5. JobDiff(c, b) = JobDiff(a, b) \ {e}
  BY <1>3, <1>4
<1>6. PrinterDiff(c, b) = PrinterDiff(a, b)
  BY <1>1 DEF PrinterDiff
<1>7. e \notin PrinterDiff(a, b)
  BY DEF PrinterDiff, PrinterRemoved, PrinterChanged,
         JobDiff, JobRemoved, JobAdded, JobChanged
<1> QED
  BY <1>5, <1>6, <1>7 DEF Diff, c

\* The same of one printer.
LEMMA PrinterTold ==
    ASSUME NEW a \in Snapshots, NEW b \in Snapshots, NEW q \in Queues,
           NEW e \in PrinterDiff(a, b), e.id = q
    PROVE  Diff([a EXCEPT !.printers[q] = b.printers[q]], b) = Diff(a, b) \ {e}
<1> DEFINE c == [a EXCEPT !.printers[q] = b.printers[q]]
<1>1. /\ c \in Snapshots
      /\ c.jobs = a.jobs
      /\ \A k \in Queues : c.printers[k] = IF k = q THEN b.printers[k] ELSE a.printers[k]
      /\ DOMAIN c.printers = Queues /\ DOMAIN a.printers = Queues
  BY DEF Snapshots
<1> HIDE DEF c
<1>2. /\ Gone(c.printers, b.printers) = Gone(a.printers, b.printers) \ {q}
      /\ Arrived(c.printers, b.printers) = Arrived(a.printers, b.printers) \ {q}
      /\ Altered(c.printers, b.printers) = Altered(a.printers, b.printers) \ {q}
  BY <1>1 DEF Gone, Arrived, Altered
<1>3. \A f \in PrinterDiff(a, b) : f.id = q => f = e
  <2>1. CASE q \in Gone(a.printers, b.printers)
    BY <2>1 DEF Gone, Arrived, Altered, PrinterDiff, PrinterRemoved, PrinterChanged
  <2>2. CASE q \in Arrived(a.printers, b.printers) \cup Altered(a.printers, b.printers)
    BY <2>2 DEF Gone, Arrived, Altered, PrinterDiff, PrinterRemoved, PrinterChanged
  <2> QED
    BY <2>1, <2>2 DEF PrinterDiff, PrinterRemoved, PrinterChanged
<1>4. PrinterDiff(c, b) = {f \in PrinterDiff(a, b) : f.id # q}
  BY <1>2 DEF PrinterDiff, PrinterRemoved, PrinterChanged
<1>5. PrinterDiff(c, b) = PrinterDiff(a, b) \ {e}
  BY <1>3, <1>4
<1>6. JobDiff(c, b) = JobDiff(a, b)
  BY <1>1 DEF JobDiff
<1>7. e \notin JobDiff(a, b)
  BY DEF PrinterDiff, PrinterRemoved, PrinterChanged,
         JobDiff, JobRemoved, JobAdded, JobChanged
<1> QED
  BY <1>5, <1>6, <1>7 DEF Diff, c

\* Once an event of the difference is applied, the rest is the difference.
LEMMA DiffStep ==
    ASSUME NEW a \in Snapshots, NEW b \in Snapshots, NEW e \in Diff(a, b)
    PROVE  Diff(Apply(a, e), b) = Diff(a, b) \ {e}
<1>1. CASE e \in JobDiff(a, b)
  <2>1. /\ e.kind \in {"JobAdded", "JobChanged", "JobRemoved"}
        /\ e.id \in JobIds
        /\ e.item = b.jobs[e.id]
    BY <1>1 DEF JobDiff, JobAdded, JobChanged, JobRemoved,
                Gone, Arrived, Altered, Snapshots
  <2>2. Apply(a, e) = [a EXCEPT !.jobs[e.id] = b.jobs[e.id]]
    BY <2>1 DEF Apply
  <2> QED
    BY <1>1, <2>1, <2>2, JobTold
<1>2. CASE e \in PrinterDiff(a, b)
  <2>1. /\ e.kind \in {"PrinterChanged", "PrinterRemoved"}
        /\ e.id \in Queues
        /\ e.item = b.printers[e.id]
    BY <1>2 DEF PrinterDiff, PrinterChanged, PrinterRemoved,
                Gone, Arrived, Altered, Snapshots
  <2>2. Apply(a, e) = [a EXCEPT !.printers[e.id] = b.printers[e.id]]
    BY <2>1 DEF Apply
  <2> QED
    BY <1>2, <2>1, <2>2, PrinterTold
<1> QED
  BY <1>1, <1>2 DEF Diff

-----------------------------------------------------------------------------
(* Type correctness. *)

\* What the decoders make of a well-typed reply.
LEMMA DecodeType ==
    ASSUME NEW reply, NEW dflt, NEW entries \in [JobIds -> JobEntries \cup {None}]
    PROVE  /\ DecodePrinters(reply, dflt) \in [Queues -> Printers \cup {None}]
           /\ DecodeJobs(entries) \in [JobIds -> Jobs \cup {None}]
<1>1. \A v : PrinterStateFromIpp(v) \in PrinterStates \cup {None}
  BY DEF PrinterStateFromIpp
<1>2. \A v : JobStateFromIpp(v) \in JobStates \cup {None}
  BY DEF JobStateFromIpp
<1>3. DecodePrinters(reply, dflt) \in [Queues -> Printers \cup {None}]
  BY <1>1 DEF DecodePrinters, Printers
<1>4. ASSUME NEW j \in JobIds, entries[j] # None
      PROVE  entries[j].printer \in Queues
  BY <1>4 DEF JobEntries
<1>5. DecodeJobs(entries) \in [JobIds -> Jobs \cup {None}]
  BY <1>2, <1>4 DEF DecodeJobs, Jobs
<1> QED
  BY <1>3, <1>5

LEMMA EmptyType == EmptySnapshot \in Snapshots
  BY DEF EmptySnapshot, NoPrinters, NoJobs, Snapshots

LEMMA BackoffType == \A b \in Backoffs : BackoffAfter(b) \in Backoffs \ {0}
  BY DEF Backoffs, BackoffAfter, MAX_BACKOFF

\* lpoptions never names anything but a destination or nothing.
LEMMA ChosenType == CacheTypeOK => Chosen \in Queues \cup {None}
  BY DEF CacheTypeOK, Chosen, Named

LEMMA ServerType == ServerTypeOK /\ ServerNext => ServerTypeOK'
<1> SUFFICES ASSUME ServerTypeOK, ServerNext
             PROVE  ServerTypeOK'
  OBVIOUS
<1> USE DEF ServerTypeOK, JobEntries
<1>1. ASSUME NEW q \in Queues, NEW c \in QueueCodes, SetQueue(q, c)
      PROVE  ServerTypeOK'
  BY <1>1 DEF SetQueue
<1>2. ASSUME NEW q \in Queues, DeleteQueue(q)
      PROVE  ServerTypeOK'
  BY <1>2 DEF DeleteQueue
<1>3. ASSUME NEW j \in JobIds, NEW q \in Queues, NEW c \in JobCodes, SetJob(j, q, c)
      PROVE  ServerTypeOK'
  BY <1>3 DEF SetJob
<1>4. ASSUME NEW j \in JobIds, JobLeaves(j)
      PROVE  ServerTypeOK'
  BY <1>4 DEF JobLeaves
<1>5. ASSUME NEW q \in Queues, SetDefault(q)
      PROVE  ServerTypeOK'
  BY <1>5 DEF SetDefault
<1>6. CASE Outage \/ Recovery
  BY <1>6 DEF Outage, Recovery
<1> QED
  BY <1>1, <1>2, <1>3, <1>4, <1>5, <1>6 DEF ServerNext

LEMMA CacheType ==
    ASSUME CacheTypeOK, ServerTypeOK, NEW t \in Tasks, Borrow(t)
    PROVE  CacheTypeOK'
<1>1. Chosen \in Queues \cup {None} /\ default \in Queues \cup {None}
  BY ChosenType DEF ServerTypeOK
<1> QED
  BY <1>1 DEF CacheTypeOK, CallStates, Borrow, BeginCall, Resolve, ServerAnswers,
              AskFails, Store, Return, Abandon, Moves

LEMMA InitType == Init => TypeOK
  BY EmptyType DEF Init, ServerInit, CacheInit, CallStates, CacheTypeOK, PollInit, TypeOK,
                   Locations, Backoffs

LEMMA NextType == TypeOK /\ Waiting /\ [Next]_vars => TypeOK'
<1> SUFFICES ASSUME TypeOK, Waiting, [Next]_vars
             PROVE  TypeOK'
  OBVIOUS
<1> USE DEF TypeOK
<1>1. CASE BeginPoll
  BY <1>1 DEF BeginPoll, CacheTypeOK, ServerTypeOK, serverVars, Locations
<1>2. CASE ResolveDefault
  <2>1. Borrow(Poller)
    BY <1>2 DEF ResolveDefault, Borrow
  <2>2. CacheTypeOK'
    BY <2>1, CacheType, PollerAssumption
  <2> QED
    BY <1>2, <2>2 DEF ResolveDefault, ServerTypeOK, serverVars, Locations
<1>3. CASE ListPrinters
  <2>1. current' \in Snapshots
    BY <1>3, DecodeType DEF ListPrinters, ServerTypeOK, Snapshots, NoJobs
  <2> QED
    BY <1>3, <2>1 DEF ListPrinters, ServerTypeOK, CacheTypeOK, serverVars, cacheVars,
                      Locations
<1>4. CASE ListJobs
  <2>1. current' \in Snapshots
    BY <1>4, DecodeType DEF ListJobs, Waiting, ServerTypeOK, Snapshots
  <2>2. Owed(previous, current') \subseteq Events
    BY <2>1, DiffType DEF Owed, Events, Resyncs
  <2> QED
    BY <1>4, <2>1, <2>2 DEF ListJobs, ServerTypeOK, CacheTypeOK, serverVars, cacheVars,
                            Locations, Backoffs
<1>5. CASE \E e \in pending : YieldEvent(e)
  <2>1. PICK e \in pending : YieldEvent(e)
    BY <1>5
  <2>2. view' \in Snapshots
    BY <2>1, ApplyType DEF YieldEvent
  <2> QED
    BY <2>1, <2>2 DEF YieldEvent, ServerTypeOK, CacheTypeOK, serverVars, cacheVars
<1>6. CASE Settle
  BY <1>6 DEF Settle, ServerTypeOK, CacheTypeOK, serverVars, cacheVars, Locations
<1>7. CASE RequestFails
  BY <1>7 DEF RequestFails, ServerTypeOK, CacheTypeOK, serverVars, cacheVars, Locations
<1>8. CASE BackOff
  BY <1>8, BackoffType DEF BackOff, ServerTypeOK, CacheTypeOK, serverVars, cacheVars,
                           Locations
<1>9. CASE Wake
  BY <1>9 DEF Wake, ServerTypeOK, CacheTypeOK, serverVars, cacheVars, Locations, Backoffs
<1>10. CASE Reopen
  BY <1>10 DEF Reopen, ServerTypeOK, CacheTypeOK, serverVars, Locations, Backoffs, CallStates
<1>11. CASE OtherTasks
  BY <1>11, CacheType DEF OtherTasks, Others, ServerTypeOK, serverVars, pollVars
<1>12. CASE Server
  BY <1>12, ServerType DEF Server, CacheTypeOK, cacheVars, pollVars
<1>13. CASE User
  BY <1>13 DEF User, EditLpoptions, CacheTypeOK, ServerTypeOK, serverVars, pollVars
<1>14. CASE UNCHANGED vars
  BY <1>14 DEF vars, CacheTypeOK, ServerTypeOK, serverVars, cacheVars, pollVars
<1> QED
  BY <1>1, <1>2, <1>3, <1>4, <1>5, <1>6, <1>7, <1>8, <1>9, <1>10, <1>11, <1>12,
     <1>13, <1>14 DEF Next, Poll

-----------------------------------------------------------------------------
(* The consumer's state. *)

LEMMA InitPoll == Init => PollInv
  BY DEF Init, PollInit, PollInv, ViewTracksSnapshot, Telling, Waiting

\* What is owed by a completed snapshot is the difference from the consumer's
\* state if it has one, and a full reload otherwise.
LEMMA NextPoll == TypeOK /\ PollInv /\ [Next]_vars => PollInv'
<1> SUFFICES ASSUME TypeOK, PollInv, [Next]_vars
             PROVE  PollInv'
  OBVIOUS
<1> USE NoneAssumption DEF PollInv, TypeOK
<1>1. CASE BeginPoll
  BY <1>1 DEF BeginPoll, ViewTracksSnapshot, Telling, Waiting
<1>2. CASE ResolveDefault
  BY <1>2 DEF ResolveDefault, ViewTracksSnapshot, Telling, Waiting
<1>3. CASE ListPrinters
  <2>1. current' \in Snapshots
    BY <1>3, DecodeType DEF ListPrinters, ServerTypeOK, Snapshots, NoJobs
  <2> QED
    BY <1>3, <2>1 DEF ListPrinters, ViewTracksSnapshot, Telling, Waiting
<1>4. CASE ListJobs
  <2>1. current' \in Snapshots
    BY <1>4, DecodeType DEF ListJobs, Waiting, ServerTypeOK, Snapshots
  <2>2. pending' = IF live THEN Diff(view, current') ELSE {Resynchronised(current')}
    BY <1>4 DEF ListJobs, Owed, Waiting, ViewTracksSnapshot
  <2> QED
    BY <1>4, <2>1, <2>2 DEF ListJobs, ViewTracksSnapshot, Telling, Waiting
<1>5. CASE \E e \in pending : YieldEvent(e)
  <2>1. PICK e \in pending : YieldEvent(e)
    BY <1>5
  <2>2. pc = "yield" /\ previous = None /\ current \in Snapshots /\ view \in Snapshots
    BY <2>1 DEF YieldEvent, Telling
  <2>3. CASE live
    <3>1. Diff(view', current) = pending \ {e}
      BY <2>1, <2>2, <2>3, DiffStep DEF YieldEvent, Telling
    <3> QED
      BY <2>1, <2>2, <2>3, <3>1 DEF YieldEvent, ViewTracksSnapshot, Telling, Waiting
  <2>4. CASE ~live
    <3>1. e = Resynchronised(current) /\ pending' = {}
      BY <2>1, <2>2, <2>4 DEF YieldEvent, Telling
    <3>2. view' = current /\ live'
      BY <2>1, <3>1 DEF YieldEvent, Apply, Resynchronised
    <3>3. Diff(view', current) = {}
      BY <3>2 DEF Diff, JobDiff, PrinterDiff, Gone, Arrived, Altered
    <3> QED
      BY <2>1, <2>2, <3>1, <3>2, <3>3
         DEF YieldEvent, ViewTracksSnapshot, Telling, Waiting
  <2> QED
    BY <2>3, <2>4
<1>6. CASE Settle
  <2>1. live /\ Diff(view, current) = {}
    BY <1>6 DEF Settle, Telling
  <2>2. view = current
    BY <1>6, <2>1, NoDiff DEF Settle, Telling
  <2> QED
    BY <1>6, <2>1, <2>2 DEF Settle, ViewTracksSnapshot, Telling, Waiting
<1>7. CASE RequestFails
  BY <1>7 DEF RequestFails, ViewTracksSnapshot, Telling, Waiting
<1>8. CASE BackOff
  BY <1>8 DEF BackOff, ViewTracksSnapshot, Telling, Waiting
<1>9. CASE Wake
  BY <1>9 DEF Wake, ViewTracksSnapshot, Telling, Waiting
<1>10. CASE Reopen
  BY <1>10 DEF Reopen, ViewTracksSnapshot, Telling, Waiting
<1>11. CASE UNCHANGED pollVars
  BY <1>11 DEF pollVars, ViewTracksSnapshot, Telling, Waiting
<1> QED
  BY <1>1, <1>2, <1>3, <1>4, <1>5, <1>6, <1>7, <1>8, <1>9, <1>10, <1>11
     DEF Next, Poll, OtherTasks, Server, User, vars

\* Every variable keeps its type and the poll invariant holds, whatever the
\* daemon, the user, the other tasks and the consumer do.
THEOREM Invariance == Spec => [](TypeOK /\ PollInv)
<1>1. Init => TypeOK /\ PollInv
  BY InitType, InitPoll
<1>2. TypeOK /\ PollInv /\ [Next]_vars => (TypeOK /\ PollInv)'
  BY NextType, NextPoll DEF PollInv
<1> QED
  BY <1>1, <1>2, PTL DEF Spec

\* Each variable of the stream, the cache and the daemon is of its type.
THEOREM TypeCorrect == Spec => []TypeOK
  BY Invariance, PTL

\* A consumer that applies every event holds, between polls, the snapshot the
\* next poll is compared with.
THEOREM NothingLost == Spec => []ViewTracksSnapshot
  BY Invariance, PTL DEF PollInv

\* While a poll is told, what is left to tell is the difference between what
\* the consumer has and the snapshot it is told about.
THEOREM RestIsDifference == Spec => []Telling
  BY Invariance, PTL DEF PollInv

\* At any other time nothing is left to tell, and a consumer without a kept
\* snapshot behind it waits for a full reload.
THEOREM NothingElseIsTold == Spec => []Waiting
  BY Invariance, PTL DEF PollInv

\* No event contradicts what the consumer has when it gets it.
THEOREM NoContradiction == Spec => []EventsFitView
<1>1. TypeOK /\ PollInv => EventsFitView
  <2> SUFFICES ASSUME TypeOK, PollInv, NEW e \in pending
               PROVE  Fits(view, e) /\ (e.kind # "Resynchronised" => live)
    BY DEF EventsFitView
  <2>1. pc = "yield"
    BY DEF PollInv, Waiting
  <2>2. CASE live
    BY <2>1, <2>2, DiffFits DEF PollInv, Telling, TypeOK
  <2>3. CASE ~live
    BY <2>1, <2>3 DEF PollInv, Telling, Fits, Resynchronised
  <2> QED
    BY <2>2, <2>3
<1> QED
  BY <1>1, Invariance, PTL

-----------------------------------------------------------------------------
(* The order of the events, and the refinement. *)

\* Only the telling of an event changes what the consumer has, and an event
\* of the difference that is not a full reload goes to a live consumer.
LEMMA ViewStep ==
    ASSUME TypeOK, PollInv, [Next]_vars, view' # view \/ live'
    PROVE  \/ view' = view /\ live' = live
           \/ \E e \in pending : YieldEvent(e)
<1>1. CASE Poll
  BY <1>1 DEF Poll, BeginPoll, ResolveDefault, ListPrinters, ListJobs, Settle,
              RequestFails, BackOff, Wake
<1>2. CASE Reopen
  BY <1>2 DEF Reopen
<1>3. CASE UNCHANGED pollVars
  BY <1>3 DEF pollVars
<1> QED
  BY <1>1, <1>2, <1>3 DEF Next, OtherTasks, Server, User, vars

\* When a new job reaches a live consumer, every job that left between the
\* same two polls has been taken out of its state.
THEOREM RemovalsFirst == Spec => OldLeaveBeforeNewArrive
<1>1. ASSUME TypeOK, PollInv, [Next]_vars,
             NEW j \in JobIds, NEW k \in JobIds,
             live, view.jobs[j] = None, view'.jobs[j] # None, view.jobs[k] # None
      PROVE  current.jobs[k] # None
  <2>1. PICK e \in pending : YieldEvent(e)
    BY <1>1, ViewStep
  <2>2. /\ pending = Diff(view, current)
        /\ view \in Snapshots /\ current \in Snapshots
        /\ view' = Apply(view, e)
        /\ e \in Diff(view, current) /\ e \in Foremost(pending)
    BY <1>1, <2>1 DEF YieldEvent, PollInv, Telling, TypeOK
  <2>3. e.kind \in {"JobAdded", "JobChanged"}
    <3>1. CASE e \in PrinterDiff(view, current)
      <4>1. view'.jobs = view.jobs
        BY <2>2, <3>1 DEF PrinterDiff, PrinterRemoved, PrinterChanged, Apply, Snapshots
      <4> QED
        BY <1>1, <4>1
    <3>2. CASE \E i \in Gone(view.jobs, current.jobs) : e = JobRemoved(i)
      <4>1. PICK i \in Gone(view.jobs, current.jobs) : e = JobRemoved(i)
        BY <3>2
      <4>2. view' = [view EXCEPT !.jobs[i] = None] /\ i \in JobIds
        BY <2>2, <4>1 DEF JobRemoved, Apply, Gone, Snapshots
      <4>3. view'.jobs[j] = None
        BY <1>1, <2>2, <4>2 DEF Snapshots
      <4> QED
        BY <1>1, <4>3
    <3> QED
      BY <2>2, <3>1, <3>2 DEF Diff, JobDiff, JobAdded, JobChanged
  <2>4. ASSUME current.jobs[k] = None
        PROVE  FALSE
    <3>1. JobRemoved(k) \in pending
      BY <1>1, <2>2, <2>4 DEF Diff, JobDiff, Gone, Snapshots
    <3>2. Rank(e) <= Rank(JobRemoved(k))
      BY <2>2, <3>1 DEF Foremost
    <3>3. Rank(JobRemoved(k)) = 0 /\ Rank(e) = 1
      BY <2>3 DEF Rank, JobRemoved
    <3> QED
      BY <3>2, <3>3
  <2> QED
    BY <2>4
<1>2. TypeOK /\ PollInv /\ [Next]_vars =>
        [ \A j, k \in JobIds :
            live /\ view.jobs[j] = None /\ view'.jobs[j] # None
                => (view.jobs[k] # None => current.jobs[k] # None) ]_vars
  BY <1>1
<1> QED
  BY <1>2, Invariance, PTL DEF Spec, OldLeaveBeforeNewArrive

\* EventFeed speaks of the same snapshots and events.
LEMMA FeedData ==
    /\ Feed!EmptySnapshot = EmptySnapshot
    /\ Feed!Snapshots = Snapshots
    /\ Feed!JobEvents \cup Feed!PrinterEvents = JobEvents \cup PrinterEvents
    /\ \A s, e : Feed!Fits(s, e) <=> Fits(s, e)
    /\ \A s, e : Feed!Apply(s, e) = Apply(s, e)
<1>1. Feed!Printers = Printers /\ Feed!Jobs = Jobs
  BY DEF Feed!Printers, Printers, Feed!PrinterStates, PrinterStates,
         Feed!Jobs, Jobs, Feed!JobStates, JobStates
<1>2. Feed!EmptySnapshot = EmptySnapshot
  BY DEF Feed!EmptySnapshot, EmptySnapshot, Feed!NoPrinters, NoPrinters,
         Feed!NoJobs, NoJobs
<1>3. Feed!Snapshots = Snapshots
  BY <1>1 DEF Feed!Snapshots, Snapshots
<1>4. Feed!JobEvents = JobEvents
  BY <1>1 DEF Feed!JobEvents, JobEvents, Feed!JobAdded, JobAdded,
              Feed!JobChanged, JobChanged, Feed!JobRemoved, JobRemoved
<1>5. Feed!PrinterEvents = PrinterEvents
  BY <1>1 DEF Feed!PrinterEvents, PrinterEvents, Feed!PrinterChanged, PrinterChanged,
              Feed!PrinterRemoved, PrinterRemoved
<1>6. \A s, e : Feed!Fits(s, e) <=> Fits(s, e)
  BY DEF Feed!Fits, Fits
<1>7. \A s, e : Feed!Apply(s, e) = Apply(s, e)
  BY DEF Feed!Apply, Apply
<1> QED
  BY <1>2, <1>3, <1>4, <1>5, <1>6, <1>7

\* The stream implements EventFeed: each step tells the consumer one fitting
\* change or a full reload, loses it, or is invisible to it.
THEOREM Refinement == Spec => FeedRefined
<1>1. Init => Feed!Init
  BY FeedData DEF Init, PollInit, Feed!Init
<1>2. TypeOK /\ PollInv /\ [Next]_vars => [Feed!Next]_<<view, live>>
  <2> SUFFICES ASSUME TypeOK, PollInv, [Next]_vars
               PROVE  [Feed!Next]_<<view, live>>
    OBVIOUS
  <2>1. CASE view' = view /\ ~live'
    BY <2>1 DEF Feed!Next, Feed!Lose
  <2>2. CASE view' = view /\ live' = live
    BY <2>2
  <2>3. CASE \E e \in pending : YieldEvent(e)
    <3>1. PICK e \in pending : YieldEvent(e)
      BY <2>3
    <3>2. /\ view' = Apply(view, e)
          /\ live' = (live \/ e.kind = "Resynchronised")
          /\ current \in Snapshots /\ view \in Snapshots
          /\ pending = IF live THEN Diff(view, current) ELSE {Resynchronised(current)}
      BY <3>1 DEF YieldEvent, PollInv, Telling, TypeOK
    <3>3. CASE live
      <4>1. e \in JobEvents \cup PrinterEvents /\ Fits(view, e)
        BY <3>1, <3>2, <3>3, DiffType, DiffFits
      <4> QED
        BY <3>2, <3>3, <4>1, FeedData DEF Feed!Next, Feed!Change
    <3>4. CASE ~live
      <4>1. e = Resynchronised(current)
        BY <3>1, <3>2, <3>4
      <4>2. view' = current
        BY <3>2, <4>1 DEF Apply, Resynchronised
      <4>3. live' = TRUE
        BY <3>2, <4>1 DEF Resynchronised
      <4> QED
        BY <3>2, <4>2, <4>3, FeedData DEF Feed!Next, Feed!Reload
    <3> QED
      BY <3>3, <3>4
  <2> QED
    BY <2>1, <2>2, <2>3, ViewStep
<1> QED
  BY <1>1, <1>2, Invariance, PTL DEF Spec, FeedRefined, Feed!Spec

-----------------------------------------------------------------------------
(* With history: the delays of the retries, for any number of failures,    *)
(* and what a full reload takes the default from.                          *)

\* The retry delay after n failures in a row.
DelayAfter(n) == IF n = 0 THEN 0 ELSE IF n <= 5 THEN Doubling[n] ELSE MAX_BACKOFF

\* The delay the loop keeps is that of the failures so far; a failure is added
\* when it is seen, and its delay when the loop backs off.
RetryInv ==
    /\ failures \in 0..MaxFailures
    /\ pc = "failed" => failures > 0 /\ BackoffAfter(backoff) = DelayAfter(failures)
    /\ pc # "failed" => backoff = DelayAfter(failures)
    /\ pc = "yield" => failures = 0
    /\ RetryDelay

\* One more failure moves the delay on by one step of backoff_after, also where
\* the count of failures stops.
LEMMA DelaySteps ==
    ASSUME NEW n \in Nat
    PROVE  /\ BackoffAfter(DelayAfter(n)) = DelayAfter(n + 1)
           /\ n > 5 => DelayAfter(n + 1) = DelayAfter(n)
           /\ n > 0 => DelayAfter(n) # 0
<1> USE DEF DelayAfter, BackoffAfter, MAX_BACKOFF, Doubling
<1>1. CASE n = 0
  BY <1>1
<1>2. CASE n = 1
  BY <1>2
<1>3. CASE n = 2
  BY <1>3
<1>4. CASE n = 3
  BY <1>4
<1>5. CASE n = 4
  BY <1>5
<1>6. CASE n = 5
  BY <1>6
<1>7. CASE n > 5
  BY <1>7
<1> QED
  BY <1>1, <1>2, <1>3, <1>4, <1>5, <1>6, <1>7

LEMMA InitRetry == HInit => RetryInv
  BY MaxFailuresAssumption DEF HInit, Init, PollInit, RetryInv, RetryDelay, DelayAfter

\* A step is one of the stream's own, or leaves its place and delays alone.
LEMMA NextRetry == TypeOK /\ PollInv /\ RetryInv /\ [HNext]_<<vars, history>> => RetryInv'
<1> SUFFICES ASSUME TypeOK, RetryInv, [HNext]_<<vars, history>>
             PROVE  RetryInv'
  OBVIOUS
<1> USE MaxFailuresAssumption DEF RetryInv
<1>1. CASE RequestFails
  <2>1. /\ HNext /\ pc # "failed" /\ pc' = "failed" /\ backoff' = backoff
        /\ failures' = IF failures < MaxFailures THEN failures + 1 ELSE failures
    BY <1>1 DEF RequestFails, vars, pollVars, HNext, FailuresNext
  <2>2. failures' > 0 /\ failures' \in 0..MaxFailures
    BY <2>1
  <2>3. BackoffAfter(backoff') = DelayAfter(failures')
    BY <2>1, DelaySteps
  <2> QED
    BY <2>1, <2>2, <2>3 DEF RetryDelay
<1>2. CASE ~RequestFails /\ UNCHANGED <<vars, history>>
  BY <1>2 DEF vars, pollVars, history, RetryDelay
<1>3. ASSUME HNext, ~RequestFails
      PROVE  RetryInv'
  <2>1. /\ Next
        /\ failures' = IF ListJobs \/ Reopen THEN 0 ELSE failures
        /\ failures' \in 0..MaxFailures
    BY <1>3 DEF HNext, FailuresNext
  <2>2. ListJobs \/ Reopen => backoff' = 0 /\ pc' \in {"yield", "head"}
    BY DEF ListJobs, Reopen
  <2>3. CASE ListJobs \/ Reopen
    BY <2>1, <2>2, <2>3 DEF RetryDelay, DelayAfter
  <2>4. CASE BackOff /\ ~(ListJobs \/ Reopen)
    <3>1. /\ pc = "failed" /\ pc' = "sleep" /\ failures' = failures /\ failures > 0
          /\ backoff' = DelayAfter(failures) /\ delay' = DelayAfter(failures)
      BY <2>1, <2>4 DEF BackOff
    <3> QED
      BY <2>1, <3>1 DEF RetryDelay, DelayAfter
  <2>5. CASE Settle /\ ~(ListJobs \/ Reopen)
    BY <2>1, <2>5 DEF Settle, RetryDelay
  <2>6. CASE /\ BeginPoll \/ ResolveDefault \/ ListPrinters
                \/ (\E e \in pending : YieldEvent(e)) \/ Wake
             /\ ~(ListJobs \/ Reopen)
    <3>1. /\ failures' = failures /\ backoff' = backoff
          /\ pc' # "failed" /\ pc # "failed" /\ pc' # "sleep"
          /\ pc' = "yield" => pc = "yield"
      BY <2>1, <2>6 DEF BeginPoll, ResolveDefault, ListPrinters, YieldEvent, Wake
    <3> QED
      BY <2>1, <3>1 DEF RetryDelay
  <2>7. CASE UNCHANGED pollVars /\ ~(ListJobs \/ Reopen)
    BY <2>1, <2>7 DEF pollVars, RetryDelay
  <2> QED
    BY <1>3, <2>1, <2>3, <2>4, <2>5, <2>6, <2>7
       DEF Next, Poll, OtherTasks, Server, User
<1> QED
  BY <1>1, <1>2, <1>3

-----------------------------------------------------------------------------
(* The default of a full reload. *)

\* From its invalidation until the stream reads it, the cache of a full reload
\* holds nothing old unless another task has put it there.
FreshInv ==
    /\ call[Poller] # "idle" => pc = "resolve"
    /\ previous = None /\ ~storedLate =>
        /\ pc = "resolve" /\ call[Poller] = "idle" => ~cacheOld
        /\ pc = "resolve" /\ call[Poller] \in {"storing", "returned"} => Poller \notin answerOld
    /\ answerOld \subseteq Tasks
    /\ ResyncTrustsNothingOld

LEMMA InitFresh == HInit => FreshInv
  BY PollerAssumption DEF HInit, Init, CacheInit, PollInit, FreshInv, ResyncTrustsNothingOld

LEMMA NextFresh ==
    TypeOK /\ FreshInv /\ [HNext]_<<vars, history>> => FreshInv'
<1> SUFFICES ASSUME TypeOK, FreshInv, [HNext]_<<vars, history>>
             PROVE  FreshInv'
  OBVIOUS
<1> USE DEF FreshInv, ResyncTrustsNothingOld
<1>1. CASE RequestFails
  <2>1. answerOld' \subseteq Tasks
    BY <1>1 DEF RequestFails, vars, pollVars, HNext, AnswerOldNext
  <2>2. pc' = "failed" /\ call' = call /\ pc # "resolve"
    BY <1>1 DEF RequestFails, cacheVars
  <2> QED
    BY <2>1, <2>2
<1>2. CASE ~RequestFails /\ UNCHANGED <<vars, history>>
  BY <1>2 DEF vars, cacheVars, pollVars, history
<1>3. ASSUME HNext, ~RequestFails
      PROVE  FreshInv'
  <2>0. answerOld' \subseteq Tasks
    BY <1>3 DEF HNext, AnswerOldNext
  <2>1. Next /\ (Poller \in answerOld' =>
                  IF Began(Poller) THEN call'[Poller] = "returned" /\ cacheOld
                  ELSE Poller \in answerOld /\ ~Found(Poller))
    BY <1>3 DEF HNext, AnswerOldNext
  <2>2. ASSUME cacheOld'
        PROVE  cache' # Unset /\ (cacheOld \/ \E t \in answerOld : Stored(t))
    BY <1>3, <2>2 DEF HNext, CacheOldNext
  <2>late. ASSUME pc' \in {"resolve", "printers", "jobs"}, ~storedLate'
           PROVE  ~storedLate /\ ~LateStore
    BY <1>3, <2>late DEF HNext, StoredLateNext
  <2>3. CASE BeginPoll
    BY <2>0, <2>1, <2>2, <2>3, <2>late DEF BeginPoll, Began, Stored
  <2>4. CASE ResolveDefault
    <3>1. CASE BeginCall(Poller) /\ pc = "resolve" /\ pc' = pc /\ previous' = previous
      BY <2>0, <2>1, <2>2, <2>late, <3>1, PollerAssumption
         DEF BeginCall, Moves, Began, Stored, Found, TypeOK, CacheTypeOK
    <3>2. CASE /\ ServerAnswers(Poller) \/ AskFails(Poller)
               /\ pc = "resolve" /\ pc' = pc /\ previous' = previous
      BY <2>0, <2>1, <2>2, <2>late, <3>2, PollerAssumption
         DEF ServerAnswers, AskFails, Moves, Began, Stored, Found, TypeOK, CacheTypeOK
    <3>3. CASE Store(Poller) /\ pc = "resolve" /\ pc' = pc /\ previous' = previous
      BY <2>0, <2>1, <2>2, <2>late, <3>3, PollerAssumption
         DEF Store, Began, Stored, Found, TypeOK, CacheTypeOK
    <3>4. CASE Return(Poller) /\ pc = "resolve" /\ pc' = "printers" /\ previous' = previous
      BY <2>0, <2>1, <2>2, <2>late, <3>4, PollerAssumption
         DEF Return, Began, Stored, Found, TypeOK, CacheTypeOK
    <3> QED
      BY <2>4, <3>1, <3>2, <3>3, <3>4 DEF ResolveDefault, Resolve
  <2>5. CASE ListPrinters \/ ListJobs \/ (\E e \in pending : YieldEvent(e))
    BY <2>0, <2>1, <2>2, <2>late, <2>5 DEF ListPrinters, ListJobs, YieldEvent, cacheVars, Began, Stored
  <2>6. CASE Settle \/ BackOff \/ Wake
    BY <2>0, <2>1, <2>2, <2>late, <2>6 DEF Settle, BackOff, Wake, cacheVars, Began, Stored
  <2>7. CASE Reopen
    BY <2>0, <2>1, <2>2, <2>late, <2>7, PollerAssumption DEF Reopen, Began, Stored, TypeOK, CacheTypeOK
  <2>8. CASE Server \/ User
    BY <2>0, <2>1, <2>2, <2>late, <2>8
       DEF Server, User, EditLpoptions, pollVars, cacheVars, Began, Stored
  <2>9. CASE OtherTasks
    <3>1. PICK t \in Others : Borrow(t) /\ UNCHANGED <<serverVars, pollVars>>
      BY <2>9 DEF OtherTasks
    <3>2. t \in Tasks /\ t # Poller /\ pc' = pc /\ previous' = previous
      BY <3>1 DEF Others, pollVars
    <3>3. \A s \in Tasks \ {t} : call'[s] = call[s]
      BY <3>1, <3>2 DEF Borrow, BeginCall, Resolve, ServerAnswers, AskFails, Store, Return,
         Abandon, Moves, TypeOK, CacheTypeOK
    <3>4. ~Began(Poller) /\ ~Found(Poller) /\ \A s \in Tasks : Stored(s) => s = t
      BY <3>2, <3>3, PollerAssumption DEF Began, Found, Stored
    <3>5. ~LateStore /\ pc = "resolve" /\ previous = None /\ call[Poller] = "idle" =>
            \A s \in answerOld : ~Stored(s)
      BY <3>1, <3>4 DEF LateStore
    <3>6. call'[Poller] = call[Poller]
      BY <3>2, <3>3, PollerAssumption
    <3> QED
      BY <2>0, <2>1, <2>2, <2>late, <3>2, <3>4, <3>5, <3>6
  <2> QED
    BY <1>3, <2>1, <2>3, <2>4, <2>5, <2>6, <2>7, <2>8, <2>9 DEF Next, Poll
<1> QED
  BY <1>1, <1>2, <1>3

-----------------------------------------------------------------------------
(* The theorems. *)

LEMMA HistoryInvariance == HSpec => [](TypeOK /\ PollInv /\ RetryInv)
<1>1. HInit => TypeOK /\ PollInv /\ RetryInv
  BY InitType, InitPoll, InitRetry DEF HInit
<1>2. TypeOK /\ PollInv /\ RetryInv /\ [HNext]_<<vars, history>>
        => (TypeOK /\ PollInv /\ RetryInv)'
  <2>1. [HNext]_<<vars, history>> => [Next]_vars
    BY DEF HNext
  <2> QED
    BY <2>1, NextType, NextPoll, NextRetry DEF PollInv
<1> QED
  BY <1>1, <1>2, PTL DEF HSpec

\* The n-th failure in a row is followed by the n-th delay of 1, 2, 4, 8, 16,
\* 30, 30, ..., and a good poll by the ordinary interval.
THEOREM DelaysDouble == HSpec => []RetryDelay
  BY HistoryInvariance, PTL DEF RetryInv

\* However many tasks share the client, a full reload reports no default that was
\* found before the failure it recovers from, unless another of them has stored one
\* between the invalidation of the cache and the stream's read of it.
THEOREM ReloadIsFresh == HSpec => []ResyncTrustsNothingOld
<1>1. HInit => FreshInv
  BY InitFresh
<1>2. TypeOK /\ FreshInv /\ [HNext]_<<vars, history>> => FreshInv'
  BY NextFresh
<1>3. FreshInv => ResyncTrustsNothingOld
  BY DEF FreshInv
<1> QED
  BY <1>1, <1>2, <1>3, HistoryInvariance, PTL DEF HSpec
=============================================================================
