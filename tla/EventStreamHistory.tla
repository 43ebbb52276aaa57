------------------------- MODULE EventStreamHistory -------------------------
(***************************************************************************)
(* EventStream with history variables: they record what the properties     *)
(* below say about the past, and no step of the stream depends on them.    *)
(***************************************************************************)
EXTENDS EventStream

CONSTANT MaxFailures    \* failures are counted up to here

\* Far enough to see the delay stay at its longest, from the sixth one on.
ASSUME MaxFailuresAssumption == MaxFailures \in Nat /\ MaxFailures > 5

VARIABLES
    failures,       \* failed polls since the last good one, or the opening
    cacheOld,       \* what the cache holds was found before the last failure
    answerOld,      \* the tasks whose answer was
    storedLate      \* a LateStore happened in this poll

history == <<failures, cacheOld, answerOld, storedLate>>

HInit ==
    /\ Init
    /\ failures = 0
    /\ cacheOld = FALSE /\ answerOld = {} /\ storedLate = FALSE

-----------------------------------------------------------------------------
\* A failed poll makes every answer found so far old; a cached value is as
\* old as the answer that was stored.
Found(t) == call[t] = "asking" /\ call'[t] = "storing"
Began(t) == call[t] = "idle" /\ call'[t] # "idle"
Stored(t) == call[t] = "storing" /\ call'[t] = "returned"

AnswerOldNext ==
    IF RequestFails THEN Tasks
    ELSE {t \in Tasks :
            IF Began(t) THEN call'[t] = "returned" /\ cacheOld
                        ELSE t \in answerOld /\ ~Found(t)}

CacheOldNext ==
    IF RequestFails THEN TRUE
    ELSE IF cache' = Unset THEN FALSE
    ELSE IF \E t \in Tasks : Stored(t)
         THEN \E t \in answerOld : Stored(t)
         ELSE cacheOld

FailuresNext ==
    IF RequestFails THEN IF failures < MaxFailures THEN failures + 1 ELSE failures
    ELSE IF ListJobs \/ Reopen THEN 0 ELSE failures

\* Another task stores an answer from before the failure, after the stream has
\* invalidated the cache for a full reload and before it reads it.
LateStore ==
    /\ pc = "resolve" /\ previous = None /\ call[Poller] = "idle"
    /\ \E t \in Others : t \in answerOld /\ Stored(t)

StoredLateNext ==
    pc' \in {"resolve", "printers", "jobs"} /\ (storedLate \/ LateStore)

HNext ==
    /\ Next
    /\ failures' = FailuresNext
    /\ cacheOld' = CacheOldNext
    /\ answerOld' = AnswerOldNext
    /\ storedLate' = StoredLateNext

HSpec == HInit /\ [][HNext]_<<vars, history>>
HFairSpec == HSpec /\ WF_vars(Poll)

-----------------------------------------------------------------------------
\* The n-th failure in a row is followed by a sleep of 1, 2, 4, ... seconds,
\* at most MAX_BACKOFF, and a good poll by one of POLL_INTERVAL, whatever
\* happened before.  (backoff_after, and where events resets `backoff'.)
Doubling == <<1, 2, 4, 8, 16>>

RetryDelay ==
    pc = "sleep" =>
        delay = IF failures = 0 THEN POLL_INTERVAL
                ELSE IF failures <= 5 THEN Doubling[failures] ELSE MAX_BACKOFF

\* The default that a full reload reports was found after the failure the
\* stream recovers from, unless another task put an old one back between the
\* invalidation and the read.  ("re-resolve the default printer rather than
\* trusting a cache that may predate the outage", events; default_printer
\* stores what it found whatever became of the cache while it waited.)
ResyncTrustsNothingOld ==
    pc \in {"printers", "jobs"} /\ previous = None /\ Poller \in answerOld => storedLate
=============================================================================
