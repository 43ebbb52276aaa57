---------------------------- MODULE Subscription ----------------------------
(***************************************************************************)
(* Subscriptions to a printer's events (IppPrinter::subscribe and the      *)
(* calls after it, ipp-async/src/client.rs; ipp-async/src/subscription.rs) *)
(* and the printer that grants them for a while, which is not part of the  *)
(* repository.                                                             *)
(*                                                                         *)
(* A Duration is a number of ticks.  Leases on the wire and the clock are  *)
(* in seconds.  The printer cancels nothing by itself before a lease is    *)
(* over, may grant another lease than the one asked for, and gives no id   *)
(* twice.                                                                  *)
(***************************************************************************)
EXTENDS Integers, FiniteSets, IppSend

CONSTANTS
    SubIds,
    Leases,     \* the Durations callers ask for, in ticks
    Second,     \* ticks in a second
    IntLimit,   \* an i32 is at least -IntLimit and below IntLimit
    MaxLease,   \* the longest lease the printer grants, in seconds
    MaxEvents,  \* events a subscription captures at most
    MaxWire     \* requests under way at most, late ones included

ASSUME SubscriptionAssumption ==
    /\ Leases \subseteq Nat
    /\ {Second, IntLimit, MaxLease} \subseteq Nat \ {0} /\ MaxLease < IntLimit
    /\ MaxEvents \in Nat /\ MaxWire \in Nat
    /\ None \notin SubIds \cup Int

VARIABLES
    life,       \* the printer's subscriptions: free, live or over
    granted,    \* the lease of each, 0 for no expiry
    left,       \* what is left of it
    meant,      \* the Duration its caller meant, None for no expiry
    captured,   \* how many events it has captured
    kept,       \* the captured events the printer still has, by number
    pc,         \* where each caller is
    handle,     \* the id of the Subscription it holds, or None
    since,      \* time since the call began that got the lease it has
    settled,    \* every call on the handle so far was confirmed
    sure,       \* how much longer it counts on the subscription
    latest,     \* the events its last collection returned
    earlier     \* the events the collections before returned

subVars == <<life, granted, left, meant, captured, kept>>
callerVars == <<pc, handle, since, settled, sure, latest, earlier>>
vars == <<subVars, sendVars, callerVars>>

Forever == MaxLease + 1
Events == 1..MaxEvents

-----------------------------------------------------------------------------
(* Durations, and requests. *)

\* Mutant: the conversion does not wrap.
AsIntUnwrapped(n) == n

\* Duration::as_secs, and the conversion `as i32'.
AsSecs(d) == d \div Second
AsInt(n) == ((n + IntLimit) % (2 * IntLimit)) - IntLimit

\* The attribute is left out if there is no lease.
LeaseAttribute(lease) == IF lease = None THEN None ELSE AsInt(AsSecs(lease))

\* `meant' is a note for the properties: the printer does not see it.
Subscribe(c, lease) ==
    [op |-> "Create", from |-> c, lease |-> LeaseAttribute(lease), meant |-> lease]

\* Mutant: a renewal names no lease.
RenewWithoutLease(c, s, lease) ==
    [op |-> "Renew", from |-> c, sub |-> s, lease |-> None, meant |-> lease]

Renew(c, s, lease) ==
    [op |-> "Renew", from |-> c, sub |-> s, lease |-> LeaseAttribute(lease), meant |-> lease]

About(c, s, op) == [op |-> op, from |-> c, sub |-> s]

MaybeLeases == Leases \cup {None}
WireLeases == (-IntLimit..IntLimit - 1) \cup {None}

Requests ==
    [op : {"Create"}, from : Callers, lease : WireLeases, meant : MaybeLeases]
        \cup [op : {"Renew"}, from : Callers, sub : SubIds, lease : WireLeases,
              meant : MaybeLeases]
        \cup [op : {"Read", "Collect", "Cancel"}, from : Callers, sub : SubIds]

\* A reply may lack the id, and the lease or an integer for it.
Replies ==
    [ok : BOOLEAN, sub : SubIds \cup {None}, lease : (0..MaxLease) \cup {None},
     events : SUBSET Events]

\* None is not a message either.
ASSUME MessageAssumption == None \notin Requests \cup Replies

Refusal == [ok |-> FALSE, sub |-> None, lease |-> None, events |-> {}]
Grants(s, lease) == [ok |-> TRUE, sub |-> s, lease |-> lease, events |-> {}]
Delivery(events) == [ok |-> TRUE, sub |-> None, lease |-> None, events |-> events]

\* Every variable is of its type; in particular what is sent fits an i32.
TypeOK ==
    /\ life \in [SubIds -> {"free", "live", "over"}]
    /\ granted \in [SubIds -> 0..MaxLease] /\ left \in [SubIds -> 0..MaxLease]
    /\ meant \in [SubIds -> MaybeLeases]
    /\ captured \in [SubIds -> 0..MaxEvents] /\ kept \in [SubIds -> SUBSET Events]
    /\ wire \subseteq Requests
    /\ awaiting \in [Callers -> Requests \cup {None}]
    /\ reply \in [Callers -> Replies \cup {None}]
    /\ pc \in [Callers -> {"idle", "subscribing", "held", "renewing", "reading",
                           "collecting", "cancelling"}]
    /\ handle \in [Callers -> SubIds \cup {None}]
    /\ since \in [Callers -> 0..MaxLease]
    /\ settled \in [Callers -> BOOLEAN]
    /\ sure \in [Callers -> 0..Forever]
    /\ latest \in [Callers -> SUBSET Events] /\ earlier \in [Callers -> SUBSET Events]

Init ==
    /\ life = [s \in SubIds |-> "free"]
    /\ granted = [s \in SubIds |-> 0] /\ left = [s \in SubIds |-> 0]
    /\ meant = [s \in SubIds |-> None]
    /\ captured = [s \in SubIds |-> 0] /\ kept = [s \in SubIds |-> {}]
    /\ SendInit
    /\ pc = [c \in Callers |-> "idle"]
    /\ handle = [c \in Callers |-> None]
    /\ since = [c \in Callers |-> 0]
    /\ settled = [c \in Callers |-> TRUE]
    /\ sure = [c \in Callers |-> 0]
    /\ latest = [c \in Callers |-> {}] /\ earlier = [c \in Callers |-> {}]

-----------------------------------------------------------------------------
(* The printer. *)

\* Nothing is kept of a subscription that is over.
Over(ended) ==
    /\ life' = [s \in SubIds |-> IF s \in ended THEN "over" ELSE life[s]]
    /\ granted' = [s \in SubIds |-> IF s \in ended THEN 0 ELSE granted[s]]
    /\ meant' = [s \in SubIds |-> IF s \in ended THEN None ELSE meant[s]]
    /\ captured' = [s \in SubIds |-> IF s \in ended THEN 0 ELSE captured[s]]
    /\ kept' = [s \in SubIds |-> IF s \in ended THEN {} ELSE kept[s]]

\* It may grant any lease but the endless one to who asks for some time, and
\* has no lease for less than none.
Grantable(lease) ==
    IF lease = None \/ lease = 0 THEN 0..MaxLease
    ELSE IF lease > 0 THEN 1..MaxLease ELSE {}

Lease(s, r, g) ==
    /\ granted' = [granted EXCEPT ![s] = g]
    /\ left' = [left EXCEPT ![s] = g]
    /\ meant' = [meant EXCEPT ![s] = r.meant]

GrantNew(r) ==
    /\ r.op = "Create"
    /\ \E s \in SubIds, g \in Grantable(r.lease) :
        /\ life[s] = "free"
        /\ life' = [life EXCEPT ![s] = "live"]
        /\ Lease(s, r, g)
        /\ \E id \in {s, None}, lease \in {g, None} : Answer(r, Grants(id, lease))
    /\ UNCHANGED <<captured, kept>>

GrantAgain(r) ==
    /\ r.op = "Renew" /\ life[r.sub] = "live"
    /\ \E g \in Grantable(r.lease) : Lease(r.sub, r, g)
    /\ Answer(r, Grants(None, None))
    /\ UNCHANGED <<life, captured, kept>>

Report(r) ==
    /\ r.op = "Read" /\ life[r.sub] = "live"
    /\ \E id \in {r.sub, None}, lease \in {granted[r.sub], None} :
            Answer(r, Grants(id, lease))
    /\ UNCHANGED subVars

\* Everything it still has, since it was not told from where on.
Deliver(r) ==
    /\ r.op = "Collect" /\ life[r.sub] = "live"
    /\ Answer(r, Delivery(kept[r.sub]))
    /\ UNCHANGED subVars

End(r) ==
    /\ r.op = "Cancel" /\ life[r.sub] = "live"
    /\ Over({r.sub})
    /\ left' = [left EXCEPT ![r.sub] = 0]
    /\ Answer(r, Grants(None, None))

Refuse(r) == Answer(r, Refusal) /\ UNCHANGED subVars

Capture(s) ==
    /\ life[s] = "live" /\ captured[s] < MaxEvents
    /\ captured' = [captured EXCEPT ![s] = @ + 1]
    /\ kept' = [kept EXCEPT ![s] = @ \cup {captured[s] + 1}]
    /\ UNCHANGED <<life, granted, left, meant, sendVars>>

\* The oldest event is dropped, because it was collected or for want of room.
Forget(s) ==
    /\ \E n \in kept[s] :
        /\ \A m \in kept[s] : n <= m
        /\ kept' = [kept EXCEPT ![s] = @ \ {n}]
    /\ UNCHANGED <<life, granted, left, meant, captured, sendVars>>

Printer ==
    \/ \E r \in wire :
        GrantNew(r) \/ GrantAgain(r) \/ Report(r) \/ Deliver(r) \/ End(r) \/ Refuse(r)
    \/ \E s \in SubIds : Capture(s) \/ Forget(s)

\* A second passes, for the printer and for the callers.
Expiring(s) == life[s] = "live" /\ granted[s] # 0

Tick ==
    /\ left' = [s \in SubIds |-> IF Expiring(s) THEN left[s] - 1 ELSE left[s]]
    /\ Over({s \in SubIds : Expiring(s) /\ left[s] = 1})
    /\ sure' = [c \in Callers |->
                    IF sure[c] \in 1..MaxLease THEN sure[c] - 1 ELSE sure[c]]
    /\ since' = [c \in Callers |-> IF since[c] < MaxLease THEN since[c] + 1 ELSE MaxLease]
    /\ UNCHANGED <<sendVars, pc, handle, settled, latest, earlier>>

-----------------------------------------------------------------------------
(* The callers.  A call that fails, or whose future is dropped, leaves it  *)
(* open whether the printer has processed the request, or still will.      *)

Send(c, r) == Cardinality(wire) < MaxWire /\ Post(c, r)

Goto(c, l) == pc' = [pc EXCEPT ![c] = l]

\* A call that changes the lease ends what the caller was sure of.
StartLease(c) ==
    /\ since' = [since EXCEPT ![c] = 0]
    /\ sure' = [sure EXCEPT ![c] = 0]

\* Without a handle, and free to subscribe again.
GoOn(c) ==
    /\ handle' = [handle EXCEPT ![c] = None]
    /\ settled' = [settled EXCEPT ![c] = TRUE]
    /\ StartLease(c)
    /\ latest' = [latest EXCEPT ![c] = {}] /\ earlier' = [earlier EXCEPT ![c] = {}]
    /\ Goto(c, "idle")

BeginSubscribe(c) ==
    /\ pc[c] = "idle"
    /\ \E lease \in MaybeLeases : Send(c, Subscribe(c, lease))
    /\ StartLease(c)
    /\ Goto(c, "subscribing")
    /\ UNCHANGED <<subVars, handle, settled, latest, earlier>>

\* Mutant: the lease asked for is taken for the one granted.
AskedLease(c) ==
    IF awaiting[c].op = "Create" THEN awaiting[c].lease ELSE reply[c].lease

\* Subscription::decode: zero means no expiry, and so does no integer at all.
DecodedLease(c) == IF reply[c].lease \in 1..MaxLease THEN reply[c].lease ELSE None

\* How long the subscription lasts from now at least, when it was granted
\* `lease' at some time after the call began.
Remaining(c, lease) ==
    IF lease = None THEN Forever
    ELSE IF lease > since[c] THEN lease - since[c] ELSE 0

Subscribed(c) ==
    /\ pc[c] = "subscribing" /\ Succeeds(c) /\ reply[c].sub # None
    /\ handle' = [handle EXCEPT ![c] = reply[c].sub]
    /\ sure' = [sure EXCEPT ![c] = Remaining(c, DecodedLease(c))]
    /\ Rest(c)
    /\ Goto(c, "held")
    /\ UNCHANGED <<subVars, since, settled, latest, earlier>>

\* An error, or no subscription in the reply that decodes.
SubscribeFails(c) ==
    /\ pc[c] = "subscribing" /\ Fails(c)
    /\ Rest(c)
    /\ GoOn(c)
    /\ UNCHANGED subVars

BeginRenew(c) ==
    /\ pc[c] = "held"
    /\ \E lease \in MaybeLeases : Send(c, Renew(c, handle[c], lease))
    /\ StartLease(c)
    /\ Goto(c, "renewing")
    /\ UNCHANGED <<subVars, handle, settled, latest, earlier>>

\* Ok(()) does not say which lease was granted.
Renewed(c) ==
    /\ pc[c] = "renewing" /\ Succeeds(c)
    /\ Rest(c)
    /\ Goto(c, "held")
    /\ UNCHANGED <<subVars, handle, since, settled, sure, latest, earlier>>

BeginRead(c) ==
    /\ pc[c] = "held"
    /\ Send(c, About(c, handle[c], "Read"))
    /\ Goto(c, "reading")
    /\ UNCHANGED <<subVars, handle, since, settled, sure, latest, earlier>>

HasRead(c) ==
    /\ pc[c] = "reading" /\ Succeeds(c) /\ reply[c].sub # None
    /\ sure' = [sure EXCEPT ![c] =
                    IF settled[c] THEN Remaining(c, DecodedLease(c)) ELSE 0]
    /\ Rest(c)
    /\ Goto(c, "held")
    /\ UNCHANGED <<subVars, handle, since, settled, latest, earlier>>

BeginCollect(c) ==
    /\ pc[c] = "held"
    /\ Send(c, About(c, handle[c], "Collect"))
    /\ Goto(c, "collecting")
    /\ UNCHANGED <<subVars, handle, since, settled, sure, latest, earlier>>

\* Groups that do not decode are skipped.
Collected(c) ==
    /\ pc[c] = "collecting" /\ Succeeds(c)
    /\ \E readable \in SUBSET reply[c].events :
        latest' = [latest EXCEPT ![c] = readable]
    /\ earlier' = [earlier EXCEPT ![c] = @ \cup latest[c]]
    /\ Rest(c)
    /\ Goto(c, "held")
    /\ UNCHANGED <<subVars, handle, since, settled, sure>>

\* Reading and collecting change nothing on the printer, so that it does not
\* matter whether the request is still processed.
AskingFails(c) ==
    /\ pc[c] \in {"reading", "collecting"} /\ Fails(c)
    /\ wire' = wire \ {awaiting[c]}
    /\ awaiting' = [awaiting EXCEPT ![c] = None]
    /\ reply' = [reply EXCEPT ![c] = None]
    /\ Goto(c, "held")
    /\ UNCHANGED <<subVars, handle, since, settled, sure, latest, earlier>>

BeginCancel(c) ==
    /\ pc[c] = "held"
    /\ Send(c, About(c, handle[c], "Cancel"))
    /\ StartLease(c)
    /\ Goto(c, "cancelling")
    /\ UNCHANGED <<subVars, handle, settled, latest, earlier>>

Cancelled(c) ==
    /\ pc[c] = "cancelling" /\ Succeeds(c)
    /\ Rest(c)
    /\ GoOn(c)
    /\ UNCHANGED subVars

ChangeFails(c) ==
    /\ pc[c] \in {"renewing", "cancelling"} /\ Fails(c)
    /\ settled' = [settled EXCEPT ![c] = FALSE]
    /\ Rest(c)
    /\ Goto(c, "held")
    /\ UNCHANGED <<subVars, handle, since, sure, latest, earlier>>

\* The caller forgets about its subscription.
Leave(c) ==
    /\ pc[c] = "held"
    /\ GoOn(c)
    /\ UNCHANGED <<subVars, sendVars>>

Caller(c) ==
    \/ BeginSubscribe(c) \/ Subscribed(c) \/ SubscribeFails(c)
    \/ BeginRenew(c) \/ Renewed(c) \/ BeginRead(c) \/ HasRead(c)
    \/ BeginCollect(c) \/ Collected(c) \/ AskingFails(c)
    \/ BeginCancel(c) \/ Cancelled(c) \/ ChangeFails(c) \/ Leave(c)

Next ==
    \/ \E c \in Callers : Caller(c)
    \/ Printer /\ UNCHANGED callerVars
    \/ Tick

Spec == Init /\ [][Next]_vars

-----------------------------------------------------------------------------
\* A caller that goes by a lease it was told - counted from the beginning of
\* the call that got it, and read again after a renewal, which does not say
\* what it granted - never takes a subscription that is over for a live one,
\* as long as each of its calls on it was confirmed.  A lease of None says
\* nothing: it stands for an endless one and for a reply without any.
LeaseIsKept ==
    \A c \in Callers : sure[c] \in 1..MaxLease => life[handle[c]] = "live"

\* A subscription whose caller last asked for a second or more, and for less
\* than an i32 of seconds, ends by itself, whoever forgets about it.
WholeLeaseExpires ==
    \A s \in SubIds :
        /\ life[s] = "live" /\ meant[s] # None
        /\ 1 <= AsSecs(meant[s]) /\ AsSecs(meant[s]) < IntLimit
        => granted[s] # 0

\* "`None` asks for no expiry" (IppPrinter::subscribe): a caller that named a
\* lease did not.
OnlyNoneAsksForNoExpiry ==
    \A s \in SubIds : life[s] = "live" /\ meant[s] # None => granted[s] # 0

\* "Collects what has happened since the last collection"
\* (IppPrinter::notifications): nothing that an earlier one returned.
SinceLastCollection == \A c \in Callers : latest[c] \cap earlier[c] = {}
=============================================================================
