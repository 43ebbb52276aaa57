-------------------------- MODULE SubscriptionProofs --------------------------
(***************************************************************************)
(* Proofs about Subscription, for any callers, leases and requests lost or *)
(* late, and any width of the integers on the wire.                        *)
(*                                                                         *)
(* The argument: the requests about a subscription are those of the caller *)
(* that holds it; if each of its calls was confirmed, the only one on the  *)
(* wire is that of the call of the moment.  So between two calls nothing   *)
(* but the clock moves the lease, and the clock moves what the caller      *)
(* counts on with it.                                                      *)
(***************************************************************************)
EXTENDS Subscription, TLAPS

\* The subscriptions a caller could act on, or has.
Knows(c, s) ==
    \/ handle[c] = s
    \/ pc[c] = "subscribing" /\ reply[c] # None /\ reply[c].ok /\ reply[c].sub = s
    \/ \E r \in wire : r.op # "Create" /\ r.from = c /\ r.sub = s

\* They are its own.
Apart ==
    \A c \in Callers, s \in SubIds : Knows(c, s) =>
        /\ life[s] # "free"
        /\ \A d \in Callers : Knows(d, s) => c = d

\* The lease on the wire is the one that was meant, as an i32.
WireMeant ==
    \A r \in wire : r.op \in {"Create", "Renew"} => r.lease = LeaseAttribute(r.meant)

\* A lease of the printer runs down, and is over at its end.
Running ==
    \A s \in SubIds : life[s] = "live" /\ granted[s] # 0 => left[s] \in 1..granted[s]

\* Where a caller is, it waits for the request it has sent from there.
Waits(c) ==
    /\ pc[c] \in {"idle", "subscribing"} => handle[c] = None /\ settled[c]
    /\ pc[c] \notin {"idle", "subscribing"} => handle[c] # None
    /\ pc[c] \in {"idle", "held"} => awaiting[c] = None
    /\ pc[c] \notin {"idle", "held"} => awaiting[c] # None /\ awaiting[c].from = c
    /\ pc[c] = "subscribing" => awaiting[c].op = "Create"
    /\ pc[c] = "renewing" => awaiting[c].op = "Renew" /\ awaiting[c].sub = handle[c]
    /\ pc[c] = "reading" => awaiting[c].op = "Read" /\ awaiting[c].sub = handle[c]
    /\ pc[c] = "collecting" => awaiting[c].op = "Collect" /\ awaiting[c].sub = handle[c]
    /\ pc[c] = "cancelling" => awaiting[c].op = "Cancel" /\ awaiting[c].sub = handle[c]
    /\ awaiting[c] = None => reply[c] = None
    /\ reply[c] # None => awaiting[c] \notin wire

\* No other request about the subscription a caller has, or is being given, is
\* under way.
Undisturbed(c) ==
    /\ settled[c] /\ handle[c] # None =>
        \A r \in wire : r.op # "Create" /\ r.sub = handle[c] => r = awaiting[c]
    /\ pc[c] = "subscribing" /\ reply[c] # None /\ reply[c].ok /\ reply[c].sub # None =>
        \A r \in wire : r.op # "Create" => r.sub # reply[c].sub

\* What is gone of the lease of s is not more than t; s lasts d at least, if d
\* is a lease and not for ever: that may be no more than a reply without one.
Begun(s, t) == life[s] = "live" /\ granted[s] # 0 => granted[s] - left[s] <= t
Lasts(s, d) == d \in 1..MaxLease => life[s] = "live" /\ (granted[s] # 0 => d <= left[s])

\* What a caller counts on, and what a reply will let it count on, is so.
Counted(c) ==
    /\ sure[c] # 0 => settled[c] /\ pc[c] \in {"held", "reading", "collecting"}
    /\ Lasts(handle[c], sure[c])
    /\ settled[c] =>
        /\ pc[c] \in {"held", "reading", "collecting"} => Begun(handle[c], since[c])
        /\ reply[c] # None /\ reply[c].ok =>
            /\ pc[c] = "subscribing" /\ reply[c].sub # None =>
                /\ Begun(reply[c].sub, since[c])
                /\ Lasts(reply[c].sub, Remaining(c, DecodedLease(c)))
            /\ pc[c] = "renewing" => Begun(handle[c], since[c])
            /\ pc[c] = "reading" => Lasts(handle[c], Remaining(c, DecodedLease(c)))

CallerOK(c) == Waits(c) /\ Undisturbed(c) /\ Counted(c)

LeaseInv ==
    /\ Apart /\ WireMeant /\ Running /\ WholeLeaseExpires
    /\ \A c \in Callers : CallerOK(c)

-----------------------------------------------------------------------------
(* Durations. *)

LEMMA ModRange ==
    ASSUME NEW n \in Nat, NEW m \in Nat \ {0}
    PROVE  n % m \in 0..m - 1
  OBVIOUS

LEMMA ModSmall ==
    ASSUME NEW n \in Nat, NEW m \in Nat \ {0}, n < m
    PROVE  n % m = n
  OBVIOUS

LEMMA DivNat ==
    ASSUME NEW n \in Nat, NEW m \in Nat \ {0}
    PROVE  n \div m \in Nat
  OBVIOUS

LEMMA AsSecsType == \A d \in Leases : AsSecs(d) \in Nat
  BY SubscriptionAssumption, DivNat DEF AsSecs

LEMMA AsIntRange == \A n \in Nat : AsInt(n) \in -IntLimit..IntLimit - 1
<1> SUFFICES ASSUME NEW n \in Nat
             PROVE  AsInt(n) \in -IntLimit..IntLimit - 1
  OBVIOUS
<1>1. IntLimit \in Nat \ {0} /\ 2 * IntLimit \in Nat \ {0} /\ n + IntLimit \in Nat
  BY SubscriptionAssumption
<1>2. (n + IntLimit) % (2 * IntLimit) \in 0..2 * IntLimit - 1
  BY <1>1, ModRange
<1> QED
  BY <1>1, <1>2 DEF AsInt

LEMMA AsIntSmall == \A n \in Nat : n < IntLimit => AsInt(n) = n
<1> SUFFICES ASSUME NEW n \in Nat, n < IntLimit
             PROVE  AsInt(n) = n
  OBVIOUS
<1>1. /\ IntLimit \in Nat \ {0} /\ 2 * IntLimit \in Nat \ {0} /\ n + IntLimit \in Nat
      /\ n + IntLimit < 2 * IntLimit
  BY SubscriptionAssumption
<1>2. (n + IntLimit) % (2 * IntLimit) = n + IntLimit
  BY <1>1, ModSmall
<1> QED
  BY <1>1, <1>2 DEF AsInt

LEMMA AttributeType ==
    \A lease \in MaybeLeases : LeaseAttribute(lease) \in WireLeases
  BY SubscriptionAssumption, AsSecsType, AsIntRange
     DEF MaybeLeases, LeaseAttribute, WireLeases

\* A lease of a whole second or more, short enough for an i32, is sent as some
\* time.
LEMMA WholeLeaseSent ==
    ASSUME NEW lease \in MaybeLeases, lease # None,
           1 <= AsSecs(lease), AsSecs(lease) < IntLimit
    PROVE  Grantable(LeaseAttribute(lease)) = 1..MaxLease
<1>1. AsSecs(lease) \in Nat /\ LeaseAttribute(lease) = AsSecs(lease)
  BY AsSecsType, AsIntSmall DEF MaybeLeases, LeaseAttribute
<1> QED
  BY <1>1, SubscriptionAssumption DEF Grantable

LEMMA RemainingType ==
    ASSUME TypeOK, NEW c \in Callers, NEW lease \in (0..MaxLease) \cup {None}
    PROVE  Remaining(c, lease) \in 0..Forever
<1>1. since[c] \in 0..MaxLease
  BY DEF TypeOK
<1> QED
  BY <1>1, SubscriptionAssumption DEF Remaining, Forever

-----------------------------------------------------------------------------
(* Types. *)

\* The lease that a reply names, if it names one.
MaybeGranted == (0..MaxLease) \cup {None}

SendTypes ==
    /\ wire \subseteq Requests
    /\ awaiting \in [Callers -> Requests \cup {None}]
    /\ reply \in [Callers -> Replies \cup {None}]

\* The fields of a request, by its operation.
LEMMA RequestFields ==
    ASSUME NEW r \in Requests
    PROVE  /\ r.op \in {"Create", "Renew", "Read", "Collect", "Cancel"}
           /\ r.from \in Callers
           /\ r.op \in {"Create", "Renew"} => r.lease \in WireLeases /\ r.meant \in MaybeLeases
           /\ r.op # "Create" => r.sub \in SubIds
  BY DEF Requests

LEMMA RequestTypes ==
    ASSUME NEW c \in Callers
    PROVE  /\ \A lease \in MaybeLeases : Subscribe(c, lease) \in Requests
           /\ \A s \in SubIds, lease \in MaybeLeases : Renew(c, s, lease) \in Requests
           /\ \A s \in SubIds, op \in {"Read", "Collect", "Cancel"} : About(c, s, op) \in Requests
  BY AttributeType DEF Requests, Subscribe, Renew, About

LEMMA ReplyTypes ==
    /\ Refusal \in Replies
    /\ \A s \in SubIds \cup {None}, g \in MaybeGranted : Grants(s, g) \in Replies
    /\ \A events \in SUBSET Events : Delivery(events) \in Replies
  BY SubscriptionAssumption DEF Replies, MaybeGranted, Refusal, Grants, Delivery

\* A reply to a request, whatever it was, goes to its caller if it waits.
LEMMA AnswerType ==
    ASSUME SendTypes, NEW r \in wire, NEW a \in Replies, Answer(r, a)
    PROVE  /\ SendTypes'
           /\ wire' = wire \ {r} /\ awaiting' = awaiting
           /\ \A c \in Callers :
                \/ reply'[c] = reply[c]
                \/ c = r.from /\ awaiting[c] = r /\ reply'[c] = a
  BY RequestFields DEF Answer, SendTypes

LEMMA InitType == Init => TypeOK
  BY SubscriptionAssumption DEF Init, SendInit, TypeOK, MaybeLeases, Forever

LEMMA GrantType ==
    \A lease \in WireLeases : Grantable(lease) \subseteq 0..MaxLease
  BY SubscriptionAssumption DEF Grantable, WireLeases

LEMMA PrinterType == TypeOK /\ Printer /\ UNCHANGED callerVars => TypeOK'
<1> SUFFICES ASSUME TypeOK, Printer, UNCHANGED callerVars
             PROVE  TypeOK'
  OBVIOUS
<1> USE SubscriptionAssumption
<1>1. SendTypes /\ \A r \in wire : r \in Requests
  BY DEF TypeOK, SendTypes
<1>2. ASSUME SendTypes',
             life' \in [SubIds -> {"free", "live", "over"}],
             granted' \in [SubIds -> 0..MaxLease], left' \in [SubIds -> 0..MaxLease],
             meant' \in [SubIds -> MaybeLeases],
             captured' \in [SubIds -> 0..MaxEvents], kept' \in [SubIds -> SUBSET Events]
      PROVE  TypeOK'
  BY <1>2 DEF SendTypes, callerVars, TypeOK
<1>3. ASSUME NEW r \in wire, GrantNew(r)
      PROVE  TypeOK'
  <2>1. PICK s \in SubIds, g \in Grantable(r.lease) :
            /\ life' = [life EXCEPT ![s] = "live"]
            /\ Lease(s, r, g)
            /\ \E id \in {s, None}, lease \in {g, None} : Answer(r, Grants(id, lease))
    BY <1>3 DEF GrantNew
  <2>2. g \in 0..MaxLease /\ r.meant \in MaybeLeases
    BY <1>1, <1>3, RequestFields, GrantType DEF GrantNew
  <2>3. SendTypes'
    BY <1>1, <2>1, <2>2, ReplyTypes, AnswerType DEF MaybeGranted
  <2> QED
    BY <1>2, <1>3, <2>1, <2>2, <2>3 DEF GrantNew, Lease, TypeOK
<1>4. ASSUME NEW r \in wire, GrantAgain(r)
      PROVE  TypeOK'
  <2>1. PICK g \in Grantable(r.lease) : Lease(r.sub, r, g)
    BY <1>4 DEF GrantAgain
  <2>2. g \in 0..MaxLease /\ r.meant \in MaybeLeases
    BY <1>1, <1>4, RequestFields, GrantType DEF GrantAgain
  <2>3. SendTypes'
    BY <1>1, <1>4, ReplyTypes, AnswerType DEF GrantAgain, MaybeGranted
  <2> QED
    BY <1>2, <1>4, <2>1, <2>2, <2>3 DEF GrantAgain, Lease, TypeOK
<1>5. ASSUME NEW r \in wire, Report(r)
      PROVE  TypeOK'
  <2>1. granted[r.sub] \in 0..MaxLease /\ r.sub \in SubIds
    BY <1>1, <1>5, RequestFields DEF Report, TypeOK
  <2>2. SendTypes'
    BY <1>1, <1>5, <2>1, ReplyTypes, AnswerType DEF Report, MaybeGranted
  <2> QED
    BY <1>2, <1>5, <2>2 DEF Report, subVars, TypeOK
<1>6. ASSUME NEW r \in wire, Deliver(r)
      PROVE  TypeOK'
  <2>1. kept[r.sub] \in SUBSET Events
    BY <1>1, <1>6, RequestFields DEF Deliver, TypeOK
  <2>2. SendTypes'
    BY <1>1, <1>6, <2>1, ReplyTypes, AnswerType DEF Deliver
  <2> QED
    BY <1>2, <1>6, <2>2 DEF Deliver, subVars, TypeOK
<1>7. ASSUME NEW r \in wire, End(r)
      PROVE  TypeOK'
  <2>1. SendTypes'
    BY <1>1, <1>7, ReplyTypes, AnswerType DEF End, MaybeGranted
  <2>2. /\ life' \in [SubIds -> {"free", "live", "over"}]
        /\ granted' \in [SubIds -> 0..MaxLease]
        /\ meant' \in [SubIds -> MaybeLeases]
    BY <1>7 DEF End, Over, TypeOK, MaybeLeases
  <2>3. captured' \in [SubIds -> 0..MaxEvents] /\ kept' \in [SubIds -> SUBSET Events]
    BY <1>7 DEF End, Over, TypeOK
  <2>4. left' \in [SubIds -> 0..MaxLease]
    <3>1. left' = [left EXCEPT ![r.sub] = 0] /\ 0 \in 0..MaxLease
      BY <1>7 DEF End
    <3> QED
      BY <3>1 DEF TypeOK
  <2> QED
    BY <1>2, <2>1, <2>2, <2>3, <2>4
<1>8. ASSUME NEW r \in wire, Refuse(r)
      PROVE  TypeOK'
  <2>1. SendTypes'
    BY <1>1, <1>8, ReplyTypes, AnswerType DEF Refuse
  <2> QED
    BY <1>2, <1>8, <2>1 DEF Refuse, subVars, TypeOK
<1>9. ASSUME NEW s \in SubIds, Capture(s)
      PROVE  TypeOK'
  <2>1. captured[s] + 1 \in 0..MaxEvents /\ captured[s] + 1 \in Events
    BY <1>9 DEF Capture, TypeOK, Events
  <2> QED
    BY <1>1, <1>2, <1>9, <2>1 DEF Capture, sendVars, SendTypes, TypeOK
<1>10. ASSUME NEW s \in SubIds, Forget(s)
       PROVE  TypeOK'
  BY <1>1, <1>2, <1>10 DEF Forget, sendVars, SendTypes, TypeOK
<1> QED
  BY <1>3, <1>4, <1>5, <1>6, <1>7, <1>8, <1>9, <1>10 DEF Printer

LEMMA TickType == TypeOK /\ Running /\ Tick => TypeOK'
<1> SUFFICES ASSUME TypeOK, Running, Tick
             PROVE  TypeOK'
  OBVIOUS
<1> USE SubscriptionAssumption
<1>1. left' \in [SubIds -> 0..MaxLease]
  BY DEF Tick, Expiring, Running, TypeOK
<1>2. sure' \in [Callers -> 0..Forever] /\ since' \in [Callers -> 0..MaxLease]
  BY DEF Tick, TypeOK, Forever
<1>3. /\ life' \in [SubIds -> {"free", "live", "over"}]
      /\ granted' \in [SubIds -> 0..MaxLease] /\ meant' \in [SubIds -> MaybeLeases]
      /\ captured' \in [SubIds -> 0..MaxEvents] /\ kept' \in [SubIds -> SUBSET Events]
  BY DEF Tick, Over, TypeOK, MaybeLeases
<1> QED
  BY <1>1, <1>2, <1>3 DEF Tick, sendVars, TypeOK

LEMMA CallerType ==
    ASSUME TypeOK, NEW c \in Callers, Waits(c), Caller(c)
    PROVE  TypeOK'
<1> USE SubscriptionAssumption DEF Goto, Rest, StartLease, GoOn, TypeOK, subVars
<1>1. /\ reply[c] # None => reply[c].sub \in SubIds \cup {None} /\ reply[c].events \in SUBSET Events
      /\ reply[c] # None => DecodedLease(c) \in (0..MaxLease) \cup {None}
  BY DEF Replies, DecodedLease
<1>2. pc[c] \notin {"idle", "subscribing"} => handle[c] \in SubIds
  BY DEF Waits
<1>3. 0 \in 0..Forever
  BY DEF Forever
<1>4. CASE BeginSubscribe(c)
  BY <1>3, <1>4, RequestTypes DEF BeginSubscribe, Send, Post
<1>5. CASE Subscribed(c)
  <2>1. Remaining(c, DecodedLease(c)) \in 0..Forever
    BY <1>1, <1>5, RemainingType DEF Subscribed, Succeeds
  <2> QED
    BY <1>1, <1>5, <2>1 DEF Subscribed, Succeeds
<1>6. CASE SubscribeFails(c)
  BY <1>3, <1>6 DEF SubscribeFails
<1>7. CASE BeginRenew(c)
  BY <1>2, <1>3, <1>7, RequestTypes DEF BeginRenew, Send, Post
<1>8. CASE Renewed(c)
  BY <1>8 DEF Renewed
<1>9. CASE BeginRead(c)
  BY <1>2, <1>9, RequestTypes DEF BeginRead, Send, Post
<1>10. CASE HasRead(c)
  <2>1. Remaining(c, DecodedLease(c)) \in 0..Forever
    BY <1>1, <1>10, RemainingType DEF HasRead, Succeeds
  <2> QED
    BY <1>1, <1>3, <1>10, <2>1 DEF HasRead, Succeeds
<1>11. CASE BeginCollect(c)
  BY <1>2, <1>11, RequestTypes DEF BeginCollect, Send, Post
<1>12. CASE Collected(c)
  BY <1>1, <1>12 DEF Collected, Succeeds
<1>13. CASE AskingFails(c)
  BY <1>13 DEF AskingFails
<1>14. CASE BeginCancel(c)
  BY <1>2, <1>3, <1>14, RequestTypes DEF BeginCancel, Send, Post
<1>15. CASE Cancelled(c)
  BY <1>3, <1>15 DEF Cancelled
<1>16. CASE ChangeFails(c)
  BY <1>16 DEF ChangeFails
<1>17. CASE Leave(c)
  BY <1>3, <1>17 DEF Leave, sendVars
<1> QED
  BY <1>4, <1>5, <1>6, <1>7, <1>8, <1>9, <1>10, <1>11, <1>12, <1>13, <1>14, <1>15,
     <1>16, <1>17 DEF Caller
-----------------------------------------------------------------------------
(* What callers count on: the steps of the callers. *)

LEMMA InitLease == Init => LeaseInv
<1> SUFFICES ASSUME Init
             PROVE  LeaseInv
  OBVIOUS
<1>1. Apart
  BY SubscriptionAssumption DEF Init, SendInit, Apart, Knows
<1>2. WireMeant /\ Running /\ WholeLeaseExpires
  BY DEF Init, SendInit, WireMeant, Running, WholeLeaseExpires
<1>3. \A c \in Callers : CallerOK(c)
  BY DEF Init, SendInit, CallerOK, Waits, Undisturbed, Counted, Lasts, Begun
<1> QED
  BY <1>1, <1>2, <1>3 DEF LeaseInv

\* A caller's step leaves the printer and the other callers alone; what it
\* sends is about the subscription it holds, and it is given none but that of
\* the reply.
OnlyOf(c) ==
    /\ UNCHANGED <<life, granted, left, meant>>
    /\ \A d \in Callers \ {c} :
        /\ pc'[d] = pc[d] /\ handle'[d] = handle[d] /\ since'[d] = since[d]
        /\ settled'[d] = settled[d] /\ sure'[d] = sure[d]
        /\ awaiting'[d] = awaiting[d] /\ reply'[d] = reply[d]
    /\ \A r \in wire' \ wire :
        /\ r.from = c
        /\ r.op # "Create" => handle[c] # None /\ r.sub = handle[c]
        /\ r.op \in {"Create", "Renew"} => r.lease = LeaseAttribute(r.meant)
    /\ \/ handle'[c] \in {None, handle[c]}
       \/ pc[c] = "subscribing" /\ reply[c] # None /\ reply[c].ok /\ handle'[c] = reply[c].sub
    /\ reply'[c] = None

LEMMA OthersKept ==
    ASSUME TypeOK, LeaseInv, NEW c \in Callers, OnlyOf(c), CallerOK(c)'
    PROVE  LeaseInv'
<1> USE SubscriptionAssumption
<1>1. /\ Apart /\ WireMeant /\ Running /\ WholeLeaseExpires
      /\ \A d \in Callers : Waits(d) /\ Undisturbed(d) /\ Counted(d)
  BY DEF LeaseInv, CallerOK
<1>2. \A r \in wire : r \in Requests /\ r.from \in Callers
  BY RequestFields DEF TypeOK
<1>3. ASSUME NEW d \in Callers, NEW s \in SubIds, Knows(d, s)'
      PROVE  Knows(d, s)
  <2>1. CASE d = c
    BY <1>3, <2>1 DEF OnlyOf, Knows
  <2>2. CASE d # c
    BY <1>3, <2>2 DEF OnlyOf, Knows
  <2> QED
    BY <2>1, <2>2
<1>4. Apart'
  <2> SUFFICES ASSUME NEW d \in Callers, NEW s \in SubIds, Knows(d, s)'
               PROVE  life'[s] # "free" /\ \A e \in Callers : Knows(e, s)' => d = e
    BY DEF Apart
  <2>1. Knows(d, s) /\ life' = life
    BY <1>3 DEF OnlyOf
  <2> QED
    BY <1>1, <1>3, <2>1 DEF Apart
<1>5. WireMeant' /\ Running' /\ WholeLeaseExpires'
  BY <1>1 DEF OnlyOf, WireMeant, Running, WholeLeaseExpires
<1>6. ASSUME NEW d \in Callers \ {c}
      PROVE  CallerOK(d)'
  <2>1. \A r \in wire' : r \in wire \/ r.from = c
    BY DEF OnlyOf
  <2>2. Waits(d)'
    BY <1>1, <2>1 DEF OnlyOf, Waits
  <2>3. ASSUME NEW s \in SubIds, Knows(d, s), NEW r \in wire' \ wire, r.op # "Create"
        PROVE  r.sub # s
    <3>1. r.sub = handle[c] /\ handle[c] \in SubIds
      BY <2>3 DEF OnlyOf, TypeOK
    <3>2. Knows(c, r.sub)
      BY <3>1 DEF Knows
    <3> QED
      BY <1>1, <2>3, <3>2 DEF Apart
  <2>4. Undisturbed(d)'
    <3>1. handle[d] # None => handle[d] \in SubIds /\ Knows(d, handle[d])
      BY DEF TypeOK, Knows
    <3>2. pc[d] = "subscribing" /\ reply[d] # None /\ reply[d].ok /\ reply[d].sub # None =>
                reply[d].sub \in SubIds /\ Knows(d, reply[d].sub)
      BY DEF TypeOK, Replies, Knows
    <3> QED
      BY <1>1, <2>3, <3>1, <3>2 DEF OnlyOf, Undisturbed
  <2>5. Counted(d)'
    BY <1>1 DEF OnlyOf, Counted, Begun, Lasts, Remaining, DecodedLease
  <2> QED
    BY <2>2, <2>4, <2>5 DEF CallerOK
<1> QED
  BY <1>4, <1>5, <1>6 DEF LeaseInv

LEMMA CallerLease ==
    ASSUME TypeOK, LeaseInv, NEW c \in Callers, Caller(c)
    PROVE  LeaseInv'
<1> USE SubscriptionAssumption, MessageAssumption
<1>1. /\ Waits(c) /\ Undisturbed(c) /\ Counted(c)
      /\ handle[c] \in SubIds \cup {None} /\ settled[c] \in BOOLEAN
      /\ None \notin wire
  BY DEF LeaseInv, CallerOK, TypeOK
<1>2. CASE BeginSubscribe(c)
  <2>0. PICK lease \in MaybeLeases : Send(c, Subscribe(c, lease))
    BY <1>2 DEF BeginSubscribe
  <2>1. PICK r : /\ r \in Requests /\ r.from = c /\ r.op = "Create"
                 /\ r.lease = LeaseAttribute(r.meant)
                 /\ wire' = wire \cup {r} /\ awaiting' = [awaiting EXCEPT ![c] = r]
                 /\ reply' = [reply EXCEPT ![c] = None]
    <3>1. /\ Subscribe(c, lease) \in Requests /\ Subscribe(c, lease).from = c
          /\ Subscribe(c, lease).op = "Create"
          /\ Subscribe(c, lease).lease = LeaseAttribute(Subscribe(c, lease).meant)
      BY <1>1, <1>2, <2>0, RequestTypes DEF BeginSubscribe, Waits, Subscribe
    <3> QED
      BY <1>2, <2>0, <3>1 DEF BeginSubscribe, Send, Post
  <2>2. /\ pc[c] = "idle" /\ pc'[c] = "subscribing"
        /\ handle'[c] = handle[c] /\ settled'[c] = settled[c]
        /\ sure'[c] = 0 /\ since'[c] = 0
        /\ awaiting'[c] = r /\ reply'[c] = None
    BY <1>2, <2>1 DEF BeginSubscribe, StartLease, Goto, subVars, TypeOK
  <2>3. OnlyOf(c)
    BY <1>1, <1>2, <2>1, <2>2 DEF BeginSubscribe, StartLease, Goto, subVars, TypeOK, OnlyOf, Waits
  <2>4. Waits(c)'
    BY <1>1, <2>1, <2>2 DEF Waits
  <2>5. Undisturbed(c)'
    BY <1>1, <2>1, <2>2 DEF Undisturbed, Waits
  <2>6. Counted(c)'
    BY <1>1, <2>1, <2>2, <2>3 DEF OnlyOf, Counted, Waits, Begun, Lasts
  <2> QED
    BY <2>3, <2>4, <2>5, <2>6, OthersKept DEF CallerOK
<1>3. CASE Subscribed(c)
  <2>2. /\ pc[c] = "subscribing" /\ reply[c] # None /\ reply[c].ok /\ reply[c].sub # None
        /\ pc'[c] = "held" /\ awaiting'[c] = None /\ reply'[c] = None /\ wire' = wire
        /\ handle'[c] = reply[c].sub /\ settled'[c] = settled[c] /\ since'[c] = since[c]
        /\ sure'[c] = Remaining(c, DecodedLease(c))
    BY <1>3 DEF Subscribed, Succeeds, Rest, Goto, subVars, TypeOK
  <2>3. OnlyOf(c)
    BY <1>1, <1>3, <2>2 DEF Subscribed, Succeeds, Rest, Goto, subVars, TypeOK, OnlyOf, Waits
  <2>4. Waits(c)'
    BY <1>1, <2>2 DEF Waits
  <2>5. Undisturbed(c)'
    BY <1>1, <2>2 DEF Undisturbed, Waits
  <2>6. Counted(c)'
    BY <1>1, <2>2, <2>3 DEF OnlyOf, Counted, Waits, Begun, Lasts
  <2> QED
    BY <2>3, <2>4, <2>5, <2>6, OthersKept DEF CallerOK
<1>4. CASE SubscribeFails(c)
  <2>2. /\ pc'[c] = "idle" /\ awaiting'[c] = None /\ reply'[c] = None /\ wire' = wire
        /\ handle'[c] = None /\ settled'[c] /\ sure'[c] = 0
    BY <1>4 DEF SubscribeFails, Rest, GoOn, StartLease, Goto, subVars, TypeOK
  <2>3. OnlyOf(c)
    BY <1>1, <1>4, <2>2 DEF SubscribeFails, Rest, GoOn, StartLease, Goto, subVars, TypeOK, OnlyOf, Waits
  <2>4. Waits(c)'
    BY <1>1, <2>2 DEF Waits
  <2>5. Undisturbed(c)'
    BY <1>1, <2>2 DEF Undisturbed, Waits
  <2>6. Counted(c)'
    BY <1>1, <2>2, <2>3 DEF OnlyOf, Counted, Waits, Begun, Lasts
  <2> QED
    BY <2>3, <2>4, <2>5, <2>6, OthersKept DEF CallerOK
<1>5. CASE BeginRenew(c)
  <2>0. PICK lease \in MaybeLeases : Send(c, Renew(c, handle[c], lease))
    BY <1>5 DEF BeginRenew
  <2>1. PICK r : /\ r \in Requests /\ r.from = c /\ r.op = "Renew"
                 /\ r.sub = handle[c]
                 /\ r.lease = LeaseAttribute(r.meant)
                 /\ wire' = wire \cup {r} /\ awaiting' = [awaiting EXCEPT ![c] = r]
                 /\ reply' = [reply EXCEPT ![c] = None]
    <3>1. /\ Renew(c, handle[c], lease) \in Requests /\ Renew(c, handle[c], lease).from = c
          /\ Renew(c, handle[c], lease).op = "Renew"
          /\ Renew(c, handle[c], lease).sub = handle[c]
          /\ Renew(c, handle[c], lease).lease = LeaseAttribute(Renew(c, handle[c], lease).meant)
      BY <1>1, <1>5, <2>0, RequestTypes DEF BeginRenew, Waits, Renew
    <3> QED
      BY <1>5, <2>0, <3>1 DEF BeginRenew, Send, Post
  <2>2. /\ pc[c] = "held" /\ pc'[c] = "renewing"
        /\ handle'[c] = handle[c] /\ settled'[c] = settled[c]
        /\ sure'[c] = 0 /\ since'[c] = 0
        /\ awaiting'[c] = r /\ reply'[c] = None
    BY <1>5, <2>1 DEF BeginRenew, StartLease, Goto, subVars, TypeOK
  <2>3. OnlyOf(c)
    BY <1>1, <1>5, <2>1, <2>2 DEF BeginRenew, StartLease, Goto, subVars, TypeOK, OnlyOf, Waits
  <2>4. Waits(c)'
    BY <1>1, <2>1, <2>2 DEF Waits
  <2>5. Undisturbed(c)'
    BY <1>1, <2>1, <2>2 DEF Undisturbed, Waits
  <2>6. Counted(c)'
    BY <1>1, <2>1, <2>2, <2>3 DEF OnlyOf, Counted, Waits, Begun, Lasts
  <2> QED
    BY <2>3, <2>4, <2>5, <2>6, OthersKept DEF CallerOK
<1>6. CASE Renewed(c)
  <2>2. /\ pc[c] = "renewing" /\ reply[c] # None /\ reply[c].ok
        /\ pc'[c] = "held" /\ awaiting'[c] = None /\ reply'[c] = None /\ wire' = wire
        /\ handle'[c] = handle[c] /\ settled'[c] = settled[c]
        /\ sure'[c] = sure[c] /\ since'[c] = since[c]
    BY <1>6 DEF Renewed, Succeeds, Rest, Goto, subVars, TypeOK
  <2>3. OnlyOf(c)
    BY <1>1, <1>6, <2>2 DEF Renewed, Succeeds, Rest, Goto, subVars, TypeOK, OnlyOf, Waits
  <2>4. Waits(c)'
    BY <1>1, <2>2 DEF Waits
  <2>5. Undisturbed(c)'
    BY <1>1, <2>2 DEF Undisturbed, Waits
  <2>6. Counted(c)'
    BY <1>1, <2>2, <2>3 DEF OnlyOf, Counted, Waits, Begun, Lasts
  <2> QED
    BY <2>3, <2>4, <2>5, <2>6, OthersKept DEF CallerOK
<1>7. CASE BeginRead(c)
  <2>1. PICK r : /\ r \in Requests /\ r.from = c /\ r.op = "Read"
                 /\ r.sub = handle[c]
                 /\ wire' = wire \cup {r} /\ awaiting' = [awaiting EXCEPT ![c] = r]
                 /\ reply' = [reply EXCEPT ![c] = None]
    <3>1. /\ About(c, handle[c], "Read") \in Requests /\ About(c, handle[c], "Read").from = c
          /\ About(c, handle[c], "Read").op = "Read"
          /\ About(c, handle[c], "Read").sub = handle[c]
      BY <1>1, <1>7, RequestTypes DEF BeginRead, Waits, About
    <3> QED
      BY <1>7, <3>1 DEF BeginRead, Send, Post
  <2>2. /\ pc[c] = "held" /\ pc'[c] = "reading"
        /\ handle'[c] = handle[c] /\ settled'[c] = settled[c]
        /\ sure'[c] = sure[c] /\ since'[c] = since[c]
        /\ awaiting'[c] = r /\ reply'[c] = None
    BY <1>7, <2>1 DEF BeginRead, Goto, subVars, TypeOK
  <2>3. OnlyOf(c)
    BY <1>1, <1>7, <2>1, <2>2 DEF BeginRead, Goto, subVars, TypeOK, OnlyOf, Waits
  <2>4. Waits(c)'
    BY <1>1, <2>1, <2>2 DEF Waits
  <2>5. Undisturbed(c)'
    BY <1>1, <2>1, <2>2 DEF Undisturbed, Waits
  <2>6. Counted(c)'
    BY <1>1, <2>1, <2>2, <2>3 DEF OnlyOf, Counted, Waits, Begun, Lasts
  <2> QED
    BY <2>3, <2>4, <2>5, <2>6, OthersKept DEF CallerOK
<1>8. CASE HasRead(c)
  <2>2. /\ pc[c] = "reading" /\ reply[c] # None /\ reply[c].ok
        /\ pc'[c] = "held" /\ awaiting'[c] = None /\ reply'[c] = None /\ wire' = wire
        /\ handle'[c] = handle[c] /\ settled'[c] = settled[c]
        /\ since'[c] = since[c]
        /\ sure'[c] = IF settled[c] THEN Remaining(c, DecodedLease(c)) ELSE 0
    BY <1>8 DEF HasRead, Succeeds, Rest, Goto, subVars, TypeOK
  <2>3. OnlyOf(c)
    BY <1>1, <1>8, <2>2 DEF HasRead, Succeeds, Rest, Goto, subVars, TypeOK, OnlyOf, Waits
  <2>4. Waits(c)'
    BY <1>1, <2>2 DEF Waits
  <2>5. Undisturbed(c)'
    BY <1>1, <2>2 DEF Undisturbed, Waits
  <2>6. Counted(c)'
    BY <1>1, <2>2, <2>3 DEF OnlyOf, Counted, Waits, Begun, Lasts
  <2> QED
    BY <2>3, <2>4, <2>5, <2>6, OthersKept DEF CallerOK
<1>9. CASE BeginCollect(c)
  <2>1. PICK r : /\ r \in Requests /\ r.from = c /\ r.op = "Collect"
                 /\ r.sub = handle[c]
                 /\ wire' = wire \cup {r} /\ awaiting' = [awaiting EXCEPT ![c] = r]
                 /\ reply' = [reply EXCEPT ![c] = None]
    <3>1. /\ About(c, handle[c], "Collect") \in Requests /\ About(c, handle[c], "Collect").from = c
          /\ About(c, handle[c], "Collect").op = "Collect"
          /\ About(c, handle[c], "Collect").sub = handle[c]
      BY <1>1, <1>9, RequestTypes DEF BeginCollect, Waits, About
    <3> QED
      BY <1>9, <3>1 DEF BeginCollect, Send, Post
  <2>2. /\ pc[c] = "held" /\ pc'[c] = "collecting"
        /\ handle'[c] = handle[c] /\ settled'[c] = settled[c]
        /\ sure'[c] = sure[c] /\ since'[c] = since[c]
        /\ awaiting'[c] = r /\ reply'[c] = None
    BY <1>9, <2>1 DEF BeginCollect, Goto, subVars, TypeOK
  <2>3. OnlyOf(c)
    BY <1>1, <1>9, <2>1, <2>2 DEF BeginCollect, Goto, subVars, TypeOK, OnlyOf, Waits
  <2>4. Waits(c)'
    BY <1>1, <2>1, <2>2 DEF Waits
  <2>5. Undisturbed(c)'
    BY <1>1, <2>1, <2>2 DEF Undisturbed, Waits
  <2>6. Counted(c)'
    BY <1>1, <2>1, <2>2, <2>3 DEF OnlyOf, Counted, Waits, Begun, Lasts
  <2> QED
    BY <2>3, <2>4, <2>5, <2>6, OthersKept DEF CallerOK
<1>10. CASE Collected(c)
  <2>2. /\ pc[c] = "collecting" /\ reply[c] # None
        /\ pc'[c] = "held" /\ awaiting'[c] = None /\ reply'[c] = None /\ wire' = wire
        /\ handle'[c] = handle[c] /\ settled'[c] = settled[c]
        /\ sure'[c] = sure[c] /\ since'[c] = since[c]
    BY <1>10 DEF Collected, Succeeds, Rest, Goto, subVars, TypeOK
  <2>3. OnlyOf(c)
    BY <1>1, <1>10, <2>2 DEF Collected, Succeeds, Rest, Goto, subVars, TypeOK, OnlyOf, Waits
  <2>4. Waits(c)'
    BY <1>1, <2>2 DEF Waits
  <2>5. Undisturbed(c)'
    BY <1>1, <2>2 DEF Undisturbed, Waits
  <2>6. Counted(c)'
    BY <1>1, <2>2, <2>3 DEF OnlyOf, Counted, Waits, Begun, Lasts
  <2> QED
    BY <2>3, <2>4, <2>5, <2>6, OthersKept DEF CallerOK
<1>11. CASE AskingFails(c)
  <2>2. /\ pc[c] \in {"reading", "collecting"}
        /\ pc'[c] = "held" /\ awaiting'[c] = None /\ reply'[c] = None /\ wire' = wire \ {awaiting[c]}
        /\ handle'[c] = handle[c] /\ settled'[c] = settled[c]
        /\ sure'[c] = sure[c] /\ since'[c] = since[c]
    BY <1>11 DEF AskingFails, Goto, subVars, TypeOK
  <2>3. OnlyOf(c)
    BY <1>1, <1>11, <2>2 DEF AskingFails, Goto, subVars, TypeOK, OnlyOf, Waits
  <2>4. Waits(c)'
    BY <1>1, <2>2 DEF Waits
  <2>5. Undisturbed(c)'
    BY <1>1, <2>2 DEF Undisturbed, Waits
  <2>6. Counted(c)'
    BY <1>1, <2>2, <2>3 DEF OnlyOf, Counted, Waits, Begun, Lasts
  <2> QED
    BY <2>3, <2>4, <2>5, <2>6, OthersKept DEF CallerOK
<1>12. CASE BeginCancel(c)
  <2>1. PICK r : /\ r \in Requests /\ r.from = c /\ r.op = "Cancel"
                 /\ r.sub = handle[c]
                 /\ wire' = wire \cup {r} /\ awaiting' = [awaiting EXCEPT ![c] = r]
                 /\ reply' = [reply EXCEPT ![c] = None]
    <3>1. /\ About(c, handle[c], "Cancel") \in Requests /\ About(c, handle[c], "Cancel").from = c
          /\ About(c, handle[c], "Cancel").op = "Cancel"
          /\ About(c, handle[c], "Cancel").sub = handle[c]
      BY <1>1, <1>12, RequestTypes DEF BeginCancel, Waits, About
    <3> QED
      BY <1>12, <3>1 DEF BeginCancel, Send, Post
  <2>2. /\ pc[c] = "held" /\ pc'[c] = "cancelling"
        /\ handle'[c] = handle[c] /\ settled'[c] = settled[c]
        /\ sure'[c] = 0 /\ since'[c] = 0
        /\ awaiting'[c] = r /\ reply'[c] = None
    BY <1>12, <2>1 DEF BeginCancel, StartLease, Goto, subVars, TypeOK
  <2>3. OnlyOf(c)
    BY <1>1, <1>12, <2>1, <2>2 DEF BeginCancel, StartLease, Goto, subVars, TypeOK, OnlyOf, Waits
  <2>4. Waits(c)'
    BY <1>1, <2>1, <2>2 DEF Waits
  <2>5. Undisturbed(c)'
    BY <1>1, <2>1, <2>2 DEF Undisturbed, Waits
  <2>6. Counted(c)'
    BY <1>1, <2>1, <2>2, <2>3 DEF OnlyOf, Counted, Waits, Begun, Lasts
  <2> QED
    BY <2>3, <2>4, <2>5, <2>6, OthersKept DEF CallerOK
<1>13. CASE Cancelled(c)
  <2>2. /\ pc'[c] = "idle" /\ awaiting'[c] = None /\ reply'[c] = None /\ wire' = wire
        /\ handle'[c] = None /\ settled'[c] /\ sure'[c] = 0
    BY <1>13 DEF Cancelled, Rest, GoOn, StartLease, Goto, subVars, TypeOK
  <2>3. OnlyOf(c)
    BY <1>1, <1>13, <2>2 DEF Cancelled, Rest, GoOn, StartLease, Goto, subVars, TypeOK, OnlyOf, Waits
  <2>4. Waits(c)'
    BY <1>1, <2>2 DEF Waits
  <2>5. Undisturbed(c)'
    BY <1>1, <2>2 DEF Undisturbed, Waits
  <2>6. Counted(c)'
    BY <1>1, <2>2, <2>3 DEF OnlyOf, Counted, Waits, Begun, Lasts
  <2> QED
    BY <2>3, <2>4, <2>5, <2>6, OthersKept DEF CallerOK
<1>14. CASE ChangeFails(c)
  <2>2. /\ pc[c] \in {"renewing", "cancelling"}
        /\ pc'[c] = "held" /\ awaiting'[c] = None /\ reply'[c] = None /\ wire' = wire
        /\ handle'[c] = handle[c] /\ ~settled'[c] /\ sure'[c] = sure[c]
    BY <1>14 DEF ChangeFails, Rest, Goto, subVars, TypeOK
  <2>3. OnlyOf(c)
    BY <1>1, <1>14, <2>2 DEF ChangeFails, Rest, Goto, subVars, TypeOK, OnlyOf, Waits
  <2>4. Waits(c)'
    BY <1>1, <2>2 DEF Waits
  <2>5. Undisturbed(c)'
    BY <1>1, <2>2 DEF Undisturbed, Waits
  <2>6. Counted(c)'
    BY <1>1, <2>2, <2>3 DEF OnlyOf, Counted, Waits, Begun, Lasts
  <2> QED
    BY <2>3, <2>4, <2>5, <2>6, OthersKept DEF CallerOK
<1>15. CASE Leave(c)
  <2>2. /\ pc[c] = "held" /\ pc'[c] = "idle" /\ awaiting'[c] = None /\ reply'[c] = None /\ wire' = wire
        /\ handle'[c] = None /\ settled'[c] /\ sure'[c] = 0
    BY <1>1, <1>15 DEF Leave, GoOn, StartLease, Goto, subVars, TypeOK, sendVars, Waits
  <2>3. OnlyOf(c)
    BY <1>1, <1>15, <2>2 DEF Leave, GoOn, StartLease, Goto, subVars, TypeOK, sendVars, OnlyOf, Waits
  <2>4. Waits(c)'
    BY <1>1, <2>2 DEF Waits
  <2>5. Undisturbed(c)'
    BY <1>1, <2>2 DEF Undisturbed, Waits
  <2>6. Counted(c)'
    BY <1>1, <2>2, <2>3 DEF OnlyOf, Counted, Waits, Begun, Lasts
  <2> QED
    BY <2>3, <2>4, <2>5, <2>6, OthersKept DEF CallerOK
<1> QED
  BY <1>2, <1>3, <1>4, <1>5, <1>6, <1>7, <1>8,
     <1>9, <1>10, <1>11, <1>12, <1>13, <1>14, <1>15 DEF Caller
-----------------------------------------------------------------------------
(* What callers count on: the clock and the printer. *)

\* A second takes a second from what a subscription lasts.
LEMMA TickLasts ==
    ASSUME TypeOK, Running, Tick
    PROVE  \A s \in SubIds, d, e \in 0..Forever :
              Lasts(s, d) /\ (d \in 1..MaxLease => e = d - 1) /\ (d \notin 1..MaxLease => e = d) =>
                  (e \in 1..MaxLease =>
                      life'[s] = "live" /\ (granted'[s] # 0 => e <= left'[s]))
<1> SUFFICES ASSUME NEW s \in SubIds, NEW d \in 0..Forever, NEW e \in 0..Forever,
                    Lasts(s, d), d \in 1..MaxLease => e = d - 1, d \notin 1..MaxLease => e = d,
                    e \in 1..MaxLease
             PROVE  life'[s] = "live" /\ (granted'[s] # 0 => e <= left'[s])
  OBVIOUS
<1>1. /\ MaxLease \in Nat /\ granted[s] \in 0..MaxLease /\ left[s] \in 0..MaxLease
      /\ life[s] = "live" /\ (granted[s] # 0 => d <= left[s])
  BY SubscriptionAssumption DEF TypeOK, Lasts
<1>2. CASE granted[s] = 0
  BY <1>1, <1>2 DEF Tick, Over, Expiring
<1>3. CASE granted[s] # 0
  <2>1. d \in 1..MaxLease /\ e = d - 1 /\ left[s] # 1
    BY <1>1, <1>3 DEF Forever
  <2>2. life'[s] = "live" /\ left'[s] = left[s] - 1
    BY <1>1, <1>3, <2>1 DEF Tick, Over, Expiring
  <2> QED
    BY <1>1, <1>3, <2>1, <2>2
<1> QED
  BY <1>2, <1>3

\* And what is gone of a lease is a second more.
LEMMA TickBegun ==
    ASSUME TypeOK, Running, Tick
    PROVE  \A s \in SubIds, t, u \in 0..MaxLease :
              Begun(s, t) /\ (t < MaxLease => u = t + 1) /\ (t = MaxLease => u = MaxLease) =>
                  (life'[s] = "live" /\ granted'[s] # 0 => granted'[s] - left'[s] <= u)
<1> SUFFICES ASSUME NEW s \in SubIds, NEW t \in 0..MaxLease, NEW u \in 0..MaxLease,
                    Begun(s, t), t < MaxLease => u = t + 1, t = MaxLease => u = MaxLease,
                    life'[s] = "live", granted'[s] # 0
             PROVE  granted'[s] - left'[s] <= u
  OBVIOUS
<1>1. MaxLease \in Nat /\ granted[s] \in 0..MaxLease /\ left[s] \in 0..MaxLease
  BY SubscriptionAssumption DEF TypeOK
<1>2. /\ life[s] = "live" /\ granted[s] # 0 /\ granted'[s] = granted[s]
      /\ left[s] # 1 /\ left'[s] = left[s] - 1
  BY <1>1 DEF Tick, Over, Expiring
<1>3. granted[s] - left[s] <= t /\ left[s] \in 1..granted[s]
  BY <1>2 DEF Begun, Running
<1> QED
  BY <1>1, <1>2, <1>3

LEMMA TickLease == TypeOK /\ LeaseInv /\ Tick => LeaseInv'
<1> SUFFICES ASSUME TypeOK, LeaseInv, Tick
             PROVE  LeaseInv'
  OBVIOUS
<1> USE SubscriptionAssumption
<1>1. /\ Apart /\ WireMeant /\ Running /\ WholeLeaseExpires
      /\ \A c \in Callers : Waits(c) /\ Undisturbed(c) /\ Counted(c)
  BY DEF LeaseInv, CallerOK
<1>2. UNCHANGED <<wire, awaiting, reply, pc, handle, settled>>
  BY DEF Tick, sendVars
<1>3. Apart' /\ WireMeant'
  <2>1. \A s \in SubIds : life[s] # "free" => life'[s] # "free"
    BY DEF Tick, Over
  <2> QED
    BY <1>1, <1>2, <2>1 DEF Apart, WireMeant, Knows
<1>4. Running' /\ WholeLeaseExpires'
  <2> SUFFICES ASSUME NEW s \in SubIds, life'[s] = "live"
               PROVE  /\ granted'[s] # 0 => left'[s] \in 1..granted'[s]
                      /\ /\ meant'[s] # None
                         /\ 1 <= AsSecs(meant'[s]) /\ AsSecs(meant'[s]) < IntLimit
                         => granted'[s] # 0
    BY DEF Running, WholeLeaseExpires, AsSecs
  <2>1. /\ life[s] = "live" /\ granted'[s] = granted[s] /\ meant'[s] = meant[s]
        /\ granted[s] # 0 => left[s] # 1 /\ left'[s] = left[s] - 1
    BY DEF Tick, Over, Expiring
  <2>2. granted[s] \in 0..MaxLease /\ left[s] \in 0..MaxLease
    BY DEF TypeOK
  <2> QED
    BY <1>1, <2>1, <2>2 DEF Running, WholeLeaseExpires
<1>5. ASSUME NEW c \in Callers
      PROVE  CallerOK(c)'
  <2>1. Waits(c)' /\ Undisturbed(c)'
    BY <1>1, <1>2 DEF Waits, Undisturbed
  <2>2. /\ MaxLease \in Nat \ {0} /\ sure[c] \in 0..Forever /\ since[c] \in 0..MaxLease
        /\ handle[c] \in SubIds \cup {None}
        /\ reply[c] # None => reply[c].sub \in SubIds \cup {None} 
        /\ reply[c] # None => reply[c].lease \in MaybeGranted
    BY DEF TypeOK, Replies, MaybeGranted
  <2>3. /\ sure'[c] \in 0..Forever /\ (sure[c] \in 1..MaxLease => sure'[c] = sure[c] - 1)
        /\ sure[c] \notin 1..MaxLease => sure'[c] = sure[c]
    BY <2>2 DEF Tick, Forever
  <2>4. /\ since'[c] \in 0..MaxLease /\ (since[c] < MaxLease => since'[c] = since[c] + 1)
        /\ since[c] = MaxLease => since'[c] = MaxLease
    BY <2>2 DEF Tick
  <2>5. ASSUME reply[c] # None
        PROVE  /\ Remaining(c, DecodedLease(c)) \in 0..Forever
               /\ Remaining(c, DecodedLease(c))' \in 0..Forever
               /\ Remaining(c, DecodedLease(c)) \in 1..MaxLease =>
                    Remaining(c, DecodedLease(c))' = Remaining(c, DecodedLease(c)) - 1
               /\ Remaining(c, DecodedLease(c)) \notin 1..MaxLease =>
                    Remaining(c, DecodedLease(c))' = Remaining(c, DecodedLease(c))
    <3>1. DecodedLease(c)' = DecodedLease(c) /\ DecodedLease(c) \in (1..MaxLease) \cup {None}
      BY <1>2, <2>2, <2>5 DEF DecodedLease, MaybeGranted
    <3>2. CASE DecodedLease(c) = None
      BY <2>2, <3>1, <3>2 DEF Remaining, Forever
    <3>3. CASE DecodedLease(c) # None
      BY <2>2, <2>4, <3>1, <3>3 DEF Remaining, Forever
    <3> QED
      BY <3>2, <3>3
  <2>6. pc[c] \notin {"idle", "subscribing"} => handle[c] \in SubIds
    BY <1>1, <2>2 DEF Waits
  <2>7. sure'[c] # 0 => settled'[c] /\ pc'[c] \in {"held", "reading", "collecting"}
    BY <1>1, <1>2, <2>3 DEF Counted
  <2>8. Lasts(handle[c], sure[c])'
    <3> SUFFICES ASSUME sure'[c] # 0
                 PROVE  Lasts(handle[c], sure[c])'
      BY DEF Lasts
    <3>1. handle[c] \in SubIds /\ Lasts(handle[c], sure[c])
      BY <1>1, <1>2, <2>6, <2>7 DEF Counted
    <3> QED
      BY <1>1, <1>2, <2>2, <2>3, <3>1, TickLasts DEF Lasts
  <2>9. \A s \in SubIds : Begun(s, since[c]) => Begun(s, since[c])'
    BY <1>1, <2>2, <2>4, TickBegun DEF Begun
  <2>10. \A s \in SubIds : reply[c] # None /\ Lasts(s, Remaining(c, DecodedLease(c))) =>
              Lasts(s, Remaining(c, DecodedLease(c)))'
    BY <1>1, <2>5, TickLasts DEF Lasts
  <2>11. Counted(c)'
    <3>1. ASSUME pc'[c] \in {"held", "reading", "collecting"}, settled'[c]
          PROVE  Begun(handle[c], since[c])'
      BY <1>1, <1>2, <2>6, <2>9, <3>1 DEF Counted, Begun
    <3>2. ASSUME settled'[c], reply'[c] # None, reply'[c].ok, pc'[c] = "subscribing",
                 reply'[c].sub # None
          PROVE  /\ Begun(reply[c].sub, since[c])'
                 /\ Lasts(reply[c].sub, Remaining(c, DecodedLease(c)))'
      <4>1. /\ reply[c].sub \in SubIds /\ Begun(reply[c].sub, since[c])
            /\ Lasts(reply[c].sub, Remaining(c, DecodedLease(c)))
        BY <1>1, <1>2, <2>2, <3>2 DEF Counted
      <4> QED
        BY <1>2, <2>9, <2>10, <3>2, <4>1 DEF Begun, Lasts
    <3>3. ASSUME settled'[c], reply'[c] # None, reply'[c].ok, pc'[c] = "renewing"
          PROVE  Begun(handle[c], since[c])'
      BY <1>1, <1>2, <2>6, <2>9, <3>3 DEF Counted, Begun
    <3>4. ASSUME settled'[c], reply'[c] # None, reply'[c].ok, pc'[c] = "reading"
          PROVE  Lasts(handle[c], Remaining(c, DecodedLease(c)))'
      <4>1. handle[c] \in SubIds /\ Lasts(handle[c], Remaining(c, DecodedLease(c)))
        BY <1>1, <1>2, <2>6, <3>4 DEF Counted
      <4> QED
        BY <1>2, <2>10, <3>4, <4>1 DEF Lasts
    <3> QED
      BY <2>7, <2>8, <3>1, <3>2, <3>3, <3>4 DEF Counted
  <2> QED
    BY <2>1, <2>11 DEF CallerOK
<1> QED
  BY <1>3, <1>4, <1>5 DEF LeaseInv

\* What the printer does with a request: it moves no lease but that of a new
\* subscription or of the one the request is about, and says how it did.
Same(s) == life'[s] = life[s] /\ granted'[s] = granted[s] /\ left'[s] = left[s]

Processes(r, a) ==
    /\ Answer(r, a)
    /\ \A s \in SubIds :
        /\ \/ Same(s)
           \/ r.op = "Create" /\ life[s] = "free"
           \/ r.op \in {"Renew", "Cancel"} /\ r.sub = s
        /\ life[s] # "free" => life'[s] # "free"
    /\ a.ok /\ r.op = "Create" /\ a.sub # None =>
        /\ life[a.sub] = "free" /\ life'[a.sub] = "live" /\ granted'[a.sub] \in 0..MaxLease
        /\ left'[a.sub] = granted'[a.sub] /\ a.lease \in {granted'[a.sub], None}
    /\ a.ok /\ r.op = "Renew" =>
        left'[r.sub] = granted'[r.sub] /\ granted'[r.sub] \in 0..MaxLease
    /\ a.ok /\ r.op = "Read" => life[r.sub] = "live" /\ a.lease \in {granted[r.sub], None}
    /\ Running' /\ WholeLeaseExpires'

LEMMA ProcessedKept ==
    ASSUME TypeOK, LeaseInv, UNCHANGED callerVars,
           NEW r \in wire, NEW a \in Replies, Processes(r, a)
    PROVE  LeaseInv'
<1> USE SubscriptionAssumption, MessageAssumption
<1>1. /\ Apart /\ WireMeant /\ Running /\ WholeLeaseExpires
      /\ \A c \in Callers : Waits(c) /\ Undisturbed(c) /\ Counted(c)
  BY DEF LeaseInv, CallerOK
<1>2. /\ UNCHANGED <<awaiting, pc, handle, since, settled, sure>>
      /\ wire' = wire \ {r} /\ SendTypes'
      /\ \A c \in Callers :
            \/ reply'[c] = reply[c]
            \/ c = r.from /\ awaiting[c] = r /\ reply'[c] = a
  <2>1. Answer(r, a) /\ SendTypes
    BY DEF Processes, TypeOK, SendTypes
  <2> QED
    BY <2>1, AnswerType DEF callerVars
<1>3. /\ r \in Requests /\ r # None /\ a # None /\ r.from \in Callers
      /\ a.sub \in SubIds \cup {None} /\ a.lease \in MaybeGranted
      /\ r.op # "Create" => r.sub \in SubIds
  BY RequestFields DEF TypeOK, Replies, MaybeGranted
<1>4. ASSUME NEW c \in Callers, NEW s \in SubIds, Knows(c, s)'
      PROVE  \/ Knows(c, s)
             \/ /\ c = r.from /\ awaiting[c] = r /\ reply'[c] = a /\ pc[c] = "subscribing"
                /\ r.op = "Create" /\ a.ok /\ a.sub = s
  BY <1>1, <1>2, <1>4 DEF Knows, Waits
<1>5. Apart'
  <2> SUFFICES ASSUME NEW c \in Callers, NEW s \in SubIds, Knows(c, s)'
               PROVE  life'[s] # "free" /\ \A d \in Callers : Knows(d, s)' => c = d
    BY DEF Apart
  <2>1. CASE \E d \in Callers : Knows(d, s)
    <3>1. life[s] # "free" /\ life'[s] # "free"
      BY <1>1, <2>1 DEF Apart, Processes
    <3>2. \A d \in Callers : Knows(d, s)' => Knows(d, s)
      BY <1>3, <1>4, <3>1 DEF Processes
    <3> QED
      BY <1>1, <3>1, <3>2 DEF Apart
  <2>2. CASE \A d \in Callers : ~Knows(d, s)
    <3>1. \A d \in Callers : Knows(d, s)' => d = r.from /\ r.op = "Create" /\ a.ok /\ a.sub = s
      BY <1>4, <2>2
    <3> QED
      BY <3>1 DEF Processes
  <2> QED
    BY <2>1, <2>2
<1>6. WireMeant'
  BY <1>1, <1>2 DEF WireMeant
<1>7. ASSUME NEW c \in Callers
      PROVE  CallerOK(c)'
  <2>1. Waits(c)'
    BY <1>1, <1>2, <1>3 DEF Waits
  <2>2. handle[c] \in SubIds => Knows(c, handle[c]) /\ life[handle[c]] # "free"
    BY <1>1 DEF Knows, Apart
  <2>3. ASSUME NEW s \in SubIds, r.op # "Create", r.sub = s, Knows(c, s)
        PROVE  r.from = c
    <3>1. Knows(r.from, s)
      BY <1>3, <2>3 DEF Knows
    <3> QED
      BY <1>1, <1>3, <2>3, <3>1 DEF Apart
  <2>4. ASSUME pc[c] = "subscribing", reply'[c] # None, reply'[c].ok, reply'[c].sub # None
        PROVE  /\ reply'[c].sub \in SubIds
               /\ \/ reply'[c] = reply[c] /\ Knows(c, reply[c].sub)
                  \/ reply'[c] = a /\ awaiting[c] = r /\ r.op = "Create" /\ a.ok
    <3>1. reply'[c] \in Replies
      BY <1>2, <2>4 DEF SendTypes
    <3> QED
      BY <1>1, <1>2, <2>4, <3>1 DEF Replies, Knows, Waits
  <2>5. Undisturbed(c)'
    <3>1. ASSUME settled'[c], handle'[c] # None, NEW q \in wire', q.op # "Create", q.sub = handle'[c]
          PROVE  q = awaiting'[c]
      BY <1>1, <1>2, <3>1 DEF Undisturbed
    <3>2. ASSUME pc'[c] = "subscribing", reply'[c] # None, reply'[c].ok, reply'[c].sub # None,
                 NEW q \in wire', q.op # "Create"
          PROVE  q.sub # reply'[c].sub
      <4>1. CASE reply'[c] = reply[c]
        BY <1>1, <1>2, <3>2, <4>1 DEF Undisturbed
      <4>2. CASE reply'[c] = a /\ awaiting[c] = r /\ r.op = "Create" /\ a.ok
        <5>1. q \in wire /\ q.from \in Callers /\ q.sub \in SubIds
          BY <1>2, <3>2, RequestFields DEF TypeOK
        <5>2. life[q.sub] # "free"
          BY <1>1, <3>2, <5>1 DEF Knows, Apart
        <5>3. life[a.sub] = "free"
          BY <3>2, <4>2 DEF Processes
        <5> QED
          BY <4>2, <5>2, <5>3
      <4> QED
        BY <1>2, <2>4, <3>2, <4>1, <4>2
    <3> QED
      BY <3>1, <3>2 DEF Undisturbed
  <2>6. ASSUME settled[c], pc[c] \in {"held", "reading", "collecting"}
        PROVE  handle[c] \in SubIds /\ Same(handle[c])
    <3>1. handle[c] \in SubIds
      BY <1>1, <2>6 DEF Waits, TypeOK
    <3>2. r.op \in {"Renew", "Cancel"} => r.sub # handle[c]
      BY <1>1, <1>3, <2>6, <3>1 DEF Undisturbed, Waits
    <3> QED
      BY <2>2, <3>1, <3>2 DEF Processes
  <2>7. sure[c] # 0 => settled[c] /\ pc[c] \in {"held", "reading", "collecting"}
    BY <1>1 DEF Counted
  <2>8. Lasts(handle[c], sure[c])'
    BY <1>1, <1>2, <2>6, <2>7 DEF Counted, Lasts, Same
  <2>9. ASSUME settled'[c], pc'[c] \in {"held", "reading", "collecting"}
        PROVE  Begun(handle[c], since[c])'
    BY <1>1, <1>2, <2>6, <2>9 DEF Counted, Begun, Same
  <2>10. ASSUME settled'[c], reply'[c] # None, reply'[c].ok, pc'[c] = "subscribing",
                reply'[c].sub # None
         PROVE  /\ Begun(reply[c].sub, since[c])'
                /\ Lasts(reply[c].sub, Remaining(c, DecodedLease(c)))'
    <3>1. CASE reply'[c] = reply[c] /\ Knows(c, reply[c].sub)
      <4>1. reply[c].sub \in SubIds /\ life[reply[c].sub] # "free"
        BY <1>1, <1>2, <2>4, <2>10, <3>1 DEF Apart
      <4>2. r.op # "Create" => r.sub # reply[c].sub
        BY <1>1, <1>2, <2>10, <3>1 DEF Undisturbed
      <4>3. Same(reply[c].sub)
        BY <4>1, <4>2 DEF Processes
      <4>4. /\ Begun(reply[c].sub, since[c])
            /\ Lasts(reply[c].sub, Remaining(c, DecodedLease(c)))
        BY <1>1, <1>2, <2>10, <3>1 DEF Counted
      <4> QED
        BY <1>2, <3>1, <4>3, <4>4 DEF Same, Begun, Lasts, Remaining, DecodedLease
    <3>2. CASE reply'[c] = a /\ awaiting[c] = r /\ r.op = "Create" /\ a.ok
      <4>1. /\ a.sub \in SubIds /\ life'[a.sub] = "live"
            /\ left'[a.sub] = granted'[a.sub] /\ a.lease \in {granted'[a.sub], None}
            /\ granted'[a.sub] \in 0..MaxLease
            /\ since[c] \in 0..MaxLease /\ MaxLease \in Nat
        <5>1. a.sub \in SubIds /\ a.sub # None
          BY <1>2, <2>4, <2>10, <3>2
        <5> QED
          BY <3>2, <5>1 DEF Processes, TypeOK
      <4>2. Begun(reply[c].sub, since[c])'
        BY <1>2, <1>3, <3>2, <4>1 DEF Begun
      <4>3. CASE a.lease \notin 1..MaxLease
        <5>1. DecodedLease(c)' = None
          BY <3>2, <4>3 DEF DecodedLease
        <5> QED
          BY <4>1, <4>2, <5>1 DEF Lasts, Remaining, Forever
      <4>4. CASE a.lease \in 1..MaxLease
        <5>1. DecodedLease(c)' = a.lease /\ a.lease # None
          BY <1>3, <3>2, <4>4 DEF DecodedLease
        <5>2. Remaining(c, DecodedLease(c))' \in 0..a.lease
          BY <1>2, <4>1, <4>4, <5>1 DEF Remaining
        <5> QED
          BY <3>2, <4>1, <4>2, <4>4, <5>1, <5>2 DEF Lasts
      <4> QED
        BY <4>3, <4>4
    <3> QED
      BY <1>2, <2>4, <2>10, <3>1, <3>2
  <2>11. ASSUME settled'[c], reply'[c] # None, reply'[c].ok, pc'[c] = "renewing"
         PROVE  Begun(handle[c], since[c])'
    <3>1. /\ handle[c] \in SubIds /\ awaiting[c].op = "Renew" /\ awaiting[c].sub = handle[c]
          /\ since[c] \in 0..MaxLease
      BY <1>1, <1>2, <2>11 DEF Waits, TypeOK
    <3>2. CASE reply'[c] = a /\ awaiting[c] = r
      <4>1. left'[handle[c]] = granted'[handle[c]] /\ granted'[handle[c]] \in Int
        BY <1>2, <2>11, <3>1, <3>2 DEF Processes
      <4> QED
        BY <1>2, <3>1, <4>1 DEF Begun
    <3>3. CASE reply'[c] = reply[c]
      <4>1. r.op # "Create" => r.sub # handle[c]
        BY <1>1, <1>2, <2>11, <3>1, <3>3 DEF Undisturbed, Waits
      <4>2. Same(handle[c]) /\ Begun(handle[c], since[c])
        BY <1>1, <1>2, <2>2, <2>11, <3>1, <3>3, <4>1 DEF Processes, Counted
      <4> QED
        BY <1>2, <4>2 DEF Same, Begun
    <3> QED
      BY <1>2, <3>2, <3>3
  <2>12. ASSUME settled'[c], reply'[c] # None, reply'[c].ok, pc'[c] = "reading"
         PROVE  Lasts(handle[c], Remaining(c, DecodedLease(c)))'
    <3>1. /\ handle[c] \in SubIds /\ Same(handle[c]) /\ Begun(handle[c], since[c])
          /\ awaiting[c].op = "Read" /\ awaiting[c].sub = handle[c]
          /\ since[c] \in 0..MaxLease /\ MaxLease \in Nat
          /\ left[handle[c]] \in 0..MaxLease
      BY <1>1, <1>2, <2>6, <2>12 DEF Waits, Counted, TypeOK
    <3>2. CASE reply'[c] = reply[c]
      <4>1. Lasts(handle[c], Remaining(c, DecodedLease(c)))
        BY <1>1, <1>2, <2>12, <3>2 DEF Counted
      <4> QED
        BY <1>2, <3>1, <3>2, <4>1 DEF Same, Lasts, Remaining, DecodedLease
    <3>3. CASE reply'[c] = a /\ awaiting[c] = r
      <4>1. /\ life[handle[c]] = "live" /\ a.lease \in {granted[handle[c]], None}
            /\ life'[handle[c]] = "live" /\ granted'[handle[c]] = granted[handle[c]]
            /\ left'[handle[c]] = left[handle[c]]
        BY <2>12, <3>1, <3>3 DEF Processes, Same
      <4>2. CASE a.lease \notin 1..MaxLease
        <5>1. DecodedLease(c)' = None
          BY <3>3, <4>2 DEF DecodedLease
        <5> QED
          BY <3>1, <5>1 DEF Lasts, Remaining, Forever
      <4>3. CASE a.lease \in 1..MaxLease
        <5>1. DecodedLease(c)' = a.lease /\ a.lease # None
          BY <1>3, <3>3, <4>3 DEF DecodedLease
        <5>2. a.lease - left[handle[c]] <= since[c]
          BY <3>1, <4>1, <4>3 DEF Begun
        <5>3. /\ Remaining(c, DecodedLease(c))' \in Nat
              /\ Remaining(c, DecodedLease(c))' # 0 =>
                    Remaining(c, DecodedLease(c))' <= left[handle[c]]
          BY <1>2, <3>1, <4>3, <5>1, <5>2 DEF Remaining
        <5> QED
          BY <1>2, <4>1, <5>3 DEF Lasts
      <4> QED
        BY <4>2, <4>3
    <3> QED
      BY <1>2, <3>2, <3>3
  <2>13. Counted(c)'
    BY <1>2, <2>7, <2>8, <2>9, <2>10, <2>11, <2>12 DEF Counted
  <2> QED
    BY <2>1, <2>5, <2>13 DEF CallerOK
<1> QED
  BY <1>5, <1>6, <1>7 DEF LeaseInv, Processes

LEMMA PrinterLease == TypeOK /\ LeaseInv /\ Printer /\ UNCHANGED callerVars => LeaseInv'
<1> SUFFICES ASSUME TypeOK, LeaseInv, Printer, UNCHANGED callerVars
             PROVE  LeaseInv'
  OBVIOUS
<1> USE SubscriptionAssumption
<1>1. Running /\ WholeLeaseExpires /\ WireMeant
  BY DEF LeaseInv
<1>2. \A r \in wire : r \in Requests
  BY DEF TypeOK
<1>3. \A s \in SubIds : /\ life[s] \in {"free", "live", "over"} /\ granted[s] \in 0..MaxLease
                        /\ left[s] \in 0..MaxLease
  BY DEF TypeOK
\* A lease that the printer grants is a whole one if it was meant to be.
<1>4. ASSUME NEW r \in wire, r.op \in {"Create", "Renew"}, NEW g \in Grantable(r.lease),
             NEW s \in SubIds, Lease(s, r, g),
             \A t \in SubIds \ {s} : life'[t] = life[t]
      PROVE  /\ g \in 0..MaxLease /\ granted'[s] = g /\ left'[s] = g
             /\ \A t \in SubIds \ {s} : Same(t)
             /\ Running' /\ WholeLeaseExpires'
  <2>1. /\ g \in 0..MaxLease /\ r.meant \in MaybeLeases /\ r.lease = LeaseAttribute(r.meant)
    BY <1>1, <1>2, <1>4, RequestFields, GrantType DEF WireMeant
  <2>2. /\ granted'[s] = g /\ left'[s] = g /\ meant'[s] = r.meant
        /\ \A t \in SubIds \ {s} : Same(t) /\ meant'[t] = meant[t]
    BY <1>4 DEF Lease, Same, TypeOK
  <2>3. Running'
    BY <1>1, <2>1, <2>2 DEF Running, Same
  <2>4. r.meant # None /\ 1 <= AsSecs(r.meant) /\ AsSecs(r.meant) < IntLimit => g # 0
    <3> SUFFICES ASSUME r.meant # None, 1 <= AsSecs(r.meant), AsSecs(r.meant) < IntLimit
                 PROVE  g # 0
      OBVIOUS
    <3>1. Grantable(r.lease) = 1..MaxLease
      BY <2>1, WholeLeaseSent
    <3> QED
      BY <1>4, <3>1
  <2>5. WholeLeaseExpires'
    <3> SUFFICES ASSUME NEW t \in SubIds, life'[t] = "live", meant'[t] # None,
                        1 <= AsSecs(meant'[t]), AsSecs(meant'[t]) < IntLimit
                 PROVE  granted'[t] # 0
      BY DEF WholeLeaseExpires, AsSecs
    <3>1. CASE t = s
      BY <2>2, <2>4, <3>1
    <3>2. CASE t # s
      BY <1>1, <2>2, <3>2 DEF WholeLeaseExpires, Same
    <3> QED
      BY <3>1, <3>2
  <2> QED
    BY <2>1, <2>2, <2>3, <2>5
<1>5. ASSUME NEW r \in wire, GrantNew(r)
      PROVE  LeaseInv'
  <2>1. PICK s \in SubIds, g \in Grantable(r.lease) :
            /\ life[s] = "free" /\ life' = [life EXCEPT ![s] = "live"]
            /\ Lease(s, r, g)
            /\ \E id \in {s, None}, lease \in {g, None} : Answer(r, Grants(id, lease))
    BY <1>5 DEF GrantNew
  <2>2. PICK id \in {s, None}, lease \in {g, None} : Answer(r, Grants(id, lease))
    BY <2>1
  <2>3. r.op = "Create" /\ life'[s] = "live" /\ \A t \in SubIds \ {s} : life'[t] = life[t]
    BY <1>5, <2>1 DEF GrantNew, TypeOK
  <2>4. /\ g \in 0..MaxLease /\ granted'[s] = g /\ left'[s] = g
        /\ \A t \in SubIds \ {s} : Same(t)
        /\ Running' /\ WholeLeaseExpires'
    BY <1>4, <2>1, <2>3
  <2>5. /\ Grants(id, lease) \in Replies
        /\ Grants(id, lease).sub = id /\ Grants(id, lease).lease = lease
    BY <2>4, ReplyTypes DEF Grants, MaybeGranted
  <2>6. Processes(r, Grants(id, lease))
    BY <2>1, <2>2, <2>3, <2>4, <2>5 DEF Processes, Same
  <2> QED
    BY <2>5, <2>6, ProcessedKept
<1>6. ASSUME NEW r \in wire, GrantAgain(r)
      PROVE  LeaseInv'
  <2>1. PICK g \in Grantable(r.lease) : Lease(r.sub, r, g)
    BY <1>6 DEF GrantAgain
  <2>2. r.op = "Renew" /\ r.sub \in SubIds /\ life' = life
    BY <1>2, <1>6, RequestFields DEF GrantAgain
  <2>3. /\ g \in 0..MaxLease /\ granted'[r.sub] = g /\ left'[r.sub] = g
        /\ \A t \in SubIds \ {r.sub} : Same(t)
        /\ Running' /\ WholeLeaseExpires'
    BY <1>4, <2>1, <2>2
  <2>4. Grants(None, None) \in Replies /\ Answer(r, Grants(None, None))
    BY <1>6, ReplyTypes DEF GrantAgain, MaybeGranted
  <2>5. Processes(r, Grants(None, None))
    BY <2>2, <2>3, <2>4 DEF Processes, Same
  <2> QED
    BY <2>4, <2>5, ProcessedKept
\* Nothing moves.
<1>7. ASSUME UNCHANGED <<life, granted, left, meant>>
      PROVE  (\A s \in SubIds : Same(s)) /\ Running' /\ WholeLeaseExpires'
  BY <1>1, <1>7 DEF Same, Running, WholeLeaseExpires
<1>8. ASSUME NEW r \in wire, Report(r)
      PROVE  LeaseInv'
  <2>1. r.op = "Read" /\ r.sub \in SubIds /\ life[r.sub] = "live"
    BY <1>2, <1>8, RequestFields DEF Report
  <2>2. PICK id \in {r.sub, None}, lease \in {granted[r.sub], None} :
                Answer(r, Grants(id, lease))
    BY <1>8 DEF Report
  <2>3. Grants(id, lease) \in Replies /\ Grants(id, lease).lease = lease
    BY <1>3, <2>1, ReplyTypes DEF Grants, MaybeGranted
  <2>4. (\A s \in SubIds : Same(s)) /\ Running' /\ WholeLeaseExpires'
    BY <1>7, <1>8 DEF Report, subVars
  <2>5. Processes(r, Grants(id, lease))
    BY <2>1, <2>2, <2>3, <2>4 DEF Processes, Same
  <2> QED
    BY <2>3, <2>5, ProcessedKept
<1>9. ASSUME NEW r \in wire, Deliver(r)
      PROVE  LeaseInv'
  <2>1. r.op = "Collect" /\ r.sub \in SubIds
    BY <1>2, <1>9, RequestFields DEF Deliver
  <2>2. Delivery(kept[r.sub]) \in Replies /\ Answer(r, Delivery(kept[r.sub]))
    BY <1>9, <2>1, ReplyTypes DEF Deliver, TypeOK
  <2>3. (\A s \in SubIds : Same(s)) /\ Running' /\ WholeLeaseExpires'
    BY <1>7, <1>9 DEF Deliver, subVars
  <2>4. Processes(r, Delivery(kept[r.sub]))
    BY <2>1, <2>2, <2>3 DEF Processes, Same
  <2> QED
    BY <2>2, <2>4, ProcessedKept
<1>10. ASSUME NEW r \in wire, End(r)
       PROVE  LeaseInv'
  <2>1. r.op = "Cancel" /\ r.sub \in SubIds
    BY <1>2, <1>10, RequestFields DEF End
  <2>2. Grants(None, None) \in Replies /\ Answer(r, Grants(None, None))
    BY <1>10, ReplyTypes DEF End, MaybeGranted
  <2>3. /\ life'[r.sub] = "over"
        /\ \A s \in SubIds \ {r.sub} : Same(s) /\ meant'[s] = meant[s]
    BY <1>10, <2>1 DEF End, Over, Same, TypeOK
  <2>4. Running' /\ WholeLeaseExpires'
    <3>1. \A s \in SubIds : life'[s] = "live" => Same(s) /\ meant'[s] = meant[s]
      BY <2>3
    <3> QED
      BY <1>1, <3>1 DEF Running, WholeLeaseExpires, Same, AsSecs
  <2>5. Processes(r, Grants(None, None))
    BY <2>1, <2>2, <2>3, <2>4 DEF Processes, Same, Grants
  <2> QED
    BY <2>2, <2>5, ProcessedKept
<1>11. ASSUME NEW r \in wire, Refuse(r)
       PROVE  LeaseInv'
  <2>1. Refusal \in Replies /\ Answer(r, Refusal) /\ ~Refusal.ok
    BY <1>11, ReplyTypes DEF Refuse, Refusal
  <2>2. (\A s \in SubIds : Same(s)) /\ Running' /\ WholeLeaseExpires'
    BY <1>7, <1>11 DEF Refuse, subVars
  <2>3. Processes(r, Refusal)
    BY <2>1, <2>2 DEF Processes, Same
  <2> QED
    BY <2>1, <2>3, ProcessedKept
<1>12. ASSUME NEW s \in SubIds, Capture(s) \/ Forget(s)
       PROVE  LeaseInv'
  <2>1. UNCHANGED <<life, granted, left, meant, wire, awaiting, reply, pc, handle, since,
                    settled, sure>>
    BY <1>12 DEF Capture, Forget, sendVars, callerVars
  <2> QED
    BY <2>1 DEF LeaseInv, Apart, Knows, WireMeant, Running, WholeLeaseExpires, CallerOK, Waits,
                Undisturbed, Counted, Begun, Lasts, Remaining, DecodedLease
<1> QED
  BY <1>5, <1>6, <1>8, <1>9, <1>10, <1>11, <1>12 DEF Printer

-----------------------------------------------------------------------------
(* The theorems. *)

\* The invariant the others follow from: types, and what callers count on.
THEOREM Invariance == Spec => [](TypeOK /\ LeaseInv)
<1>1. Init => TypeOK /\ LeaseInv
  BY InitType, InitLease
<1>2. TypeOK /\ LeaseInv /\ [Next]_vars => (TypeOK /\ LeaseInv)'
  <2> SUFFICES ASSUME TypeOK, LeaseInv, [Next]_vars
               PROVE  (TypeOK /\ LeaseInv)'
    OBVIOUS
  <2>1. ASSUME NEW c \in Callers, Caller(c)
        PROVE  (TypeOK /\ LeaseInv)'
    <3>1. Waits(c)
      BY DEF LeaseInv, CallerOK
    <3> QED
      BY <2>1, <3>1, CallerType, CallerLease
  <2>2. CASE Printer /\ UNCHANGED callerVars
    BY <2>2, PrinterType, PrinterLease
  <2>3. CASE Tick
    BY <2>3, TickType, TickLease DEF LeaseInv
  <2>4. CASE UNCHANGED vars
    <3>1. TypeOK'
      BY <2>4 DEF vars, subVars, sendVars, callerVars, TypeOK
    <3>2. LeaseInv'
      BY <2>4 DEF vars, subVars, sendVars, callerVars, LeaseInv, Apart, Knows, WireMeant, Running,
                  WholeLeaseExpires, CallerOK, Waits, Undisturbed, Counted, Begun, Lasts,
                  Remaining, DecodedLease
    <3> QED
      BY <3>1, <3>2
  <2> QED
    BY <2>1, <2>2, <2>3, <2>4 DEF Next
<1> QED
  BY <1>1, <1>2, PTL DEF Spec

\* Every variable is of its type: in particular, what subscribe() and renew()
\* send for a lease fits an i32, whatever Duration they were given.
THEOREM TypeCorrect == Spec => []TypeOK
<1> QED
  BY Invariance, PTL

\* A caller that goes by a lease Subscription::decode told it, counted from the
\* beginning of the call, never takes a subscription that is over for a live
\* one, as long as each of its calls was confirmed - whatever replies leave
\* out.  Of a caller that was told `no expiry' it says nothing: it may have been
\* told that for want of the attribute.
THEOREM LeaseKept == Spec => []LeaseIsKept
<1>1. LeaseInv => LeaseIsKept
  BY DEF LeaseInv, CallerOK, Counted, Lasts, LeaseIsKept
<1> QED
  BY <1>1, Invariance, PTL

\* A subscription whose caller last asked subscribe() or renew() for a second
\* or more, and for less than an i32 of seconds, ends by itself.
THEOREM WholeLeaseEnds == Spec => []WholeLeaseExpires
<1>1. LeaseInv => WholeLeaseExpires
  BY DEF LeaseInv
<1> QED
  BY <1>1, Invariance, PTL
=============================================================================
