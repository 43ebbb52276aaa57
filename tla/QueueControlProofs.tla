------------------------- MODULE QueueControlProofs -------------------------
(***************************************************************************)
(* Proofs about QueueControl, for any calls of any callers, built with any *)
(* options, and any order of requests, replies and losses.                 *)
(*                                                                         *)
(* The argument: a request on the wire is of a call that was neither       *)
(* carried out nor refused, and there is one of each.  So what is done for *)
(* a call is done once, and the reply its caller waits for tells of it.    *)
(***************************************************************************)
EXTENDS QueueControl, TLAPS

\* The request of the call a caller waits for.
TheRequest(c) ==
    [code |-> Opcode(ask[c].method), queue |-> ask[c].queue, job |-> ask[c].job,
     to |-> ask[c].to, user |-> client[c].user, admin |-> client[c].basic_auth,
     from |-> c, nr |-> made[c]]

\* What was asked for in a caller's last call was done, and v came of it.
DeedOf(c, v) ==
    [op |-> Label[ask[c].method], queue |-> ask[c].queue, job |-> ask[c].job,
     to |-> ask[c].to, user |-> client[c].user, value |-> v]
Done(c, v) == deeds[c][made[c]] = <<DeedOf(c, v)>>

\* A call that was neither carried out nor refused.
Pending(c, n) == deeds[c][n] = <<>> /\ <<c, n>> \notin refused

WireInv ==
    \A r \in wire :
        /\ r.nr <= made[r.from] /\ Pending(r.from, r.nr)
        /\ Operation(r) = "Get-Job-Attributes" => r.job # None
        /\ \A q \in wire : q.from = r.from /\ q.nr = r.nr => q = r
        /\ r.from \in busy /\ r.nr = made[r.from] => r = awaiting[r.from]

FutureInv == \A c \in Callers, n \in 1..MaxCalls : n > made[c] => Pending(c, n)

\* The replies tell what was done.
Says(c, a) ==
    \/ ~a.ok /\ a.status = "refused" /\ <<c, made[c]>> \in refused
    \/ ask[c].method = "job" /\ Done(c, None) /\ ~a.ok /\ a.status = "not-found"
    \/ /\ ask[c].method = "job" /\ a.ok /\ a.status = "ok"
       /\ \E state \in Codes : Done(c, state) /\ a.value = Group(ask[c].job, state)
    \/ /\ ask[c].method \in MakesJob /\ a.ok
       /\ \E j \in JobIds : Done(c, j) /\ a.value \in {j, None}
    \/ /\ ask[c].method \notin MakesJob \cup {"job"} /\ a.ok
       /\ Done(c, None) /\ a.value = None

BusyInv(c) ==
    c \in busy =>
        /\ ask[c] \in Asks /\ made[c] \in 1..MaxCalls /\ outcome[c] = None
        /\ awaiting[c] = TheRequest(c) /\ c \notin rejected

ReplyInv(c) ==
    reply[c] # None => c \in busy /\ awaiting[c] \notin wire /\ Says(c, reply[c])

\* An outcome goes with what was done, or with the error it tells.
OkInv(c) ==
    outcome[c].how = "ok" =>
        \E v \in JobIds \cup Codes \cup {None} :
            /\ Done(c, v)
            /\ ask[c].method \in MakesJob => outcome[c].value = v
            /\ ask[c].method = "job" =>
                outcome[c].value = v \/ (outcome[c].value = None /\ v \notin 3..9)

TransportInv(c) ==
    outcome[c].how = "transport" => (IsCertificateError(outcome[c].causes) <=> c \in rejected)

OutcomeInv(c) ==
    outcome[c] # None =>
        /\ ask[c] \in Asks /\ made[c] \in 1..MaxCalls
        /\ OkInv(c) /\ TransportInv(c)

\* Nothing is done for a client that does not accept the certificate.
Mistrusting(c) ==
    /\ ~Connects(c) => \A n \in 1..MaxCalls : deeds[c][n] = <<>>
    /\ c \in rejected => ~Connects(c)

CallInv ==
    /\ WireInv /\ FutureInv /\ \A c \in Callers : Mistrusting(c)
    /\ reply = [c \in Callers |-> reply[c]]
    /\ \A c \in Callers : BusyInv(c) /\ ReplyInv(c) /\ OutcomeInv(c)

-----------------------------------------------------------------------------
(* The operations by name. *)

LEMMA RegistryKey == \A e, f \in Registry : e[1] = f[1] => e = f
  BY DEF Registry

LEMMA Registered == \A m \in Methods : <<Opcode(m), Label[m]>> \in Registry
  BY DEF Methods, Label, Opcode, PrinterActions, RawActions, JobActions, LookupAction,
         DocumentActions, SettingActions, ReprintAction, PrintAction, Registry

\* A code of the registry names one operation.
LEMMA OperationOf ==
    ASSUME NEW r, NEW e \in Registry, r.code = e[1]
    PROVE  Operation(r) = e[2]
<1> DEFINE d == CHOOSE x \in Registry : x[1] = r.code
<1>1. d \in Registry /\ d[1] = r.code
  OBVIOUS
<1>2. d = e
  BY <1>1, RegistryKey
<1>3. Operation(r) = d[2]
  BY DEF Operation
<1> HIDE DEF d
<1> QED
  BY <1>2, <1>3

\* The codes the code gives its operations, written by hand or not, are those
\* the registry has under their names.
LEMMA NamedRight ==
    ASSUME NEW r, NEW m \in Methods, r.code = Opcode(m)
    PROVE  Operation(r) = Label[m]
<1>1. /\ <<Opcode(m), Label[m]>> \in Registry
      /\ <<Opcode(m), Label[m]>>[1] = r.code /\ <<Opcode(m), Label[m]>>[2] = Label[m]
  BY Registered
<1> QED
  BY <1>1, OperationOf

LEMMA OperationType ==
    \A r \in Requests : Operation(r) \in {e[2] : e \in Registry}
  BY OperationOf DEF Requests

\* Which methods are the lookup, and which make a job.
LEMMA LabelsApart ==
    \A m \in Methods :
        /\ Label[m] = "Get-Job-Attributes" <=> m = "job"
        /\ Label[m] \in {"Print-Job", "Resubmit-Job"} <=> m \in MakesJob
        /\ m \in MakesJob => m # "job"
  BY DEF Methods, Label, MakesJob, ReprintAction, PrintAction

\* What is sent, whichever way it is put together.
LEMMA RequestIs ==
    ASSUME NEW c \in Callers, NEW a \in Asks
    PROVE  RequestFor(c, a) =
                [code |-> Opcode(a.method), queue |-> a.queue, job |-> a.job, to |-> a.to,
                 user |-> client[c].user, admin |-> client[c].basic_auth,
                 from |-> c, nr |-> made[c] + 1]
  BY AsksAssumption DEF RequestFor, MoveJobRequest, JobActionRequest, RawRequest

\* A job of a state the code knows decodes, any other does not.
LEMMA JobDecodes ==
    ASSUME NEW j \in JobIds, NEW state \in Codes
    PROVE  LET job == Model!DecodeJob(Group(j, state))
           IN  /\ state \in 3..9 => job # <<>> /\ job[1].state = state
               /\ state \notin 3..9 => job = <<>>
<1> DEFINE g == Group(j, state)
<1>1. /\ Model!IntOf(g, "job-id") = j
      /\ Model!IntOf(g, "job-state") = state
      /\ Model!TextOf(g, "job-printer-uri") = None
      /\ Model!TextOf(g, "job-name") = None
      /\ Model!IntOf(g, "job-impressions-completed") = None
      /\ Model!IntOf(g, "job-impressions") = None
      /\ Model!IntOf(g, "time-at-completed") = None
  BY DEF Group, Model!Value, Model!IntOf, Model!TextOf, Model!Scalar
<1> HIDE DEF g
<1>2. CASE state \in 3..9
  <2> DEFINE told ==
            [id |-> j, state |-> state, printer |-> "", name |-> None,
             reasons |-> Model!ParseReasons(Model!Texts(g, "job-state-reasons")),
             progress |-> None, pages_printed |-> None, completed |-> None]
  <2>1. Model!DecodeJob(g) = <<told>>
    BY <1>1, <1>2, NoneAssumption
       DEF Model!DecodeJob, Model!JobStateFromIpp, Model!Pages, Model!Positive
  <2>2. told.state = state
    OBVIOUS
  <2> HIDE DEF told
  <2>3. Model!DecodeJob(g) # <<>> /\ Model!DecodeJob(g)[1].state = state
    BY <2>1, <2>2
  <2> QED
    BY <1>2, <2>3 DEF g
<1>3. CASE state \notin 3..9
  <2>1. Model!DecodeJob(g) = <<>>
    BY <1>1, <1>3 DEF Model!DecodeJob, Model!JobStateFromIpp
  <2> QED
    BY <1>3, <2>1 DEF g
<1> QED
  BY <1>2, <1>3

LEMMA OneAtMost ==
    ASSUME NEW S, NEW s
    PROVE  s \in BoundedSeq(S, 1) <=> s = <<>> \/ \E d \in S : s = <<d>>
<1>1. BoundedSeq(S, 1) = UNION {[1..0 -> S], [1..1 -> S]}
  BY DEF BoundedSeq, SeqOf
<1>2. s \in [1..0 -> S] <=> s = <<>>
  <2>1. ASSUME s \in [1..0 -> S]
        PROVE  s = <<>>
    <3>1. s \in Seq(S) /\ Len(s) = 0
      BY <2>1
    <3> QED
      BY <3>1
  <2>2. <<>> \in [1..0 -> S]
    OBVIOUS
  <2> QED
    BY <2>1, <2>2
<1>3. s \in [1..1 -> S] <=> \E d \in S : s = <<d>>
  OBVIOUS
<1> QED
  BY <1>1, <1>2, <1>3

\* How a call may end.
LEMMA EndingType ==
    ASSUME NEW how \in {"ok", "refused", "unsent", "undecoded", "transport", "dropped"},
           NEW value \in JobIds \cup Codes \cup {None},
           NEW causes \in Causes
    PROVE  /\ Ended(how, value, causes) \in Endings
           /\ Ended(how, value, causes).how = how
           /\ Ended(how, value, causes).value = value
           /\ Ended(how, value, causes).causes = causes
  BY DEF Ended, Endings

-----------------------------------------------------------------------------
(* The callers. *)

LEMMA InitKept == Init => TypeOK /\ CallInv
<1> SUFFICES ASSUME Init
             PROVE  TypeOK /\ CallInv
  OBVIOUS
<1>1. <<>> \in BoundedSeq(Deeds, 1)
  BY OneAtMost
<1>2. TypeOK
  BY <1>1, BoundAssumption DEF Init, SendInit, TypeOK
<1>3. WireInv /\ FutureInv /\ \A c \in Callers : Mistrusting(c)
  BY DEF Init, SendInit, WireInv, FutureInv, Pending, Mistrusting
<1>4. reply = [c \in Callers |-> reply[c]]
  BY DEF Init, SendInit
<1>5. \A c \in Callers : BusyInv(c) /\ ReplyInv(c) /\ OutcomeInv(c)
  BY DEF Init, SendInit, BusyInv, ReplyInv, OutcomeInv
<1> QED
  BY <1>2, <1>3, <1>4, <1>5 DEF CallInv

\* Requests are what the daemon can read, and never None.
LEMMA RequestType ==
    ASSUME TypeOK, NEW c \in Callers, NEW a \in Asks, made[c] < MaxCalls
    PROVE  RequestFor(c, a) \in Requests
<1>1. Opcode(a.method) \in {e[1] : e \in Registry}
  <2>1. <<Opcode(a.method), Label[a.method]>> \in Registry
    BY AsksAssumption, Registered
  <2> QED
    BY <2>1
<1>2. client[c].user \in Users /\ client[c].basic_auth \in {o.basic_auth : o \in Options}
  <2>1. options[c] \in Options /\ client[c] = Build(options[c])
    BY DEF TypeOK
  <2> QED
    BY <2>1 DEF Users, Build
<1>3. made[c] + 1 \in 1..MaxCalls
  BY BoundAssumption DEF TypeOK
<1> QED
  BY <1>1, <1>2, <1>3, RequestIs, AsksAssumption DEF Requests

\* What another caller does is nothing to a caller, but for what is refused.
LEMMA OthersKept ==
    ASSUME TypeOK, CallInv, NEW c \in Callers,
           UNCHANGED <<deeds, client>>, refused \subseteq refused',
           \A r \in wire' : r \in wire \/ r.from = c,
           \A d \in Callers \ {c} :
                /\ ask'[d] = ask[d] /\ made'[d] = made[d] /\ outcome'[d] = outcome[d]
                /\ awaiting'[d] = awaiting[d] /\ reply'[d] = reply[d]
                /\ (d \in busy' <=> d \in busy) /\ (d \in rejected' <=> d \in rejected)
    PROVE  \A d \in Callers \ {c} : BusyInv(d)' /\ ReplyInv(d)' /\ OutcomeInv(d)'
<1> SUFFICES ASSUME NEW d \in Callers \ {c}
             PROVE  BusyInv(d)' /\ ReplyInv(d)' /\ OutcomeInv(d)'
  OBVIOUS
<1>1. BusyInv(d) /\ ReplyInv(d) /\ OutcomeInv(d)
  BY DEF CallInv
<1>2. BusyInv(d)'
  BY <1>1 DEF BusyInv, TheRequest
<1>3. ReplyInv(d)'
  <2> SUFFICES ASSUME reply'[d] # None
               PROVE  ReplyInv(d)'
    BY DEF ReplyInv
  <2>1. d \in busy /\ awaiting[d] \notin wire /\ Says(d, reply[d]) /\ awaiting[d].from = d
    BY <1>1 DEF ReplyInv, BusyInv, TheRequest
  <2>2. \A v : Done(d, v) => Done(d, v)'
    BY DEF Done, DeedOf
  <2>3. Says(d, reply[d])'
    <3>1. ask'[d] = ask[d] /\ made'[d] = made[d] /\ reply'[d] = reply[d]
      OBVIOUS
    <3>2. \A g, s : Group(g, s)' = Group(g, s)
      BY DEF Group, Model!Value
    <3> QED
      BY <2>1, <2>2, <3>1 DEF Says
  <2> QED
    BY <2>1, <2>3 DEF ReplyInv
<1>4. OutcomeInv(d)'
  BY <1>1 DEF OutcomeInv, OkInv, TransportInv, Done, DeedOf
<1> QED
  BY <1>2, <1>3, <1>4

\* What every new call has in common.
LEMMA BeginKept ==
    ASSUME TypeOK, CallInv, NEW c \in Callers, NEW a \in Asks,
           NEW ended \in Endings \cup {None}, Begin(c, a, ended)
    PROVE  /\ made[c] < MaxCalls /\ made'[c] = made[c] + 1 /\ made[c] + 1 \in 1..MaxCalls
           /\ made' \in [Callers -> 0..MaxCalls] /\ ask' \in [Callers -> Asks \cup {None}]
           /\ outcome' \in [Callers -> Endings \cup {None}]
           /\ ask'[c] = a /\ outcome'[c] = ended
           /\ c \notin busy /\ awaiting[c] = None /\ reply[c] = None
           /\ \A d \in Callers \ {c} :
                ask'[d] = ask[d] /\ made'[d] = made[d] /\ outcome'[d] = outcome[d]
           /\ rejected' = rejected \ {c} /\ \A d \in Callers : Mistrusting(d)'
<1>1. \A d \in Callers : Mistrusting(d)'
  BY DEF Begin, CallInv, Mistrusting, Connects
<1> QED
  BY <1>1, BoundAssumption DEF Begin, TypeOK, CallInv, ReplyInv

LEMMA CallKept ==
    ASSUME TypeOK, CallInv, NEW c \in Callers, NEW a \in Asks, Call(c, a)
    PROVE  TypeOK' /\ CallInv'
<1>0. PICK q : q = RequestFor(c, a)
  OBVIOUS
<1>1. /\ made[c] < MaxCalls /\ made'[c] = made[c] + 1 /\ made[c] + 1 \in 1..MaxCalls
      /\ made' \in [Callers -> 0..MaxCalls] /\ ask' \in [Callers -> Asks \cup {None}]
      /\ outcome' \in [Callers -> Endings \cup {None}]
      /\ ask'[c] = a /\ outcome'[c] = None
      /\ c \notin busy /\ awaiting[c] = None /\ reply[c] = None
      /\ \A d \in Callers \ {c} :
            ask'[d] = ask[d] /\ made'[d] = made[d] /\ outcome'[d] = outcome[d]
      /\ rejected' = rejected \ {c}
  BY BeginKept DEF Call
<1>2. /\ q = [code |-> Opcode(a.method), queue |-> a.queue, job |-> a.job, to |-> a.to,
              user |-> client[c].user, admin |-> client[c].basic_auth,
              from |-> c, nr |-> made[c] + 1]
      /\ q \in Requests /\ q # None
  BY <1>0, <1>1, RequestIs, RequestType, NoneAssumption
<1>3. /\ wire' = wire \cup {q} /\ awaiting' = [awaiting EXCEPT ![c] = q]
      /\ reply' = [reply EXCEPT ![c] = None] /\ busy' = busy \cup {c}
      /\ UNCHANGED <<options, client, jobs, deeds, refused>>
  BY <1>0 DEF Call, Post, Begin
<1>4. q.from = c /\ q.nr = made[c] + 1 /\ q.job = a.job /\ Operation(q) = Label[a.method]
  <2>1. q.code = Opcode(a.method) /\ a.method \in Methods
    BY <1>2, AsksAssumption
  <2> QED
    BY <1>2, <2>1, NamedRight
<1>5. TypeOK'
  <2>1. wire' \subseteq Requests /\ awaiting' \in [Callers -> Requests \cup {None}]
    BY <1>2, <1>3 DEF TypeOK
  <2>2. busy' = {d \in Callers : awaiting'[d] # None}
    BY <1>2, <1>3 DEF TypeOK
  <2> QED
    BY <1>1, <1>3, <2>1, <2>2 DEF TypeOK
<1>6. FutureInv'
  <2>1. \A d \in Callers : made[d] \in Nat /\ made'[d] \in Nat /\ made[d] <= made'[d]
    <3>1. \A d \in Callers : made[d] \in Nat /\ made'[d] \in Nat
      BY <1>1, BoundAssumption DEF TypeOK
    <3>2. \A d \in Callers : made'[d] = made[d] \/ made'[d] = made[d] + 1
      BY <1>1
    <3> QED
      BY <3>1, <3>2
  <2> QED
    BY <1>3, <2>1 DEF CallInv, FutureInv, Pending
<1>7. WireInv'
  <2>1. \A r \in wire : r.from \in Callers /\ r.nr \in Nat /\ r.nr <= made[r.from]
    BY DEF CallInv, WireInv, TypeOK, Requests
  <2>2. Pending(c, q.nr)
    BY <1>1, <1>4 DEF CallInv, FutureInv, TypeOK
  <2>3. a.method = "job" <=> Operation(q) = "Get-Job-Attributes"
    BY <1>4, LabelsApart, AsksAssumption
  <2>4. /\ q.nr <= made'[q.from] /\ Pending(q.from, q.nr)'
        /\ Operation(q) = "Get-Job-Attributes" => q.job # None
        /\ \A r \in wire' : r.from = q.from /\ r.nr = q.nr => r = q
        /\ q = awaiting'[q.from]
    <3>1. awaiting'[c] = q
      BY <1>3 DEF TypeOK
    <3>2. \A r \in wire : r.from = c => r.nr # made[c] + 1
      BY <1>1, <2>1 DEF TypeOK
    <3>3. made[c] \in Nat /\ q.nr <= made'[q.from]
      BY <1>1, <1>4 DEF TypeOK
    <3>4. Pending(q.from, q.nr)'
      BY <1>3, <1>4, <2>2 DEF Pending
    <3>5. Operation(q) = "Get-Job-Attributes" => q.job # None
      BY <1>4, <2>3, AsksAssumption
    <3> QED
      BY <1>3, <1>4, <3>1, <3>2, <3>3, <3>4, <3>5
  <2>5. ASSUME NEW r \in wire
        PROVE  /\ r.nr <= made'[r.from] /\ Pending(r.from, r.nr)'
               /\ Operation(r) = "Get-Job-Attributes" => r.job # None
               /\ \A p \in wire' : p.from = r.from /\ p.nr = r.nr => p = r
               /\ r.from \in busy' /\ r.nr = made'[r.from] => r = awaiting'[r.from]
    <3>1. /\ r.from \in Callers /\ r.nr \in Nat /\ r.nr <= made[r.from]
          /\ Pending(r.from, r.nr) /\ (Operation(r) = "Get-Job-Attributes" => r.job # None)
          /\ \A p \in wire : p.from = r.from /\ p.nr = r.nr => p = r
          /\ r.from \in busy /\ r.nr = made[r.from] => r = awaiting[r.from]
      BY <2>1 DEF CallInv, WireInv
    <3>2. CASE r.from = c
      BY <1>1, <1>3, <1>4, <3>1, <3>2 DEF Pending, TypeOK
    <3>3. CASE r.from # c
      <4>1. /\ made'[r.from] = made[r.from] /\ awaiting'[r.from] = awaiting[r.from]
            /\ r.from \in busy' <=> r.from \in busy
        BY <1>1, <1>3, <3>1, <3>3 DEF TypeOK
      <4> QED
        BY <1>3, <1>4, <3>1, <3>3, <4>1 DEF Pending
    <3> QED
      BY <3>2, <3>3
  <2>6. \A r \in wire' : r = q \/ r \in wire
    BY <1>3
  <2>7. WireInv' <=>
            \A r \in wire' :
                /\ r.nr <= made'[r.from] /\ Pending(r.from, r.nr)'
                /\ Operation(r) = "Get-Job-Attributes" => r.job # None
                /\ \A p \in wire' : p.from = r.from /\ p.nr = r.nr => p = r
                /\ r.from \in busy' /\ r.nr = made'[r.from] => r = awaiting'[r.from]
    BY DEF WireInv, Pending
  <2> QED
    BY <2>4, <2>5, <2>6, <2>7
<1>8. BusyInv(c)' /\ ReplyInv(c)' /\ OutcomeInv(c)'
  BY <1>1, <1>2, <1>3, NoneAssumption DEF BusyInv, ReplyInv, OutcomeInv, TheRequest, CallInv, TypeOK
<1>9. \A d \in Callers \ {c} : BusyInv(d)' /\ ReplyInv(d)' /\ OutcomeInv(d)'
  BY <1>1, <1>3, <1>4, OthersKept DEF CallInv, TypeOK
<1>10. reply' = [d \in Callers |-> reply'[d]]
  BY <1>3 DEF CallInv
<1>11. \A d \in Callers : Mistrusting(d)'
  BY BeginKept DEF Call
<1> QED
  BY <1>5, <1>6, <1>7, <1>8, <1>9, <1>10, <1>11 DEF CallInv

LEMMA InVainKept ==
    ASSUME TypeOK, CallInv, NEW c \in Callers, NEW a \in Asks, CallInVain(c, a)
    PROVE  TypeOK' /\ CallInv'
<1>0. PICK unsent \in Endings : Begin(c, a, unsent) /\ unsent.how = "unsent"
  <2>1. PICK causes \in Causes : Begin(c, a, Ended("unsent", None, causes))
    BY DEF CallInVain, Causes
  <2>2. /\ Ended("unsent", None, causes) \in Endings
        /\ Ended("unsent", None, causes).how = "unsent"
    BY EndingType
  <2> QED
    BY <2>1, <2>2
<1>1. unsent \in Endings /\ unsent # None /\ unsent.how = "unsent"
  BY <1>0, NoneAssumption
<1>2. /\ made[c] < MaxCalls /\ made'[c] = made[c] + 1 /\ made[c] + 1 \in 1..MaxCalls
      /\ made' \in [Callers -> 0..MaxCalls] /\ ask' \in [Callers -> Asks \cup {None}]
      /\ outcome' \in [Callers -> Endings \cup {None}]
      /\ ask'[c] = a /\ outcome'[c] = unsent
      /\ c \notin busy /\ awaiting[c] = None /\ reply[c] = None
      /\ \A d \in Callers \ {c} :
            ask'[d] = ask[d] /\ made'[d] = made[d] /\ outcome'[d] = outcome[d]
      /\ rejected' = rejected \ {c}
  BY <1>0, <1>1, BeginKept
<1>3. /\ refused' = refused \cup {<<c, made[c] + 1>>}
      /\ UNCHANGED <<wire, awaiting, reply, busy, options, client, jobs, deeds>>
  BY DEF CallInVain, Begin, sendVars
<1>4. TypeOK'
  BY <1>2, <1>3 DEF TypeOK
<1>5. FutureInv'
  BY <1>2, <1>3 DEF CallInv, FutureInv, Pending, TypeOK
<1>6. WireInv'
  <2>1. \A r \in wire : r.from \in Callers /\ r.nr \in Nat /\ r.nr <= made[r.from]
    BY DEF CallInv, WireInv, TypeOK, Requests
  <2>2. \A r \in wire : Pending(r.from, r.nr)'
    <3> SUFFICES ASSUME NEW r \in wire
                 PROVE  Pending(r.from, r.nr)'
      OBVIOUS
    <3>1. Pending(r.from, r.nr) /\ <<r.from, r.nr>> # <<c, made[c] + 1>>
      BY <1>2, <2>1 DEF CallInv, WireInv, TypeOK
    <3> QED
      BY <1>3, <3>1 DEF Pending
  <2>3. ASSUME NEW r \in wire
        PROVE  /\ r.nr <= made'[r.from]
               /\ r.from \in busy => made'[r.from] = made[r.from]
    BY <1>2, <2>1 DEF TypeOK
  <2> QED
    BY <1>3, <2>2, <2>3 DEF CallInv, WireInv
<1>7. BusyInv(c)' /\ ReplyInv(c)' /\ OutcomeInv(c)'
  BY <1>1, <1>2, <1>3 DEF BusyInv, ReplyInv, OutcomeInv, OkInv, TransportInv
<1>8. \A d \in Callers \ {c} : BusyInv(d)' /\ ReplyInv(d)' /\ OutcomeInv(d)'
  BY <1>2, <1>3, OthersKept
<1>9. \A d \in Callers : Mistrusting(d)'
  BY <1>0, BeginKept
<1> QED
  BY <1>3, <1>4, <1>5, <1>6, <1>7, <1>8, <1>9 DEF CallInv

\* A call that ends changes nothing but its caller's outcome.
LEMMA ReturnKept ==
    ASSUME TypeOK, CallInv, NEW c \in Callers, NEW ended \in Endings, Return(c, ended),
           ended.how = "ok" =>
                \E v \in JobIds \cup Codes \cup {None} :
                    /\ Done(c, v)
                    /\ ask[c].method \in MakesJob => ended.value = v
                    /\ ask[c].method = "job" =>
                        ended.value = v \/ (ended.value = None /\ v \notin 3..9),
           rejected' = rejected \/ (rejected' = rejected \cup {c} /\ ~Connects(c)),
           ended.how = "transport" => (IsCertificateError(ended.causes) <=> c \in rejected')
    PROVE  TypeOK' /\ CallInv'
<1>1. /\ c \in busy /\ busy' = busy \ {c}
      /\ outcome' = [outcome EXCEPT ![c] = ended]
      /\ awaiting' = [awaiting EXCEPT ![c] = None] /\ reply' = [reply EXCEPT ![c] = None]
      /\ UNCHANGED <<wire, options, client, made, ask, jobs, deeds, refused>>
  BY DEF Return, Rest, printerVars
<1>2. /\ outcome'[c] = ended /\ awaiting'[c] = None /\ reply'[c] = None
      /\ \A d \in Callers \ {c} : /\ outcome'[d] = outcome[d] /\ awaiting'[d] = awaiting[d]
                                  /\ reply'[d] = reply[d]
  BY <1>1 DEF TypeOK, CallInv
<1>3. TypeOK' /\ \A d \in Callers : Mistrusting(d)'
  <2>1. TypeOK'
    BY <1>1 DEF TypeOK
  <2>2. \A d \in Callers : Mistrusting(d)'
    BY <1>1 DEF CallInv, Mistrusting, Connects
  <2> QED
    BY <2>1, <2>2
<1>4. FutureInv' /\ WireInv' /\ reply' = [d \in Callers |-> reply'[d]]
  <2>1. \A r \in wire : r.from \in Callers
    BY DEF TypeOK, Requests
  <2>2. \A d \in Callers : \A n : Pending(d, n)' = Pending(d, n)
    BY <1>1 DEF Pending
  <2>3. WireInv'
    BY <1>1, <1>2, <2>1, <2>2 DEF CallInv, WireInv
  <2> QED
    BY <1>1, <2>2, <2>3 DEF CallInv, FutureInv
<1>5. BusyInv(c)' /\ ReplyInv(c)' /\ OutcomeInv(c)'
  <2>1. ask[c] \in Asks /\ made[c] \in 1..MaxCalls
    BY <1>1 DEF CallInv, BusyInv
  <2>2. OkInv(c)'
    BY <1>1, <1>2 DEF OkInv, Done, DeedOf
  <2>3. TransportInv(c)'
    BY <1>1, <1>2 DEF TransportInv
  <2> QED
    BY <1>1, <1>2, <2>1, <2>2, <2>3 DEF BusyInv, ReplyInv, OutcomeInv
<1>6. \A d \in Callers \ {c} : BusyInv(d)' /\ ReplyInv(d)' /\ OutcomeInv(d)'
  BY <1>1, <1>2, OthersKept
<1> QED
  BY <1>3, <1>4, <1>5, <1>6 DEF CallInv

\* What a caller makes of the reply goes with what was done for it.
LEMMA ResultTrue ==
    ASSUME TypeOK, CallInv, NEW c \in Callers, reply[c] # None, NEW ended,
           ended = Result(ask[c].method, reply[c])
    PROVE  /\ ended \in Endings /\ ended.how \in {"ok", "refused", "undecoded"}
           /\ ended.how = "ok" =>
                \E v \in JobIds \cup Codes \cup {None} :
                    /\ Done(c, v)
                    /\ ask[c].method \in MakesJob => ended.value = v
                    /\ ask[c].method = "job" =>
                        ended.value = v \/ (ended.value = None /\ v \notin 3..9)
           /\ ended.how = "refused" => <<c, made[c]>> \in refused
<1> DEFINE a == reply[c]
           m == ask[c].method
<1>1. /\ Says(c, a) /\ m \in Methods /\ ask[c] \in Asks
      /\ ask[c].job \in JobIds \cup {None} /\ (m = "job" => ask[c].job # None)
      /\ m \in MakesJob => m # "job"
  BY AsksAssumption, LabelsApart DEF CallInv, ReplyInv, BusyInv
<1> HIDE DEF a, m
<1>2. CASE ~a.ok /\ a.status = "refused" /\ <<c, made[c]>> \in refused
  <2>1. ended = Ended("refused", None, <<>>)
    BY <1>2 DEF Result, Lookup, a, m
  <2> QED
    BY <1>2, <2>1 DEF Ended, Endings, Causes
<1>3. CASE m = "job" /\ Done(c, None) /\ ~a.ok /\ a.status = "not-found"
  <2>1. ended = Ended("ok", None, <<>>) /\ <<>> \in Causes
    BY <1>3 DEF Result, Lookup, a, m, Causes
  <2>2. ended \in Endings /\ ended.how = "ok" /\ ended.value = None
    BY <2>1, EndingType
  <2> QED
    BY <1>1, <1>3, <2>2 DEF m
<1>4. CASE /\ m = "job" /\ a.ok /\ a.status = "ok"
           /\ \E state \in Codes : Done(c, state) /\ a.value = Group(ask[c].job, state)
  <2>1. PICK state \in Codes : Done(c, state) /\ a.value = Group(ask[c].job, state)
    BY <1>4
  <2> DEFINE job == Model!DecodeJob(Group(ask[c].job, state))
  <2>2. /\ state \in 3..9 => job # <<>> /\ job[1].state = state
        /\ state \notin 3..9 => job = <<>>
    BY <1>1, <1>4, JobDecodes
  <2>3. ended = Ended("ok", IF job = <<>> THEN None ELSE job[1].state, <<>>)
    BY <1>4, <2>1 DEF Result, Lookup, a, m
  <2> HIDE DEF job
  <2>4. ended = Ended("ok", IF state \in 3..9 THEN state ELSE None, <<>>)
    BY <2>2, <2>3
  <2>5. /\ ended \in Endings /\ ended.how = "ok"
        /\ ended.value = state \/ (ended.value = None /\ state \notin 3..9)
    BY <2>4 DEF Ended, Endings, Causes
  <2> QED
    BY <1>1, <1>4, <2>1, <2>5 DEF m
<1>5. CASE /\ m \in MakesJob /\ a.ok
           /\ \E j \in JobIds : Done(c, j) /\ a.value \in {j, None}
  <2>1. PICK j \in JobIds : Done(c, j) /\ a.value \in {j, None}
    BY <1>5
  <2>2. CASE a.value = None
    <3>1. ended = Ended("undecoded", None, <<>>)
      BY <1>1, <1>5, <2>2 DEF Result, a, m
    <3> QED
      BY <3>1 DEF Ended, Endings, Causes
  <2>3. CASE a.value # None
    <3>1. ended = Ended("ok", j, <<>>)
      BY <1>1, <1>5, <2>1, <2>3 DEF Result, a, m
    <3> QED
      BY <1>1, <1>5, <2>1, <3>1 DEF Ended, Endings, Causes, m
  <2> QED
    BY <2>2, <2>3
<1>6. CASE m \notin MakesJob \cup {"job"} /\ a.ok /\ Done(c, None) /\ a.value = None
  <2>1. ended = Ended("ok", None, <<>>)
    BY <1>6 DEF Result, a, m
  <2> QED
    BY <1>6, <2>1 DEF Ended, Endings, Causes, m
<1> QED
  BY <1>1, <1>2, <1>3, <1>4, <1>5, <1>6 DEF Says, a, m

\* Which of the texts are about a certificate.
LEMMA CertificateChains ==
    /\ \A causes \in Broken : ~IsCertificateError(causes)
    /\ \A causes \in Mistrusted : IsCertificateError(causes)
    /\ ~IsCertificateError(Late)
  BY DEF Broken, Mistrusted, Late, IsCertificateError

LEMMA EndsKept ==
    ASSUME TypeOK, CallInv, NEW c \in Callers, Ends(c)
    PROVE  TypeOK' /\ CallInv'
<1>0. c \in busy => c \notin rejected
  BY DEF CallInv, BusyInv
<1>0a. Ends(c) => c \in busy
  BY DEF Ends, Answered, Breaks, Mistrusts, TimesOut, Drop, Return
<1>1. CASE Answered(c)
  <2>1. PICK ended : ended = Result(ask[c].method, reply[c])
    OBVIOUS
  <2>2. reply[c] # None /\ Return(c, ended)
    BY <1>1, <2>1 DEF Answered
  <2> QED
    BY <1>1, <2>1, <2>2, ResultTrue, ReturnKept DEF Answered
<1>2. CASE Breaks(c)
  <2>1. PICK causes \in Broken : Return(c, Ended("transport", None, causes))
    BY <1>2 DEF Breaks
  <2>2. PICK ended : ended = Ended("transport", None, causes)
    OBVIOUS
  <2>3. /\ ended \in Endings /\ ended.how = "transport" /\ ended.causes = causes
        /\ ~IsCertificateError(causes)
    BY <2>2, CertificateChains DEF Ended, Endings, Causes
  <2>4. rejected' = rejected /\ c \notin rejected
    BY <1>0, <1>0a, <1>2 DEF Breaks
  <2> QED
    BY <2>1, <2>2, <2>3, <2>4, ReturnKept
<1>3. CASE Mistrusts(c)
  <2>1. PICK causes \in Mistrusted : Return(c, Ended("transport", None, causes))
    BY <1>3 DEF Mistrusts
  <2>2. PICK ended : ended = Ended("transport", None, causes)
    OBVIOUS
  <2>3. /\ ended \in Endings /\ ended.how = "transport" /\ ended.causes = causes
        /\ IsCertificateError(causes)
    BY <2>2, CertificateChains DEF Ended, Endings, Causes
  <2>4. ~Connects(c) /\ rejected' = rejected \cup {c}
    BY <1>3 DEF Mistrusts
  <2> QED
    BY <2>1, <2>2, <2>3, <2>4, ReturnKept
<1>4. CASE TimesOut(c)
  <2>1. PICK ended : ended = Ended("transport", None, Late)
    OBVIOUS
  <2>2. /\ ended \in Endings /\ ended.how = "transport" /\ ended.causes = Late
        /\ ~IsCertificateError(Late)
    BY <2>1, CertificateChains DEF Ended, Endings, Causes
  <2>3. Return(c, ended) /\ rejected' = rejected /\ c \notin rejected
    BY <1>0, <1>0a, <1>4, <2>1 DEF TimesOut
  <2> QED
    BY <2>2, <2>3, ReturnKept
<1>5. CASE Drop(c)
  <2>1. PICK ended : ended = Ended("dropped", None, <<>>)
    OBVIOUS
  <2>2. ended \in Endings /\ ended.how = "dropped"
    BY <2>1 DEF Ended, Endings, Causes
  <2> QED
    BY <1>5, <2>1, <2>2, ReturnKept DEF Drop
<1> QED
  BY <1>1, <1>2, <1>3, <1>4, <1>5 DEF Ends

-----------------------------------------------------------------------------
(* The daemon. *)

LEMMA WireFacts ==
    ASSUME TypeOK, CallInv, NEW r \in wire
    PROVE  /\ r \in Requests /\ r # None /\ r.from \in Callers /\ r.nr \in 1..MaxCalls
           /\ r.nr <= made[r.from] /\ Pending(r.from, r.nr)
           /\ r.job \in JobIds \cup {None}
           /\ Operation(r) = "Get-Job-Attributes" => r.job \in JobIds
           /\ r.queue \in {a.queue : a \in Asks} /\ r.to \in {a.to : a \in Asks} \cup {None}
           /\ r.user \in Users /\ Operation(r) \in {e[2] : e \in Registry}
<1>1. r \in Requests
  BY DEF TypeOK
<1>2. /\ r # None /\ r.from \in Callers /\ r.nr \in 1..MaxCalls
      /\ r.job \in JobIds \cup {None} /\ r.user \in Users
      /\ r.queue \in {a.queue : a \in Asks} /\ r.to \in {a.to : a \in Asks} \cup {None}
  BY <1>1, NoneAssumption DEF Requests
<1> QED
  BY <1>1, <1>2, OperationType DEF CallInv, WireInv

\* The request of a caller that waits is the one it asked for.
LEMMA AwaitedIs ==
    ASSUME TypeOK, CallInv, NEW r \in wire, awaiting[r.from] = r
    PROVE  LET c == r.from
           IN  /\ c \in busy /\ ask[c] \in Asks /\ ask[c].method \in Methods
               /\ r.nr = made[c] /\ r.queue = ask[c].queue /\ r.job = ask[c].job
               /\ r.to = ask[c].to /\ r.user = client[c].user
               /\ Operation(r) = Label[ask[c].method]
<1> DEFINE c == r.from
<1>1. c \in busy /\ ask[c] \in Asks /\ ask[c].method \in Methods /\ r = TheRequest(c)
  BY WireFacts, AsksAssumption DEF TypeOK, CallInv, BusyInv
<1>2. r.code = Opcode(ask[c].method)
  BY <1>1 DEF TheRequest
<1> QED
  BY <1>1, <1>2, NamedRight DEF TheRequest

LEMMA ProcessedKept ==
    ASSUME TypeOK, CallInv, UNCHANGED callerVars, NEW r \in wire,
           NEW a, a # None, Answer(r, a),
           jobs' = jobs,
           deeds' \in [Callers -> [1..MaxCalls -> BoundedSeq(Deeds, 1)]],
           \A d \in Callers, n \in 1..MaxCalls :
                d # r.from \/ n # r.nr => deeds'[d][n] = deeds[d][n],
           refused \subseteq refused',
           \A x \in refused' : x \in refused \/ x = <<r.from, r.nr>>,
           Connects(r.from),
           awaiting[r.from] = r => Says(r.from, a)'
    PROVE  TypeOK' /\ CallInv'
<1>1. /\ r \in Requests /\ r # None /\ r.from \in Callers /\ r.nr \in 1..MaxCalls
      /\ r.nr <= made[r.from] /\ Pending(r.from, r.nr)
  BY WireFacts
<1>2. /\ wire' = wire \ {r} /\ reply' = [d \in Callers |-> reply'[d]]
      /\ UNCHANGED <<awaiting, options, client, made, ask, busy, outcome, rejected>>
      /\ \A d \in Callers :
            \/ reply'[d] = reply[d]
            \/ d = r.from /\ awaiting[d] = r /\ reply'[d] = a
  BY <1>1 DEF Answer, callerVars, CallInv
<1>3. TypeOK'
  <2>1. refused' \subseteq Callers \X (1..MaxCalls)
    BY <1>1 DEF TypeOK
  <2> QED
    BY <1>2, <2>1 DEF TypeOK
<1>4. ASSUME NEW d \in Callers, NEW n \in 1..MaxCalls, d # r.from \/ n # r.nr
      PROVE  Pending(d, n) => Pending(d, n)'
  BY <1>4 DEF Pending
<1>5. FutureInv'
  <2>1. \A d \in Callers : made[d] \in Nat
    BY DEF TypeOK
  <2> QED
    BY <1>1, <1>2, <1>4, <2>1 DEF CallInv, FutureInv
<1>6. WireInv'
  <2>1. \A q \in wire : q.from \in Callers /\ q.nr \in 1..MaxCalls
    BY WireFacts
  <2>2. \A q \in wire' : q \in wire /\ (q.from # r.from \/ q.nr # r.nr)
    BY <1>2 DEF CallInv, WireInv
  <2>3. \A q \in wire' : Pending(q.from, q.nr)'
    BY <1>4, <2>1, <2>2 DEF CallInv, WireInv
  <2> QED
    BY <1>2, <2>2, <2>3 DEF CallInv, WireInv
<1>7. ASSUME NEW d \in Callers
      PROVE  BusyInv(d)' /\ ReplyInv(d)' /\ OutcomeInv(d)'
  <2>1. BusyInv(d) /\ ReplyInv(d) /\ OutcomeInv(d)
    BY DEF CallInv
  <2>2. BusyInv(d)'
    BY <1>2, <2>1 DEF BusyInv, TheRequest
  \* What was done stays so.
  <2>3. ASSUME NEW v, Done(d, v), made[d] \in 1..MaxCalls
        PROVE  Done(d, v)'
    <3>1. d # r.from \/ made[d] # r.nr
      BY <1>1, <2>3 DEF Pending, Done
    <3> QED
      BY <1>2, <2>3, <3>1 DEF Done, DeedOf
  <2>4. ReplyInv(d)'
    <3> SUFFICES ASSUME reply'[d] # None
                 PROVE  ReplyInv(d)'
      BY DEF ReplyInv
    <3>1. CASE d = r.from /\ awaiting[d] = r /\ reply'[d] = a
      <4>1. d \in busy /\ r \notin wire'
        BY <1>1, <1>2, <3>1 DEF TypeOK
      <4>2. Says(d, reply[d])'
        BY <3>1 DEF Says, Done, DeedOf
      <4> QED
        BY <1>2, <3>1, <4>1, <4>2 DEF ReplyInv
    <3>2. CASE reply'[d] = reply[d]
      <4>1. /\ d \in busy /\ awaiting[d] \notin wire /\ Says(d, reply[d])
            /\ made[d] \in 1..MaxCalls
        BY <2>1, <3>2 DEF ReplyInv, BusyInv
      <4>2. Says(d, reply[d])'
        BY <1>2, <2>3, <3>2, <4>1 DEF Says
      <4> QED
        BY <1>2, <3>2, <4>1, <4>2 DEF ReplyInv
    <3> QED
      BY <1>2, <3>1, <3>2
  <2>5. OutcomeInv(d)'
    <3> SUFFICES ASSUME outcome[d] # None
                 PROVE  OutcomeInv(d)'
      BY <1>2 DEF OutcomeInv
    <3>1. ask[d] \in Asks /\ made[d] \in 1..MaxCalls /\ OkInv(d) /\ TransportInv(d)
      BY <2>1 DEF OutcomeInv
    <3>2. OkInv(d)'
      BY <1>2, <2>3, <3>1 DEF OkInv
    <3>3. TransportInv(d)'
      BY <1>2, <3>1 DEF TransportInv
    <3> QED
      BY <1>2, <3>1, <3>2, <3>3 DEF OutcomeInv
  <2> QED
    BY <2>2, <2>4, <2>5
\* Only what a client that connects has sent is processed.
<1>8. ASSUME NEW d \in Callers
      PROVE  Mistrusting(d)'
  <2>1. Mistrusting(d) /\ (Connects(d)' <=> Connects(d))
    BY <1>2 DEF CallInv, Connects
  <2> QED
    BY <1>2, <2>1 DEF Mistrusting
<1> QED
  BY <1>2, <1>3, <1>5, <1>6, <1>7, <1>8 DEF CallInv

\* What is logged is what was asked for.
LEMMA Logged ==
    ASSUME TypeOK, CallInv, NEW r \in wire, NEW v \in JobIds \cup Codes \cup {None}, Log(r, v)
    PROVE  /\ deeds' \in [Callers -> [1..MaxCalls -> BoundedSeq(Deeds, 1)]]
           /\ \A d \in Callers, n \in 1..MaxCalls :
                d # r.from \/ n # r.nr => deeds'[d][n] = deeds[d][n]
           /\ Len(deeds'[r.from][r.nr]) = 1
           /\ awaiting[r.from] = r => Done(r.from, v)'
           /\ UNCHANGED <<jobs, refused, callerVars>>
<1>1. PICK deed : deed = [op |-> Operation(r), queue |-> r.queue, job |-> r.job, to |-> r.to,
                          user |-> r.user, value |-> v]
  OBVIOUS
<1>2. /\ r.from \in Callers /\ r.nr \in 1..MaxCalls /\ Pending(r.from, r.nr)
      /\ deed \in Deeds
  BY <1>1, WireFacts DEF Deeds
<1>3. <<deed>> \in BoundedSeq(Deeds, 1) /\ Append(<<>>, deed) = <<deed>> /\ Len(<<deed>>) = 1
  BY <1>2, OneAtMost
<1>4. deeds' = [deeds EXCEPT ![r.from][r.nr] = <<deed>>] /\ UNCHANGED <<jobs, refused, callerVars>>
  BY <1>1, <1>2, <1>3 DEF Log, Pending, TypeOK
<1>5. /\ deeds' \in [Callers -> [1..MaxCalls -> BoundedSeq(Deeds, 1)]]
      /\ \A d \in Callers, n \in 1..MaxCalls :
            d # r.from \/ n # r.nr => deeds'[d][n] = deeds[d][n]
      /\ deeds'[r.from][r.nr] = <<deed>>
  BY <1>2, <1>3, <1>4 DEF TypeOK
<1>6. ASSUME awaiting[r.from] = r
      PROVE  Done(r.from, v)'
  <2>1. DeedOf(r.from, v)' = deed /\ r.nr = made'[r.from]
    BY <1>1, <1>4, <1>6, AwaitedIs DEF DeedOf, callerVars
  <2> QED
    BY <1>5, <2>1 DEF Done
<1> QED
  BY <1>3, <1>4, <1>5, <1>6

LEMMA ProcessKept ==
    ASSUME TypeOK, CallInv, NEW r \in wire, Process(r)
    PROVE  TypeOK' /\ CallInv'
<1>1. /\ r.from \in Callers /\ r.nr \in 1..MaxCalls
      /\ Operation(r) = "Get-Job-Attributes" => r.job \in JobIds
  BY WireFacts
<1>2. ASSUME NEW v \in JobIds \cup Codes \cup {None}, Log(r, v), NEW a, a # None, Answer(r, a),
             awaiting[r.from] = r => Says(r.from, a)'
      PROVE  TypeOK' /\ CallInv'
  <2>1. Connects(r.from)
    BY DEF Process
  <2> QED
    BY <1>2, <2>1, Logged, ProcessedKept
<1>3. CASE TellOf(r)
  <2>1. Operation(r) = "Get-Job-Attributes" /\ r.job \in JobIds /\ Log(r, jobs[r.job])
    BY <1>1, <1>3 DEF TellOf
  <2>2. PICK v \in Codes \cup {None} : v = jobs[r.job]
    BY <2>1 DEF TypeOK
  <2>3. PICK a : /\ Answer(r, a)
                 /\ a = IF v = None
                        THEN [ok |-> FALSE, status |-> "not-found", value |-> None]
                        ELSE [ok |-> TRUE, status |-> "ok", value |-> Group(r.job, v)]
    BY <1>3, <2>2 DEF TellOf
  <2>4. a # None
    <3>1. CASE v = None
      <4>1. a \in Answers(JobIds \cup {None})
        BY <2>3, <3>1 DEF Answers
      <4> QED
        BY <4>1, NoneAssumption
    <3>2. CASE v # None
      <4>1. Group(r.job, v) \in Groups
        BY <2>1, <2>2, <3>2 DEF Groups
      <4>2. a \in Answers(Groups)
        BY <2>3, <3>2, <4>1 DEF Answers
      <4> QED
        BY <4>2, NoneAssumption
    <3> QED
      BY <3>1, <3>2
  <2>5. ASSUME awaiting[r.from] = r
        PROVE  Says(r.from, a)'
    <3>1. /\ Done(r.from, v)' /\ ask' = ask
      BY <2>1, <2>2, <2>5, Logged DEF callerVars
    <3>2. ask[r.from].method = "job" /\ ask[r.from].job = r.job
      BY <2>1, <2>5, AwaitedIs, LabelsApart
    <3>3. CASE v = None
      BY <2>3, <3>1, <3>2, <3>3 DEF Says
    <3>4. CASE v # None
      <4>1. a.ok /\ a.status = "ok" /\ a.value = Group(r.job, v) /\ v \in Codes
        BY <2>2, <2>3, <3>4
      <4>2. \A j, s : Group(j, s)' = Group(j, s)
        OBVIOUS
      <4> QED
        BY <3>1, <3>2, <4>1 DEF Says
    <3> QED
      BY <3>3, <3>4
  <2> QED
    BY <1>2, <2>1, <2>2, <2>3, <2>4, <2>5
<1>4. CASE MakeJob(r)
  <2>1. PICK j \in JobIds, told \in JobIds \cup {None} :
            /\ told \in {j, None}
            /\ Answer(r, [ok |-> TRUE, status |-> "ok", value |-> told])
            /\ Log(r, j)
    BY <1>4 DEF MakeJob
  <2>2. PICK a : a = [ok |-> TRUE, status |-> "ok", value |-> told]
    OBVIOUS
  <2>3. a # None
    <3>1. a \in Answers(JobIds \cup {None})
      BY <2>1, <2>2 DEF Answers
    <3> QED
      BY <3>1, NoneAssumption
  <2>4. ASSUME awaiting[r.from] = r
        PROVE  Says(r.from, a)'
    <3>1. Done(r.from, j)' /\ ask' = ask
      BY <2>1, <2>4, Logged DEF callerVars
    <3>2. ask[r.from].method \in MakesJob
      BY <1>4, <2>4, AwaitedIs, LabelsApart DEF MakeJob
    <3> QED
      BY <2>1, <2>2, <3>1, <3>2 DEF Says
  <2> QED
    BY <1>2, <2>1, <2>2, <2>3, <2>4
<1>5. CASE Obey(r)
  <2>1. PICK a : a = [ok |-> TRUE, status |-> "ok", value |-> None]
    OBVIOUS
  <2>2. a # None /\ Answer(r, a) /\ Log(r, None)
    <3>1. a \in Answers(JobIds \cup {None})
      BY <2>1 DEF Answers
    <3> QED
      BY <1>5, <2>1, <3>1, NoneAssumption DEF Obey
  <2>3. ASSUME awaiting[r.from] = r
        PROVE  Says(r.from, a)'
    <3>1. Done(r.from, None)' /\ ask' = ask
      BY <2>2, <2>3, Logged DEF callerVars
    <3>2. ask[r.from].method \notin MakesJob \cup {"job"}
      BY <1>5, <2>3, AwaitedIs, LabelsApart DEF Obey
    <3> QED
      BY <2>1, <3>1, <3>2 DEF Says
  <2> QED
    BY <1>2, <2>2, <2>3
<1>6. CASE Refuse(r)
  <2>1. PICK a : a = [ok |-> FALSE, status |-> "refused", value |-> None]
    OBVIOUS
  <2>2. /\ a # None /\ Answer(r, a) /\ refused' = refused \cup {<<r.from, r.nr>>}
        /\ UNCHANGED <<jobs, deeds, callerVars>>
    <3>1. a \in Answers(JobIds \cup {None})
      BY <2>1 DEF Answers
    <3> QED
      BY <1>6, <2>1, <3>1, NoneAssumption DEF Refuse
  <2>3. ASSUME awaiting[r.from] = r
        PROVE  Says(r.from, a)'
    <3>1. <<r.from, made[r.from]>> \in refused' /\ made' = made
      BY <2>2, <2>3, AwaitedIs DEF callerVars
    <3> QED
      BY <2>1, <3>1 DEF Says
  <2> QED
    BY <2>2, <2>3, ProcessedKept DEF TypeOK, Process
<1> QED
  BY <1>3, <1>4, <1>5, <1>6 DEF Process

\* Only the jobs change.
LEMMA JobsKept ==
    ASSUME TypeOK, CallInv, UNCHANGED <<sendVars, deeds, refused, callerVars>>,
           jobs' \in [JobIds -> Codes \cup {None}]
    PROVE  TypeOK' /\ CallInv'
<1>1. UNCHANGED <<wire, awaiting, reply, deeds, refused, options, client, made, ask, busy, outcome,
                  rejected>>
  BY DEF sendVars, callerVars
<1>2. TypeOK'
  BY <1>1 DEF TypeOK
<1>3. WireInv' /\ FutureInv' /\ \A c \in Callers : Mistrusting(c)'
  BY <1>1 DEF CallInv, WireInv, FutureInv, Pending, Mistrusting, Connects
<1>4. ASSUME NEW c \in Callers
      PROVE  BusyInv(c)' /\ ReplyInv(c)' /\ OutcomeInv(c)'
  <2>1. BusyInv(c) /\ ReplyInv(c) /\ OutcomeInv(c)
    BY DEF CallInv
  <2>2. \A v : Done(c, v)' <=> Done(c, v)
    BY <1>1 DEF Done, DeedOf
  <2>3. BusyInv(c)'
    BY <1>1, <2>1 DEF BusyInv, TheRequest
  <2>4. ReplyInv(c)'
    BY <1>1, <2>1, <2>2 DEF ReplyInv, Says
  <2>5. OutcomeInv(c)'
    BY <1>1, <2>1, <2>2 DEF OutcomeInv, OkInv, TransportInv
  <2> QED
    BY <2>3, <2>4, <2>5
<1> QED
  BY <1>1, <1>2, <1>3, <1>4 DEF CallInv

-----------------------------------------------------------------------------
(* The theorems. *)

LEMMA NextKept == TypeOK /\ CallInv /\ [Next]_vars => TypeOK' /\ CallInv'
<1> SUFFICES ASSUME TypeOK, CallInv, [Next]_vars
             PROVE  TypeOK' /\ CallInv'
  OBVIOUS
<1>1. ASSUME NEW c \in Callers, NEW a \in Asks, Call(c, a) \/ CallInVain(c, a)
      PROVE  TypeOK' /\ CallInv'
  BY <1>1, CallKept, InVainKept
<1>2. ASSUME NEW c \in Callers, Ends(c)
      PROVE  TypeOK' /\ CallInv'
  BY <1>2, EndsKept
<1>3. ASSUME NEW r \in wire, Process(r)
      PROVE  TypeOK' /\ CallInv'
  BY <1>3, ProcessKept
<1>4. ASSUME NEW j \in JobIds, JobMovesOn(j)
      PROVE  TypeOK' /\ CallInv'
  <2>1. jobs' \in [JobIds -> Codes \cup {None}]
    BY <1>4 DEF JobMovesOn, TypeOK
  <2> QED
    BY <1>4, <2>1, JobsKept DEF JobMovesOn
<1>5. CASE UNCHANGED vars
  BY <1>5, JobsKept DEF vars, printerVars, TypeOK
<1> QED
  BY <1>1, <1>2, <1>3, <1>4, <1>5 DEF Next, Caller, Daemon

\* The invariant the others follow from: types, and that requests, replies and
\* outcomes go with what was done.
THEOREM Invariance == Spec => [](TypeOK /\ CallInv)
<1> QED
  BY InitKept, NextKept, PTL DEF Spec

\* Every variable is of its type: a call is never carried out twice, and a
\* caller is busy exactly while it waits for a reply.
THEOREM TypeCorrect == Spec => []TypeOK
<1> QED
  BY Invariance, PTL

\* Ok is said only of what was done: the operation by the name the code gives
\* it, to the printer and the job that were asked for, in the name of the user
\* the client was built for; an id that is returned is that of the job made.
THEOREM OkIsDone == Spec => []OkMeansDone
<1>1. TypeOK /\ CallInv => OkMeansDone
  <2> SUFFICES ASSUME TypeOK, CallInv, NEW c \in Callers, outcome[c] # None,
                      outcome[c].how = "ok"
               PROVE  LET a == ask[c]
                          deed == Deed(c)
                      IN  /\ deeds[c][made[c]] # <<>>
                          /\ deed.op = Label[a.method] /\ deed.queue = a.queue
                          /\ deed.job = a.job /\ deed.to = a.to
                          /\ deed.user = IF options[c].user = None THEN USER
                                                                   ELSE options[c].user
                          /\ a.method \in MakesJob => outcome[c].value = deed.value
    BY DEF OkMeansDone
  <2>1. PICK v : Done(c, v) /\ (ask[c].method \in MakesJob => outcome[c].value = v)
    BY DEF CallInv, OutcomeInv, OkInv
  <2>2. deeds[c][made[c]] # <<>> /\ Deed(c) = DeedOf(c, v)
    BY <2>1 DEF Done, Deed, Last
  <2>3. client[c].user = IF options[c].user = None THEN USER ELSE options[c].user
    BY DEF TypeOK, Build
  <2> QED
    BY <2>1, <2>2, <2>3 DEF DeedOf
<1> QED
  BY <1>1, Invariance, PTL

\* job() tells how the job stood when CUPS was asked; that there is none it
\* says only when CUPS knew none, or one in a state that does not decode.
THEOREM LookupTold == Spec => []LookupIsTrue
<1>1. TypeOK /\ CallInv => LookupIsTrue
  <2> SUFFICES ASSUME TypeOK, CallInv, NEW c \in Callers, outcome[c] # None,
                      outcome[c].how = "ok", ask[c].method = "job"
               PROVE  /\ deeds[c][made[c]] # <<>>
                      /\ \/ outcome[c].value = Deed(c).value
                         \/ outcome[c].value = None /\ Deed(c).value \notin 3..9
    BY DEF LookupIsTrue
  <2>1. PICK v : Done(c, v) /\ (outcome[c].value = v \/ (outcome[c].value = None /\ v \notin 3..9))
    BY DEF CallInv, OutcomeInv, OkInv
  <2>2. deeds[c][made[c]] # <<>> /\ Deed(c).value = v
    BY <2>1 DEF Done, Deed, Last, DeedOf
  <2> QED
    BY <2>1, <2>2
<1> QED
  BY <1>1, Invariance, PTL

\* Of the errors of requests that were sent, is_certificate_error is true of
\* those that a certificate was the cause of and of no refused, broken or timed
\* out connection, whichever client met it; and after it nothing that the
\* client ever asked for was done.
THEOREM CertificateTold == Spec => []CertificateErrorTold
<1>1. TypeOK /\ CallInv => CertificateErrorTold
  <2> SUFFICES ASSUME TypeOK, CallInv, NEW c \in Callers, outcome[c] # None,
                      outcome[c].how = "transport"
               PROVE  /\ IsCertificateError(outcome[c].causes) <=> c \in rejected
                      /\ c \in rejected => \A n \in 1..made[c] : deeds[c][n] = <<>>
    BY DEF CertificateErrorTold
  <2>1. IsCertificateError(outcome[c].causes) <=> c \in rejected
    BY DEF CallInv, OutcomeInv, TransportInv
  <2>2. c \in rejected => \A n \in 1..MaxCalls : deeds[c][n] = <<>>
    BY DEF CallInv, Mistrusting
  <2>3. 1..made[c] \subseteq 1..MaxCalls
    BY BoundAssumption DEF TypeOK
  <2> QED
    BY <2>1, <2>2, <2>3
<1> QED
  BY <1>1, Invariance, PTL

-----------------------------------------------------------------------------
(* The calls implement RemoteCalls. *)

LEMMA InitMaps == Init => Calls!Init
<1> SUFFICES ASSUME Init
             PROVE  Calls!Init
  OBVIOUS
<1>1. Times = [c \in Callers |-> [n \in 1..MaxCalls |-> 0]]
  BY DEF Init, Times
<1>2. Kinds = [c \in Callers |-> None]
  BY DEF Init, Kinds, Kind
<1> QED
  BY <1>1, <1>2 DEF Init, Calls!Init

\* How a call ended is a note about its caller alone.
LEMMA KindsMap ==
    ASSUME NEW c \in Callers, \A d \in Callers \ {c} : outcome'[d] = outcome[d]
    PROVE  Kinds' = [Kinds EXCEPT ![c] = Kind(c)']
<1>1. \A d \in Callers \ {c} : Kind(d)' = Kind(d)
  BY DEF Kind
<1>2. Kinds = [d \in Callers |-> Kind(d)] /\ Kinds' = [d \in Callers |-> Kind(d)']
  BY DEF Kinds
<1> QED
  BY <1>1, <1>2

LEMMA CallMaps ==
    ASSUME TypeOK, CallInv, NEW c \in Callers, NEW a \in Asks
    PROVE  /\ Call(c, a) => Calls!Call(c)
           /\ CallInVain(c, a) => Calls!CallInVain(c)
<1>1. ASSUME NEW ended \in Endings \cup {None}, Begin(c, a, ended)
      PROVE  /\ c \notin busy /\ made[c] < MaxCalls /\ made' = [made EXCEPT ![c] = @ + 1]
             /\ Kinds' = [Kinds EXCEPT ![c] = Kind(c)'] /\ outcome'[c] = ended
             /\ Times' = Times
  <2>1. /\ c \notin busy /\ made[c] < MaxCalls /\ made' = [made EXCEPT ![c] = @ + 1]
        /\ outcome' = [outcome EXCEPT ![c] = ended] /\ deeds' = deeds
    BY <1>1 DEF Begin
  <2>2. outcome'[c] = ended /\ \A d \in Callers \ {c} : outcome'[d] = outcome[d]
    BY <2>1 DEF TypeOK
  <2>3. Times' = Times
    BY <2>1 DEF Times
  <2> QED
    BY <2>1, <2>2, <2>3, KindsMap
<1>2. ASSUME Call(c, a)
      PROVE  Calls!Call(c)
  <2>1. Begin(c, a, None) /\ busy' = busy \cup {c} /\ refused' = refused
    BY <1>2 DEF Call
  <2>2. outcome'[c] = None
    BY <1>1, <2>1
  <2>3. Kind(c)' = None
    BY <2>2 DEF Kind
  <2> QED
    BY <1>1, <2>1, <2>3 DEF Calls!Call, Calls!Begin
<1>3. ASSUME CallInVain(c, a)
      PROVE  Calls!CallInVain(c)
  <2>0. PICK text \in {"too long"} \cup {b.queue : b \in Asks} :
                Begin(c, a, Ended("unsent", None, <<text>>))
    BY <1>3 DEF CallInVain
  <2>1. PICK ended : ended = Ended("unsent", None, <<text>>)
    OBVIOUS
  <2>2. ended \in Endings /\ ended.how = "unsent" /\ ended # None
    <3>1. ended \in Endings /\ ended.how = "unsent"
      BY <2>1 DEF Ended, Endings, Causes
    <3> QED
      BY <3>1, NoneAssumption
  <2>3. /\ Begin(c, a, ended) /\ busy' = busy
        /\ refused' = refused \cup {<<c, made[c] + 1>>}
    BY <1>3, <2>0, <2>1 DEF CallInVain
  <2>4. outcome'[c] = ended
    BY <1>1, <2>2, <2>3
  <2>5. Kind(c)' = "refused"
    BY <2>2, <2>4 DEF Kind
  <2> QED
    BY <1>1, <2>2, <2>3, <2>5 DEF Calls!CallInVain, Calls!Begin
<1> QED
  BY <1>2, <1>3

LEMMA EndMaps ==
    ASSUME TypeOK, CallInv, NEW c \in Callers, Ends(c)
    PROVE  \E how \in {"ok", "refused", "unknown"} : Calls!End(c, how)
<1>1. PICK ended \in Endings :
        /\ Return(c, ended)
        /\ ended.how = "refused" => <<c, made[c]>> \in refused
        /\ ended.how # "unsent"
  <2>1. CASE Answered(c)
    <3>1. PICK ended : ended = Result(ask[c].method, reply[c])
      OBVIOUS
    <3>2. reply[c] # None /\ Return(c, ended)
      BY <2>1, <3>1 DEF Answered
    <3> QED
      BY <3>1, <3>2, ResultTrue
  <2>2. CASE Breaks(c) \/ Mistrusts(c) \/ TimesOut(c) \/ Drop(c)
    <3>1. PICK how \in {"transport", "dropped"},
               causes \in {<<>>, Late} \cup Broken \cup Mistrusted :
            Return(c, Ended(how, None, causes))
      BY <2>2 DEF Breaks, Mistrusts, TimesOut, Drop
    <3>2. PICK ended : ended = Ended(how, None, causes)
      OBVIOUS
    <3>3. ended \in Endings /\ ended.how = how
      BY <3>2 DEF Ended, Endings, Causes
    <3> QED
      BY <3>1, <3>2, <3>3
  <2> QED
    BY <2>1, <2>2 DEF Ends
<1>2. /\ c \in busy /\ busy' = busy \ {c} /\ outcome' = [outcome EXCEPT ![c] = ended]
      /\ UNCHANGED <<made, deeds, refused>>
  BY <1>1 DEF Return, printerVars
<1>3. ended # None /\ outcome'[c] = ended /\ \A d \in Callers \ {c} : outcome'[d] = outcome[d]
  BY <1>1, <1>2, NoneAssumption DEF TypeOK
<1>4. Kinds' = [Kinds EXCEPT ![c] = Kind(c)'] /\ Times' = Times
  <2>1. Times' = Times
    BY <1>2 DEF Times
  <2> QED
    BY <1>3, <2>1, KindsMap
<1>5. Kind(c)' \in {"ok", "refused", "unknown"}
  BY <1>3 DEF Kind
<1>6. Kind(c)' = "ok" => Times[c][made[c]] = 1
  <2> SUFFICES ASSUME Kind(c)' = "ok"
               PROVE  Times[c][made[c]] = 1
    OBVIOUS
  <2>1. ended.how = "ok"
    BY <1>3 DEF Kind
  <2>2. made'[c] \in 1..MaxCalls /\ OkInv(c)'
    BY <1>3, EndsKept DEF CallInv, OutcomeInv
  <2>3. PICK v : Done(c, v)'
    BY <1>3, <2>1, <2>2 DEF OkInv
  <2>4. Len(deeds[c][made[c]]) = 1
    BY <1>2, <2>3 DEF Done
  <2> QED
    BY <1>2, <2>2, <2>4 DEF Times
<1>7. Kind(c)' = "refused" => <<c, made[c]>> \in refused
  BY <1>1, <1>3 DEF Kind
<1>8. Calls!End(c, Kind(c)')
  BY <1>2, <1>4, <1>5, <1>6, <1>7 DEF Calls!End
<1> QED
  BY <1>5, <1>8

LEMMA ProcessMaps ==
    ASSUME TypeOK, CallInv, NEW r \in wire, Process(r)
    PROVE  Calls!Carry(r.from, r.nr) \/ Calls!Refuse(r.from, r.nr)
<1>1. /\ r.from \in Callers /\ r.nr \in 1..MaxCalls /\ r.nr <= made[r.from]
      /\ Pending(r.from, r.nr)
      /\ Operation(r) = "Get-Job-Attributes" => r.job \in JobIds
  BY WireFacts
<1>2. Calls!Open(r.from, r.nr)
  <2>1. Times[r.from][r.nr] = 0
    BY <1>1 DEF Times, Pending
  <2> QED
    BY <1>1, <2>1 DEF Calls!Open, Pending
<1>3. outcome' = outcome => Kinds' = Kinds
  BY DEF Kinds, Kind
<1>4. ASSUME NEW v \in JobIds \cup Codes \cup {None}, Log(r, v)
      PROVE  Calls!Carry(r.from, r.nr)
  <2>1. /\ \A d \in Callers, n \in 1..MaxCalls :
                d # r.from \/ n # r.nr => deeds'[d][n] = deeds[d][n]
        /\ Len(deeds'[r.from][r.nr]) = 1
        /\ UNCHANGED <<made, busy, refused, outcome>>
    BY <1>4, Logged DEF callerVars
  <2>2. /\ Times = [d \in Callers |-> [n \in 1..MaxCalls |-> Len(deeds[d][n])]]
        /\ Times' = [d \in Callers |-> [n \in 1..MaxCalls |-> Len(deeds'[d][n])]]
    BY DEF Times
  <2>3. Times' = [Times EXCEPT ![r.from][r.nr] = 1]
    <3>1. \A d \in Callers \ {r.from} : Times'[d] = Times[d]
      BY <2>1, <2>2
    <3>2. Times'[r.from] = [Times[r.from] EXCEPT ![r.nr] = 1]
      BY <1>1, <2>1, <2>2
    <3> QED
      BY <1>1, <2>2, <3>1, <3>2
  <2> QED
    BY <1>2, <1>3, <2>1, <2>3 DEF Calls!Carry
<1>5. CASE TellOf(r)
  BY <1>1, <1>4, <1>5 DEF TellOf, TypeOK
<1>6. CASE MakeJob(r)
  BY <1>4, <1>6 DEF MakeJob
<1>7. CASE Obey(r)
  BY <1>4, <1>7 DEF Obey
<1>8. CASE Refuse(r)
  <2>1. /\ refused' = refused \cup {<<r.from, r.nr>>}
        /\ UNCHANGED <<made, busy, deeds, outcome>>
    BY <1>8 DEF Refuse, callerVars
  <2>2. Times' = Times
    BY <2>1 DEF Times
  <2> QED
    BY <1>2, <1>3, <2>1, <2>2 DEF Calls!Refuse
<1> QED
  BY <1>5, <1>6, <1>7, <1>8 DEF Process

LEMMA NextMaps == TypeOK /\ CallInv /\ [Next]_vars => [Calls!Next]_(Calls!callVars)
<1> SUFFICES ASSUME TypeOK, CallInv, [Next]_vars
             PROVE  [Calls!Next]_(Calls!callVars)
  OBVIOUS
<1>1. ASSUME NEW c \in Callers, Caller(c)
      PROVE  Calls!Next
  BY <1>1, CallMaps, EndMaps DEF Caller, Calls!Next
<1>2. ASSUME NEW r \in wire, Process(r)
      PROVE  Calls!Next
  BY <1>2, WireFacts, ProcessMaps DEF Calls!Next
<1>3. ASSUME UNCHANGED <<deeds, refused, made, busy, outcome>>
      PROVE  UNCHANGED Calls!callVars
  BY <1>3 DEF Calls!callVars, Times, Kinds, Kind
<1>4. ASSUME NEW j \in JobIds, JobMovesOn(j)
      PROVE  UNCHANGED Calls!callVars
  BY <1>3, <1>4 DEF JobMovesOn, callerVars
<1>5. CASE UNCHANGED vars
  BY <1>3, <1>5 DEF vars, printerVars, callerVars
<1> QED
  BY <1>1, <1>2, <1>4, <1>5 DEF Next, Daemon

\* A call is carried out once at most, Ok means that it has been, and a
\* refusal that it was not and will not be: the calls implement RemoteCalls.
THEOREM Reliable == Spec => ReliableCalls
<1>1. Init => Calls!Init
  BY InitMaps
<1>2. TypeOK /\ CallInv /\ [Next]_vars => [Calls!Next]_(Calls!callVars)
  BY NextMaps
<1> QED
  BY <1>1, <1>2, Invariance, PTL DEF Spec, Calls!Spec, ReliableCalls
=============================================================================
