---------------------------- MODULE QueueControl ----------------------------
(***************************************************************************)
(* The operations of IppClient and IppPrinter that are one request each    *)
(* (ipp-async/src/client.rs), by clients built with different options, at  *)
(* a daemon that may hang, refuse, or answer after the caller has given    *)
(* up; and job(), which asks how a job ended.                              *)
(***************************************************************************)
EXTENDS Integers, SequencesExt, FiniteSets, IppSend

CONSTANTS
    JobIds,
    Codes,      \* the job-state codes that occur
    Asks,       \* what callers may ask for: [method, queue, job, to]
    Options,    \* the builder options a client may be built with
    USER,       \* the name in the environment, or `anonymous'
    Certificate, \* the certificate the daemon shows
    MaxCalls    \* bound on the calls of one caller

VARIABLES
    options,    \* the builder options each caller chose
    client,     \* the client it built with them
    jobs,       \* the state code of each job, or None when CUPS forgot it
    deeds,      \* what the daemon did for each call, each time it did
    refused,    \* the calls it refused, or that were never sent
    made,       \* how many calls each caller has made
    ask,        \* what each caller asked for last
    busy,       \* the callers whose call is under way
    outcome,    \* how each caller's last call ended, or None
    rejected    \* those whose last call ended at a certificate they do not accept

printerVars == <<jobs, deeds, refused>>
callerVars == <<options, client, made, ask, busy, outcome, rejected>>
vars == <<sendVars, printerVars, callerVars>>

Model == INSTANCE IppModel

-----------------------------------------------------------------------------
(* The client. *)

\* Mutant: build() forgets the timeout.
BuildUntimed(o) ==
    [user |-> IF o.user = None THEN USER ELSE o.user, timeout |-> FALSE,
     basic_auth |-> o.basic_auth, tls |-> o.tls, ca_certs |-> o.ca_certs,
     accept_invalid |-> o.accept_invalid]

\* IppClientBuilder::build.
Build(o) ==
    [user |-> IF o.user = None THEN USER ELSE o.user, timeout |-> o.timeout,
     basic_auth |-> o.basic_auth, tls |-> o.tls, ca_certs |-> o.ca_certs,
     accept_invalid |-> o.accept_invalid]

\* Whether the daemon's certificate is accepted, when it is seen.
Connects(c) ==
    client[c].tls => client[c].accept_invalid \/ Certificate \in client[c].ca_certs

(* The operation codes, those of the ipp crate and those written by hand. *)

PrinterActions ==
    [pause |-> \h0010, resume |-> \h0011, purge_jobs |-> \h0012, validate |-> \h0004]

\* Mutant: two of the codes written by hand are swapped.
RawActionsSwapped ==
    [disable |-> \h0022, enable |-> \h0023, hold_new_jobs |-> \h0025,
     release_held_new_jobs |-> \h0026, cancel_my_jobs |-> \h0039,
     cancel_all_jobs |-> \h0038, identify |-> \h003C]

RawActions ==
    [disable |-> \h0023, enable |-> \h0022, hold_new_jobs |-> \h0025,
     release_held_new_jobs |-> \h0026, cancel_my_jobs |-> \h0039,
     cancel_all_jobs |-> \h0038, identify |-> \h003C]

JobActions ==
    [cancel_job |-> \h0008, hold_job |-> \h000C, release_job |-> \h000D,
     restart_job |-> \h000E, move_job |-> \h400D]
LookupAction == [job |-> \h0009]
DocumentActions == [validate_document |-> \h003D]
SettingActions == [set_job_attributes |-> \h0014, set_attributes |-> \h0013]

\* Requests that make a job, whose reply is read by decode_job_id.
ReprintAction == [resubmit_job |-> \h003A]
PrintAction == [print_bytes |-> \h0002]
MakesJob == DOMAIN ReprintAction \cup DOMAIN PrintAction

Opcode(m) ==
    CASE m \in DOMAIN PrinterActions -> PrinterActions[m]
      [] m \in DOMAIN RawActions -> RawActions[m]
      [] m \in DOMAIN JobActions -> JobActions[m]
      [] m \in DOMAIN LookupAction -> LookupAction[m]
      [] m \in DOMAIN DocumentActions -> DocumentActions[m]
      [] m \in DOMAIN SettingActions -> SettingActions[m]
      [] m \in DOMAIN ReprintAction -> ReprintAction[m]
      [] m \in DOMAIN PrintAction -> PrintAction[m]

\* What each operation calls itself; it is also the name the registry has.
Label ==
    [pause |-> "Pause-Printer", resume |-> "Resume-Printer", purge_jobs |-> "Purge-Jobs",
     disable |-> "Disable-Printer", enable |-> "Enable-Printer",
     hold_new_jobs |-> "Hold-New-Jobs", release_held_new_jobs |-> "Release-Held-New-Jobs",
     cancel_my_jobs |-> "Cancel-My-Jobs", cancel_all_jobs |-> "Cancel-Jobs",
     identify |-> "Identify-Printer", cancel_job |-> "Cancel-Job", hold_job |-> "Hold-Job",
     release_job |-> "Release-Job", restart_job |-> "Restart-Job",
     move_job |-> "CUPS-Move-Job", job |-> "Get-Job-Attributes",
     resubmit_job |-> "Resubmit-Job", set_job_attributes |-> "Set-Job-Attributes",
     validate |-> "Validate-Job", validate_document |-> "Validate-Document",
     set_attributes |-> "Set-Printer-Attributes", print_bytes |-> "Print-Job"]

\* raw_request: the operation, the printer and the user; the number only
\* tells the calls of the model apart.
RawRequest(c, a) ==
    [code |-> Opcode(a.method), queue |-> a.queue, job |-> None, to |-> None,
     user |-> client[c].user, admin |-> client[c].basic_auth,
     from |-> c, nr |-> made[c] + 1]

JobActionRequest(c, a) == [RawRequest(c, a) EXCEPT !.job = a.job]
MoveJobRequest(c, a) == [JobActionRequest(c, a) EXCEPT !.to = a.to]

RequestFor(c, a) ==
    IF a.method = "move_job" THEN MoveJobRequest(c, a)
    ELSE IF a.job # None THEN JobActionRequest(c, a)
    ELSE RawRequest(c, a)

\* What the texts of an error and of its causes are about, the outermost first:
\* the connection is refused, or breaks, for any client; a certificate turns up
\* as deep as the layers of the transport put it.
Broken == {<<"send", "reset">>, <<"send", "connect", "refused">>}
Mistrusted == {<<"send", "connect", "certificate">>, <<"send", "connect", "io", "certificate">>}
Late == <<"send", "timeout">>

Ended(how, value, causes) == [how |-> how, value |-> value, causes |-> causes]

\* Mutant: any refusal reads as a job that CUPS does not know.
LookupOfAnyError(a) ==
    IF ~a.ok THEN Ended("ok", None, <<>>)
    ELSE LET job == Model!DecodeJob(a.value)
         IN  Ended("ok", IF job = <<>> THEN None ELSE job[1].state, <<>>)

\* job(): a job aged out of the history is a normal outcome, and a job that
\* does not decode is skipped.
Lookup(a) ==
    IF a.status = "not-found" THEN Ended("ok", None, <<>>)
    ELSE IF ~a.ok THEN Ended("refused", None, <<>>)
    ELSE LET job == Model!DecodeJob(a.value)
         IN  Ended("ok", IF job = <<>> THEN None ELSE job[1].state, <<>>)

\* check_status, and decode_job_id where there is an id to read.
Result(method, a) ==
    IF method = "job" THEN Lookup(a)
    ELSE IF ~a.ok THEN Ended("refused", None, <<>>)
    ELSE IF method \in MakesJob /\ a.value = None THEN Ended("undecoded", None, <<>>)
    ELSE Ended("ok", a.value, <<>>)

\* Mutant: only the error itself is looked at.
IsCertificateErrorAtTop(causes) == causes # <<>> /\ causes[1] = "certificate"

\* Error::is_certificate_error looks for the word in the text of an error and in
\* those of all it was caused by.
IsCertificateError(causes) == \E i \in DOMAIN causes : causes[i] = "certificate"

-----------------------------------------------------------------------------
Init ==
    /\ SendInit
    /\ options \in [Callers -> Options]
    /\ client = [c \in Callers |-> Build(options[c])]
    /\ jobs \in [JobIds -> Codes \cup {None}]
    /\ deeds = [c \in Callers |-> [n \in 1..MaxCalls |-> <<>>]]
    /\ refused = {}
    /\ made = [c \in Callers |-> 0]
    /\ ask = [c \in Callers |-> None]
    /\ busy = {}
    /\ outcome = [c \in Callers |-> None]
    /\ rejected = {}

Begin(c, a, ended) ==
    /\ c \notin busy /\ made[c] < MaxCalls
    /\ made' = [made EXCEPT ![c] = @ + 1]
    /\ ask' = [ask EXCEPT ![c] = a]
    /\ outcome' = [outcome EXCEPT ![c] = ended]
    /\ rejected' = rejected \ {c}
    /\ UNCHANGED <<options, client, jobs, deeds>>

Call(c, a) ==
    /\ Begin(c, a, None)
    /\ Post(c, RequestFor(c, a))
    /\ busy' = busy \cup {c}
    /\ UNCHANGED refused

\* A name too long for IPP, or an address that does not parse, of which the
\* error says the queue it was for.
CallInVain(c, a) ==
    /\ \E text \in {"too long", a.queue} : Begin(c, a, Ended("unsent", None, <<text>>))
    /\ refused' = refused \cup {<<c, made[c] + 1>>}
    /\ UNCHANGED <<sendVars, busy>>

Return(c, ended) ==
    /\ c \in busy
    /\ busy' = busy \ {c}
    /\ outcome' = [outcome EXCEPT ![c] = ended]
    /\ Rest(c)
    /\ UNCHANGED <<options, client, made, ask, printerVars>>

Answered(c) ==
    /\ reply[c] # None /\ Return(c, Result(ask[c].method, reply[c]))
    /\ UNCHANGED rejected

\* Mutant: the request is sent again when the connection breaks.
BreaksRetrying(c) ==
    /\ c \in busy
    /\ Post(c, awaiting[c])
    /\ UNCHANGED <<printerVars, callerVars>>

\* There is no connection, for a client that would not accept the certificate
\* as for any other, or it breaks, before or after the request was carried out.
Breaks(c) ==
    /\ \E causes \in Broken : Return(c, Ended("transport", None, causes))
    /\ UNCHANGED rejected

\* The daemon's certificate is not accepted.
Mistrusts(c) ==
    /\ ~Connects(c)
    /\ \E causes \in Mistrusted : Return(c, Ended("transport", None, causes))
    /\ rejected' = rejected \cup {c}

TimesOut(c) ==
    /\ client[c].timeout /\ Return(c, Ended("transport", None, Late))
    /\ UNCHANGED rejected

\* The caller drops the future.
Drop(c) == Return(c, Ended("dropped", None, <<>>)) /\ UNCHANGED rejected

-----------------------------------------------------------------------------
(* The daemon. *)

Registry ==
    {<<\h0002, "Print-Job">>, <<\h0004, "Validate-Job">>, <<\h0008, "Cancel-Job">>,
     <<\h0009, "Get-Job-Attributes">>, <<\h000C, "Hold-Job">>, <<\h000D, "Release-Job">>,
     <<\h000E, "Restart-Job">>, <<\h0010, "Pause-Printer">>, <<\h0011, "Resume-Printer">>,
     <<\h0012, "Purge-Jobs">>, <<\h0013, "Set-Printer-Attributes">>, <<\h0014, "Set-Job-Attributes">>,
     <<\h0022, "Enable-Printer">>, <<\h0023, "Disable-Printer">>, <<\h0025, "Hold-New-Jobs">>,
     <<\h0026, "Release-Held-New-Jobs">>, <<\h0038, "Cancel-Jobs">>, <<\h0039, "Cancel-My-Jobs">>,
     <<\h003A, "Resubmit-Job">>, <<\h003C, "Identify-Printer">>, <<\h003D, "Validate-Document">>,
     <<\h400D, "CUPS-Move-Job">>}
Operation(r) == (CHOOSE e \in Registry : e[1] = r.code)[2]
Administrative ==
    {"Pause-Printer", "Resume-Printer", "Purge-Jobs", "Enable-Printer", "Disable-Printer",
     "Hold-New-Jobs", "Release-Held-New-Jobs", "Cancel-Jobs", "Set-Printer-Attributes"}

Group(j, state) ==
    [name \in {"job-id", "job-state"} |->
        Model!Value("int", IF name = "job-id" THEN j ELSE state)]

Log(r, value) ==
    /\ deeds' = [deeds EXCEPT ![r.from][r.nr] = Append(@,
            [op |-> Operation(r), queue |-> r.queue, job |-> r.job, to |-> r.to,
             user |-> r.user, value |-> value])]
    /\ UNCHANGED <<jobs, refused, callerVars>>

\* The daemon says what it knows of a job.
TellOf(r) ==
    /\ Operation(r) = "Get-Job-Attributes"
    /\ Answer(r, IF jobs[r.job] = None
                 THEN [ok |-> FALSE, status |-> "not-found", value |-> None]
                 ELSE [ok |-> TRUE, status |-> "ok", value |-> Group(r.job, jobs[r.job])])
    /\ Log(r, jobs[r.job])

\* It makes a job, whose id the reply may lack.
MakeJob(r) ==
    /\ Operation(r) \in {"Print-Job", "Resubmit-Job"}
    /\ \E j \in JobIds : \E told \in {j, None} :
        /\ Answer(r, [ok |-> TRUE, status |-> "ok", value |-> told])
        /\ Log(r, j)

\* It does anything else it is asked to by somebody who may.
Obey(r) ==
    /\ Operation(r) \notin {"Get-Job-Attributes", "Print-Job", "Resubmit-Job"}
    /\ Operation(r) \in Administrative => r.admin
    /\ Answer(r, [ok |-> TRUE, status |-> "ok", value |-> None])
    /\ Log(r, None)

Refuse(r) ==
    /\ Answer(r, [ok |-> FALSE, status |-> "refused", value |-> None])
    /\ refused' = refused \cup {<<r.from, r.nr>>}
    /\ UNCHANGED <<jobs, deeds, callerVars>>

\* Jobs move on, whoever makes them, and are forgotten in the end.
JobMovesOn(j) ==
    /\ jobs[j] # None
    /\ \E code \in Codes \cup {None} : jobs' = [jobs EXCEPT ![j] = code]
    /\ UNCHANGED <<sendVars, deeds, refused, callerVars>>

Process(r) == Connects(r.from) /\ (TellOf(r) \/ MakeJob(r) \/ Obey(r) \/ Refuse(r))
Daemon == (\E r \in wire : Process(r)) \/ (\E j \in JobIds : JobMovesOn(j))

Ends(c) == Answered(c) \/ Breaks(c) \/ Mistrusts(c) \/ TimesOut(c) \/ Drop(c)
Caller(c) == (\E a \in Asks : Call(c, a) \/ CallInVain(c, a)) \/ Ends(c)
Next == (\E c \in Callers : Caller(c)) \/ Daemon

Spec == Init /\ [][Next]_vars
\* A reply that has come is read, and the timer of a request runs out.
FairSpec == Spec /\ \A c \in Callers : WF_vars(Answered(c)) /\ WF_vars(TimesOut(c))

-----------------------------------------------------------------------------
(* What the constants are, and the variables. *)

Methods == DOMAIN Label

\* Each call names what its method is about, and no more.
ASSUME AsksAssumption ==
    \A a \in Asks :
        /\ a.method \in Methods
        /\ a.job \in JobIds \cup {None} /\ (a.method = "job" => a.job # None)
        /\ a.method # "move_job" => a.to = None

ASSUME BoundAssumption == MaxCalls \in Nat

Users == {Build(o).user : o \in Options}
Requests ==
    [code : {e[1] : e \in Registry}, queue : {a.queue : a \in Asks},
     job : JobIds \cup {None}, to : {a.to : a \in Asks} \cup {None},
     user : Users, admin : {o.basic_auth : o \in Options},
     from : Callers, nr : 1..MaxCalls]
Answers(values) == [ok : BOOLEAN, status : {"ok", "refused", "not-found"}, value : values]
Groups == {Group(j, state) : j \in JobIds, state \in Codes}
Causes ==
    {<<>>, Late} \cup Broken \cup Mistrusted
        \cup {<<text>> : text \in {"too long"} \cup {a.queue : a \in Asks}}
Endings ==
    [how : {"ok", "refused", "unsent", "undecoded", "transport", "dropped"},
     value : JobIds \cup Codes \cup {None},
     causes : Causes]

\* None is none of what it stands for the absence of.
ASSUME NoneAssumption ==
    /\ None \notin JobIds /\ None \notin Codes /\ None \notin Asks
    /\ None \notin Requests /\ None \notin Endings
    /\ None \notin Answers(JobIds \cup {None}) /\ None \notin Answers(Groups)

\* Every variable is of its type.
Deeds ==
    [op : {e[2] : e \in Registry}, queue : {a.queue : a \in Asks},
     job : JobIds \cup {None}, to : {a.to : a \in Asks} \cup {None},
     user : Users, value : JobIds \cup Codes \cup {None}]
TypeOK ==
    /\ wire \subseteq Requests
    /\ awaiting \in [Callers -> Requests \cup {None}]
    /\ options \in [Callers -> Options] /\ client = [c \in Callers |-> Build(options[c])]
    /\ jobs \in [JobIds -> Codes \cup {None}]
    /\ deeds \in [Callers -> [1..MaxCalls -> BoundedSeq(Deeds, 1)]]
    /\ refused \subseteq Callers \X (1..MaxCalls)
    /\ made \in [Callers -> 0..MaxCalls]
    /\ ask \in [Callers -> Asks \cup {None}]
    /\ busy = {c \in Callers : awaiting[c] # None}
    /\ outcome \in [Callers -> Endings \cup {None}]
    /\ rejected \subseteq Callers

\* What was done for a caller's last call.
Deed(c) == Last(deeds[c][made[c]])

\* Ok is said only of what was done: the operation by the name the code gives
\* it, to the printer and the job that were asked for, in the name of the user
\* the client was built for; and an id that is returned is that of the job
\* that was made.
OkMeansDone ==
    \A c \in Callers :
        outcome[c] # None /\ outcome[c].how = "ok" =>
            LET a == ask[c]
                deed == Deed(c)
            IN  /\ deeds[c][made[c]] # <<>>
                /\ deed.op = Label[a.method] /\ deed.queue = a.queue
                /\ deed.job = a.job /\ deed.to = a.to
                /\ deed.user = IF options[c].user = None THEN USER ELSE options[c].user
                /\ a.method \in MakesJob => outcome[c].value = deed.value

\* job() tells how the job stood when CUPS was asked.  That there is no such
\* job it says only when CUPS no longer knew it, or knew it in a state that
\* does not decode, and never when it refused or could not be reached.
LookupIsTrue ==
    \A c \in Callers :
        outcome[c] # None /\ outcome[c].how = "ok" /\ ask[c].method = "job" =>
            /\ deeds[c][made[c]] # <<>>
            /\ \/ outcome[c].value = Deed(c).value
               \/ outcome[c].value = None /\ Deed(c).value \notin 3..9

\* "Identifies the failure" (is_certificate_error): of the errors of requests
\* that were sent, it is true of those that a certificate was the cause of,
\* however deep it is, and of no refused, broken or timed out connection, which
\* a client meets too that would not accept the certificate.  After it nothing
\* that the client ever asked for was done, so that the call can be made again
\* once the certificate is pinned.
CertificateErrorTold ==
    \A c \in Callers :
        outcome[c] # None /\ outcome[c].how = "transport" =>
            /\ IsCertificateError(outcome[c].causes) <=> c \in rejected
            /\ IsCertificateError(outcome[c].causes) =>
                    \A n \in 1..made[c] : deeds[c][n] = <<>>

\* Calls are carried out once at most, and Ok and refusals can be relied on.
Kind(c) ==
    IF outcome[c] = None THEN None
    ELSE IF outcome[c].how = "ok" THEN "ok"
    ELSE IF outcome[c].how \in {"refused", "unsent"} THEN "refused"
    ELSE "unknown"
Kinds == [c \in Callers |-> Kind(c)]
Times == [c \in Callers |-> [n \in 1..MaxCalls |-> Len(deeds[c][n])]]
Calls == INSTANCE RemoteCalls WITH times <- Times, ended <- Kinds
ReliableCalls == Calls!Spec

\* "Set one for interactive requests, where an unreachable printer would
\* otherwise hang the caller indefinitely": with a timeout every call ends,
\* though the daemon never answers.
TimedCallsReturn ==
    \A c \in Callers : options[c].timeout => (c \in busy ~> c \notin busy)
=============================================================================
