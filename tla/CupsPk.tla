------------------------------- MODULE CupsPk -------------------------------
(***************************************************************************)
(* The client of the cups-pk-helper mechanism (cups-pk-client/src), and    *)
(* the mechanism and the D-Bus it is reached by, which are not part of the *)
(* repository.                                                             *)
(*                                                                         *)
(* The operations that change something differ in what they ask the        *)
(* mechanism to do.  What becomes of a call is the same for each: it may   *)
(* be refused by polkit, fail in the mechanism's own words, fail on the    *)
(* bus, or be done; and it may be done although its caller was told of a   *)
(* failure, or is no longer there.                                         *)
(***************************************************************************)
EXTENDS DeviceDiscovery

CONSTANTS
    Callers,        \* tasks of the program
    MaxCalls,       \* calls each of them makes at most
    Dictionaries    \* what a scan for devices may find

VARIABLES
    installed,  \* the mechanism is installed, and started on demand
    bus,        \* the calls that the mechanism has not dealt with
    done,       \* the calls it has carried out, in whole or in part
    reply,      \* what is on its way back to each caller, or None
    pc,         \* where each caller is
    made,       \* how many calls it has made
    outcome,    \* how its last call ended
    reachable,  \* the mechanism was installed at some time of the call
    found,      \* what the mechanism found in its last scan
    devices     \* what devices_get returned last

mechanismVars == <<installed, bus, done, found>>
callerVars == <<pc, made, outcome, devices>>
vars == <<mechanismVars, callerVars, reply, reachable>>

Operations == {"change", "devices", "ping"}
Call(c, op) == [from |-> c, nr |-> made[c] + 1, op |-> op]
Calls == [from : Callers, nr : 1..MaxCalls, op : Operations]

DBusErrors == {"NotPrivileged", "AccessDenied", "ServiceUnknown", "NoReply"}
Outcomes == {"none", "ok", "AuthorizationFailed", "Mechanism", "Transport"}

\* A reply is a D-Bus error, or carries the mechanism's error string, and the
\* dictionary if it is one of DevicesGet.
Replies == [dbus : DBusErrors \cup {None}, error : {Empty, "message"}, raw : Dictionaries]
Failure(e) == [dbus |-> e, error |-> Empty, raw |-> {}]
Message(text, raw) == [dbus |-> None, error |-> text, raw |-> raw]

\* The ways a call can end are told apart.
ASSUME CupsPkAssumption ==
    /\ MaxCalls \in Nat /\ {} \in Dictionaries
    /\ None \notin DBusErrors \cup Replies /\ Empty # "message"

\* No two entries are about the same field of the same device.
ASSUME DictionariesAssumption ==
    \A d \in Dictionaries :
        /\ IsFiniteSet(d)
        /\ \A e, f \in d :
            e.field = f.field /\ e.index = f.index /\ e.index # None => e = f

\* The lists that devices_get may return.
Device ==
    LET values == {e.value : e \in UNION Dictionaries} \cup {Empty}
    IN  {d \in [Fields -> values] : d["uri"] # Empty}
Indices == {e.index : e \in UNION Dictionaries} \ {None}
DeviceLists == {IntoValues(map) : map \in UNION {[I -> Device] : I \in SUBSET Indices}}

\* Every variable is of its type.
TypeOK ==
    /\ installed \in BOOLEAN
    /\ bus \subseteq Calls /\ done \subseteq Calls
    /\ reply \in [Callers -> Replies \cup {None}]
    /\ pc \in [Callers -> {"idle", "connected", "calling", "checking"}]
    /\ made \in [Callers -> 0..MaxCalls]
    /\ outcome \in [Callers -> Outcomes]
    /\ reachable \in [Callers -> BOOLEAN]
    /\ found \in [Callers -> Dictionaries]
    /\ devices \in [Callers -> DeviceLists]

Init ==
    /\ installed \in BOOLEAN
    /\ bus = {} /\ done = {}
    /\ reply = [c \in Callers |-> None]
    /\ pc = [c \in Callers |-> "idle"]
    /\ made = [c \in Callers |-> 0]
    /\ outcome = [c \in Callers |-> "none"]
    /\ reachable = [c \in Callers |-> FALSE]
    /\ found = [c \in Callers |-> {}]
    /\ devices = [c \in Callers |-> <<>>]

-----------------------------------------------------------------------------
(* The bus and the mechanism. *)

Waiting(r) == pc[r.from] \in {"calling", "checking"} /\ made[r.from] = r.nr

Answer(r, a) ==
    /\ bus' = bus \ {r}
    /\ reply' = [reply EXCEPT ![r.from] = IF Waiting(r) THEN a ELSE @]
    /\ UNCHANGED <<installed, callerVars, reachable>>

\* polkit refuses, or the user dismisses its prompt, or the bus lets nobody
\* but root talk to the mechanism.  A ping asks for no authorisation.
Refuse(r) ==
    /\ r.op # "ping"
    /\ \E e \in {"NotPrivileged", "AccessDenied"} : Answer(r, Failure(e))
    /\ UNCHANGED <<done, found>>

CannotStart(r) ==
    /\ ~installed
    /\ Answer(r, Failure("ServiceUnknown"))
    /\ UNCHANGED <<done, found>>

\* The call is carried out.
Perform(r) ==
    /\ installed
    /\ done' = done \cup {r}
    /\ \E raw \in IF r.op = "devices" THEN Dictionaries ELSE {{}} :
        /\ found' = [found EXCEPT ![r.from] = IF Waiting(r) THEN raw ELSE @]
        /\ Answer(r, Message(Empty, raw))

\* The mechanism says what is wrong: a name that is not valid, an answer of
\* the print daemon.  A call of several steps (PrinterRename) may have been
\* carried out in part.
Reject(r) ==
    /\ installed /\ r.op # "ping"
    /\ Answer(r, Message("message", {}))
    /\ done' \in {done, done \cup {r}}
    /\ UNCHANGED found

\* The mechanism dies, before it has carried out the call or after.
Die(r) ==
    /\ installed
    /\ done' \in {done, done \cup {r}}
    /\ Answer(r, Failure("NoReply"))
    /\ UNCHANGED found

Mechanism ==
    \E r \in bus : Refuse(r) \/ CannotStart(r) \/ Perform(r) \/ Reject(r) \/ Die(r)

\* The package is installed or removed.
Package ==
    /\ installed' = ~installed
    /\ reachable' = [c \in Callers |-> reachable[c] \/ installed']
    /\ UNCHANGED <<bus, done, found, callerVars, reply>>

-----------------------------------------------------------------------------
(* The callers. *)

Goto(c, l) == pc' = [pc EXCEPT ![c] = l]

\* CupsPk::connect reaches the system bus; nothing is sent to the mechanism.
Connect(c) ==
    /\ pc[c] = "idle"
    /\ Goto(c, "connected")
    /\ UNCHANGED <<mechanismVars, reply, made, outcome, reachable, devices>>

\* The caller is left with a Transport error and no client, for now.
ConnectFails(c) ==
    /\ pc[c] = "idle"
    /\ outcome' = [outcome EXCEPT ![c] = "Transport"]
    /\ UNCHANGED <<mechanismVars, reply, pc, made, reachable, devices>>

Send(c, op, l) ==
    /\ pc[c] = "connected" /\ made[c] < MaxCalls
    /\ bus' = bus \cup {Call(c, op)}
    /\ made' = [made EXCEPT ![c] = @ + 1]
    /\ reply' = [reply EXCEPT ![c] = None]
    /\ outcome' = [outcome EXCEPT ![c] = "none"]
    /\ reachable' = [reachable EXCEPT ![c] = installed]
    /\ Goto(c, l)
    /\ UNCHANGED <<installed, done, found, devices>>

\* PrinterSetDefault, PrinterSetEnabled and the other setters, PrinterAdd,
\* PrinterDelete, PrinterRename, PrinterAddOptionDefault, JobCancelPurge.
Change(c) == Send(c, "change", "calling")

DevicesGet(c) == Send(c, "devices", "calling")

\* is_available, on a connection of its own.
CheckAvailable(c) == Send(c, "ping", "checking")

\* Mutants: every D-Bus error is a refusal; the error string is not read.
CallFailedAsRefusal(e) == "AuthorizationFailed"
TranslateIgnoring(error) == "ok"

CallFailed(e) ==
    IF e \in {"NotPrivileged", "AccessDenied"} THEN "AuthorizationFailed" ELSE "Transport"

Translate(error) == IF error = Empty THEN "ok" ELSE "Mechanism"

Finished(c) ==
    IF reply[c].dbus # None THEN CallFailed(reply[c].dbus) ELSE Translate(reply[c].error)

\* The reply is there.  Only devices_get looks at more than the error.
CallEnds(c) ==
    /\ pc[c] = "calling" /\ reply[c] # None
    /\ outcome' = [outcome EXCEPT ![c] = Finished(c)]
    /\ IF Finished(c) = "ok"
       THEN \E entries \in SetToSeqs(reply[c].raw) :
                devices' = [devices EXCEPT ![c] = DecodeDevices(entries)]
       ELSE UNCHANGED devices
    /\ reply' = [reply EXCEPT ![c] = None]
    /\ Goto(c, "connected")
    /\ UNCHANGED <<mechanismVars, made, reachable>>

\* Mutant: a proxy that could be built is taken for a mechanism that answers.
CheckEndsUnasked(c) ==
    /\ pc[c] = "checking"
    /\ outcome' = [outcome EXCEPT ![c] = "ok"]
    /\ reply' = [reply EXCEPT ![c] = None]
    /\ Goto(c, "connected")
    /\ UNCHANGED <<mechanismVars, made, reachable, devices>>

\* is_available is true if the ping was answered; "Transport" stands for false.
CheckEnds(c) ==
    /\ pc[c] = "checking" /\ reply[c] # None
    /\ outcome' = [outcome EXCEPT ![c] = IF reply[c].dbus = None THEN "ok" ELSE "Transport"]
    /\ reply' = [reply EXCEPT ![c] = None]
    /\ Goto(c, "connected")
    /\ UNCHANGED <<mechanismVars, made, reachable, devices>>

\* The connection to the bus breaks, whatever becomes of the call.
BusFails(c) ==
    /\ pc[c] \in {"calling", "checking"}
    /\ outcome' = [outcome EXCEPT ![c] = "Transport"]
    /\ reply' = [reply EXCEPT ![c] = None]
    /\ Goto(c, "idle")
    /\ UNCHANGED <<mechanismVars, made, reachable, devices>>

\* The caller drops the future, or the client.
Drop(c) ==
    /\ pc[c] # "idle"
    /\ outcome' = [outcome EXCEPT ![c] = "none"]
    /\ reply' = [reply EXCEPT ![c] = None]
    /\ Goto(c, "idle")
    /\ UNCHANGED <<mechanismVars, made, reachable, devices>>

Caller(c) ==
    \/ Connect(c) \/ ConnectFails(c)
    \/ Change(c) \/ DevicesGet(c) \/ CheckAvailable(c)
    \/ CallEnds(c) \/ CheckEnds(c) \/ BusFails(c) \/ Drop(c)

Next == (\E c \in Callers : Caller(c)) \/ Mechanism \/ Package

Spec == Init /\ [][Next]_vars

-----------------------------------------------------------------------------
ThisCall(c, op) == [from |-> c, nr |-> made[c], op |-> op]

\* A call that returned Ok was carried out.  ("Ignoring it reports success
\* for every failure", translate.)
OkMeansDone ==
    \A c \in Callers :
        outcome[c] = "ok" => \E op \in Operations : ThisCall(c, op) \in done

\* A call that the program was told was not permitted was not carried out,
\* in whole or in part, and will not be: every other failure leaves that open.
\* ("a user closing an authentication dialog has not hit a failure",
\* CupsPkError::AuthorizationFailed.)
RefusedMeansUntouched ==
    \A c \in Callers :
        outcome[c] = "AuthorizationFailed" =>
            \A op \in Operations : ThisCall(c, op) \notin done \cup bus

\* A mechanism that is_available found was there during the call.  ("This
\* pings the service rather than merely constructing a proxy", is_available.)
AvailableMeansInstalled ==
    \A c \in Callers : outcome[c] = "ok" /\ made[c] # 0 => reachable[c]

\* After an Ok devices_get has returned, in the order of their numbers, the
\* devices with a URI that the mechanism found, each with all that was said
\* of it, in whatever order the dictionary was gone through.
DevicesAreThoseFound ==
    \A c \in Callers :
        outcome[c] = "ok" /\ ThisCall(c, "devices") \in done =>
            devices[c] = DevicesIn(found[c])
=============================================================================
