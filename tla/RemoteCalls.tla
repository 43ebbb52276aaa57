---------------------------- MODULE RemoteCalls ----------------------------
(***************************************************************************)
(* What a caller may rely on when it asks a printer for something, by the  *)
(* documentation of the operations of IppClient and IppPrinter: a call is  *)
(* carried out once at most, Ok means that it has been, a refusal that it  *)
(* was not and will not be, and after any other error either may be true,  *)
(* now or later.                                                           *)
(***************************************************************************)
EXTENDS Naturals

CONSTANTS
    Callers,
    MaxCalls,   \* calls a caller makes at most
    None

VARIABLES
    made,       \* how many calls each caller has made
    busy,       \* the callers with a call under way
    times,      \* how often each call was carried out
    refused,    \* the calls that never will be, as <<caller, number>>
    ended       \* how each caller's last call ended, or None

callVars == <<made, busy, times, refused, ended>>

Init ==
    /\ made = [c \in Callers |-> 0]
    /\ times = [c \in Callers |-> [n \in 1..MaxCalls |-> 0]]
    /\ busy = {} /\ refused = {}
    /\ ended = [c \in Callers |-> None]

Begin(c, how) ==
    /\ c \notin busy /\ made[c] < MaxCalls
    /\ made' = [made EXCEPT ![c] = @ + 1]
    /\ ended' = [ended EXCEPT ![c] = how]
    /\ UNCHANGED times

Call(c) == Begin(c, None) /\ busy' = busy \cup {c} /\ UNCHANGED refused

\* The request cannot even be built.
CallInVain(c) ==
    /\ Begin(c, "refused")
    /\ refused' = refused \cup {<<c, made[c] + 1>>}
    /\ UNCHANGED busy

Open(c, n) == n <= made[c] /\ times[c][n] = 0 /\ <<c, n>> \notin refused

Carry(c, n) ==
    /\ Open(c, n)
    /\ times' = [times EXCEPT ![c][n] = 1]
    /\ UNCHANGED <<made, busy, refused, ended>>

Refuse(c, n) ==
    /\ Open(c, n)
    /\ refused' = refused \cup {<<c, n>>}
    /\ UNCHANGED <<made, busy, times, ended>>

End(c, how) ==
    /\ c \in busy
    /\ how = "ok" => times[c][made[c]] = 1
    /\ how = "refused" => <<c, made[c]>> \in refused
    /\ busy' = busy \ {c}
    /\ ended' = [ended EXCEPT ![c] = how]
    /\ UNCHANGED <<made, times, refused>>

Next ==
    \E c \in Callers :
        \/ Call(c) \/ CallInVain(c)
        \/ \E n \in 1..MaxCalls : Carry(c, n) \/ Refuse(c, n)
        \/ \E how \in {"ok", "refused", "unknown"} : End(c, how)

Spec == Init /\ [][Next]_callVars
=============================================================================
