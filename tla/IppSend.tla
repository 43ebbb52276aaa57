------------------------------ MODULE IppSend ------------------------------
(***************************************************************************)
(* IppClient::send (ipp-async/src/client.rs), and what can become of the   *)
(* requests it sends.                                                      *)
(*                                                                         *)
(* A caller waits for one request at a time.  It gets the reply, or an     *)
(* error after the request or the reply was lost, or after its timeout;    *)
(* in the last case the request may still reach the printer later.         *)
(***************************************************************************)
CONSTANTS
    Callers,    \* tasks of the program
    None

VARIABLES
    wire,       \* the requests not yet processed
    awaiting,   \* the request each caller waits for, or None
    reply       \* the reply on its way to the caller, or None

sendVars == <<wire, awaiting, reply>>

SendInit ==
    /\ wire = {}
    /\ awaiting = [c \in Callers |-> None]
    /\ reply = [c \in Callers |-> None]

\* The request goes out.
Post(c, r) ==
    /\ wire' = wire \cup {r}
    /\ awaiting' = [awaiting EXCEPT ![c] = r]
    /\ reply' = [reply EXCEPT ![c] = None]

\* Nothing more is sent.  A request still on the wire may arrive later, or
\* never: nothing forces the printer to process it.
Rest(c) ==
    /\ awaiting' = [awaiting EXCEPT ![c] = None]
    /\ reply' = [reply EXCEPT ![c] = None]
    /\ UNCHANGED wire

\* The printer has processed r; its reply reaches a caller that still waits.
Answer(r, a) ==
    /\ wire' = wire \ {r}
    /\ reply' = [reply EXCEPT ![r.from] = IF awaiting[r.from] = r THEN a ELSE @]
    /\ UNCHANGED awaiting

\* send() ends with Ok when a reply with a success status arrives, and with
\* Err on any other status, on a transport error, and at the timeout.
Succeeds(c) == reply[c] # None /\ reply[c].ok
Fails(c) == awaiting[c] # None
=============================================================================
