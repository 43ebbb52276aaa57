--------------------------- MODULE DefaultPrinter ---------------------------
(***************************************************************************)
(* IppClient::default_printer and its cache (ipp-async/src/client.rs),     *)
(* with the lpoptions files it prefers to the server                       *)
(* (ipp-async/src/lpoptions.rs).                                           *)
(*                                                                         *)
(* One client is shared by several tasks.  The cache is behind a mutex     *)
(* that is held for a read or a write but never across the request, so     *)
(* the calls of two tasks interleave at every step below.                  *)
(***************************************************************************)
EXTENDS PrintServer

CONSTANTS
    Tasks,      \* the tasks that share the client
    LpFiles,    \* the lpoptions files looked at: the user's, the system's
    Unset       \* the cache's "not yet resolved this cycle"

ASSUME CacheAssumption ==
    /\ LpFiles \subseteq {"user", "system"}
    /\ Unset \notin Queues \cup {None}

VARIABLES
    lpoptions,  \* the destination each lpoptions file names, or None
    cache,      \* default_cache: Unset, None, or a queue
    call,       \* where each task is in default_printer
    answer      \* the task's local `resolved'

cacheVars == <<lpoptions, cache, call, answer>>

CallStates == {"idle", "asking", "storing", "returned"}

CacheTypeOK ==
    /\ lpoptions \in [LpFiles -> Queues \cup {None}]
    /\ cache \in Queues \cup {None, Unset}
    /\ call \in [Tasks -> CallStates]
    /\ answer \in [Tasks -> Queues \cup {None}]

CacheInit ==
    /\ lpoptions \in [LpFiles -> Queues \cup {None}]
    /\ cache = Unset
    /\ call = [t \in Tasks |-> "idle"]
    /\ answer = [t \in Tasks |-> None]

-----------------------------------------------------------------------------
\* lpoptions::default_printer: what the user's file names, else the system's.
\* It need not be a queue the server has.
Named(f) == IF f \in LpFiles THEN lpoptions[f] ELSE None

Chosen == IF Named("user") # None THEN Named("user") ELSE Named("system")

\* The user edits or removes a file.
EditLpoptions(f, d) ==
    /\ lpoptions[f] # d
    /\ lpoptions' = [lpoptions EXCEPT ![f] = d]
    /\ UNCHANGED <<cache, call, answer>>

-----------------------------------------------------------------------------
Moves(t, state, value) ==
    /\ call' = [call EXCEPT ![t] = state]
    /\ answer' = [answer EXCEPT ![t] = value]

\* The call up to its first await: a cached value is returned as it is, the
\* user's choice is about to be stored, or the server is asked.
BeginCall(t) ==
    /\ call[t] = "idle"
    /\ \/ cache # Unset /\ Moves(t, "returned", cache)
       \/ cache = Unset /\ Chosen # None /\ Moves(t, "storing", Chosen)
       \/ cache = Unset /\ Chosen = None /\ Moves(t, "asking", None)
    /\ UNCHANGED <<lpoptions, cache>>

\* CUPS-Get-Default is processed; the reply is under way until Store.
ServerAnswers(t) ==
    /\ call[t] = "asking" /\ up
    /\ Moves(t, "storing", default)
    /\ UNCHANGED <<lpoptions, cache>>

\* server_default() returns Err: logged, and resolved to None.
AskFails(t) ==
    /\ call[t] = "asking" /\ ~up
    /\ Moves(t, "storing", None)
    /\ UNCHANGED <<lpoptions, cache>>

Store(t) ==
    /\ call[t] = "storing"
    /\ cache' = answer[t]
    /\ call' = [call EXCEPT ![t] = "returned"]
    /\ UNCHANGED <<lpoptions, answer>>

\* The caller takes the value and the call is over.
Return(t) ==
    /\ call[t] = "returned"
    /\ call' = [call EXCEPT ![t] = "idle"]
    /\ UNCHANGED <<lpoptions, cache, answer>>

\* The caller drops the future at its only await point.
Abandon(t) ==
    /\ call[t] = "asking"
    /\ call' = [call EXCEPT ![t] = "idle"]
    /\ UNCHANGED <<lpoptions, cache, answer>>

\* The steps of a call in progress, between BeginCall and Return.
Resolve(t) == ServerAnswers(t) \/ AskFails(t) \/ Store(t)

-----------------------------------------------------------------------------
\* A task other than the event stream asks for the default printer.
Borrow(t) == BeginCall(t) \/ Resolve(t) \/ Return(t) \/ Abandon(t)
=============================================================================
