--------------------------- MODULE MCQueueControl ---------------------------
(***************************************************************************)
(* Small instances of QueueControl for TLC.                                *)
(***************************************************************************)
EXTENDS QueueControl

Ask(method, queue, job, to) == [method |-> method, queue |-> queue, job |-> job, to |-> to]
PrinterMethods ==
    {"pause", "resume", "purge_jobs", "disable", "enable", "hold_new_jobs",
     "release_held_new_jobs", "cancel_my_jobs", "cancel_all_jobs", "identify",
     "validate", "set_attributes"}
JobMethods ==
    {"cancel_job", "hold_job", "release_job", "restart_job", "resubmit_job",
     "set_job_attributes", "validate_document", "job"}
SomeAsks ==
    {Ask(m, "b", None, None) : m \in PrinterMethods \cup {"print_bytes"}}
        \cup {Ask(m, "a", 1, None) : m \in JobMethods}
        \cup {Ask("move_job", "a", 1, "b")}

Client(user, timeout, basic_auth, tls, ca_certs, accept_invalid) ==
    [user |-> user, timeout |-> timeout, basic_auth |-> basic_auth, tls |-> tls,
     ca_certs |-> ca_certs, accept_invalid |-> accept_invalid]

\* The plain constructor's options; a printer over TLS, its certificate pinned
\* or not; and a client that accepts any certificate.
SomeOptions ==
    {Client("alice", FALSE, FALSE, FALSE, {}, FALSE),
     Client(None, TRUE, TRUE, TRUE, {"own"}, FALSE),
     Client("alice", FALSE, FALSE, TRUE, {"other"}, FALSE),
     Client(None, TRUE, FALSE, TRUE, {}, TRUE)}
=============================================================================
