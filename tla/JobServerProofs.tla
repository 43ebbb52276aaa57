-------------------------- MODULE JobServerProofs --------------------------
(***************************************************************************)
(* What every step of the printer of JobServer keeps: shared by the proofs *)
(* about the two ways of submitting a job.                                 *)
(***************************************************************************)
EXTENDS JobServer, TLAPS

\* The fields of a request, by its operation.
LEMMA RequestFields ==
    ASSUME NEW r \in Requests
    PROVE  /\ r.from \in Callers
           /\ r.op \in {"Create-Job", "Send-Document", "Close-Job", "Cancel-Job"}
           /\ r.op = "Create-Job" => r = CreateJob(r.from)
           /\ r.op # "Create-Job" => r.job \in JobIds
           /\ r.op = "Send-Document" => r.doc \in Documents /\ r.last \in BOOLEAN
<1>1. CASE r \in {CreateJob(c) : c \in Callers}
  BY <1>1 DEF CreateJob
<1>2. CASE r \in {SendDocument(c, j, n, last) :
                    c \in Callers, j \in JobIds, n \in 1..MaxDocs, last \in BOOLEAN}
  BY <1>2 DEF SendDocument, Documents
<1>3. CASE r \in {CloseJob(c, j) : c \in Callers, j \in JobIds}
  BY <1>3 DEF CloseJob
<1>4. CASE r \in {CancelJob(c, j) : c \in Callers, j \in JobIds}
  BY <1>4 DEF CancelJob
<1> QED
  BY <1>1, <1>2, <1>3, <1>4 DEF Requests

\* A request of each kind is a request.
LEMMA RequestTypes ==
    ASSUME NEW c \in Callers
    PROVE  /\ CreateJob(c) \in Requests
           /\ \A j \in JobIds :
                /\ CloseJob(c, j) \in Requests /\ CancelJob(c, j) \in Requests
                /\ \A n \in 1..MaxDocs, last \in BOOLEAN :
                        SendDocument(c, j, n, last) \in Requests
  BY DEF Requests

\* Replies to a request, whatever it was.
LEMMA AnswerType ==
    ASSUME ServerTypeOK, NEW r \in wire, NEW a \in Replies, Answer(r, a)
    PROVE  /\ wire' = wire \ {r} /\ awaiting' = awaiting
           /\ reply' \in [Callers -> Replies \cup {None}]
           /\ \A c \in Callers :
                \/ reply'[c] = reply[c]
                \/ c = r.from /\ awaiting[c] = r /\ reply'[c] = a
  BY RequestFields DEF Answer, ServerTypeOK

\* Every step of the printer takes at most one request from the wire.  It
\* makes a job, whose id its caller may be told; or it does what it can do to
\* jobs there are: it adds the document of a request to its job, gives jobs
\* away for good, and never opens one again.  A caller is told Ok of what is
\* done to its job.
PrinterStep ==
    /\ wire' \subseteq wire /\ awaiting' = awaiting
    /\ \A j \in JobIds :
        /\ jobState[j] # "free" => jobState'[j] # "free"
        /\ jobState[j] \notin {"free", "open"} => jobState'[j] # "open"
        /\ docs[j] \subseteq docs'[j]
        /\ \A d \in docs'[j] \ docs[j] :
                \E r \in wire : r.op = "Send-Document" /\ r.job = j /\ r.doc = d
    /\ \A c \in Callers :
        reply'[c] # reply[c] =>
            LET r == awaiting[c]
            IN  /\ r \in wire /\ r \notin wire' /\ r.from = c /\ reply'[c] # None
                /\ reply'[c].ok /\ r.op = "Send-Document" =>
                        r.doc \in docs'[r.job] /\ (r.last => jobState'[r.job] = "queued")
                /\ reply'[c].ok /\ r.op \in {"Close-Job", "Cancel-Job"} =>
                        jobState'[r.job] \in {"queued", "gone"}

\* Which jobs there are changes by the Create-Job requests only, and the id
\* that is told is that of the job that was made.
MakesJobs ==
    \/ /\ \A j \in JobIds : jobState[j] = "free" => jobState'[j] = "free"
       /\ \A c \in Callers :
            reply'[c] # reply[c] /\ awaiting[c] = CreateJob(c) => ~reply'[c].ok
    \/ \E c \in Callers, i \in JobIds :
        /\ CreateJob(c) \in wire /\ wire' = wire \ {CreateJob(c)}
        /\ jobState[i] = "free" /\ jobState' = [jobState EXCEPT ![i] = "open"]
        /\ \A d \in Callers : reply'[d] # reply[d] => d = c /\ reply'[d].job \in {i, None}

LEMMA PrinterType == ServerTypeOK /\ Printer => ServerTypeOK'
<1> SUFFICES ASSUME ServerTypeOK, Printer
             PROVE  ServerTypeOK'
  OBVIOUS
<1>1. ASSUME NEW r \in wire, Process(r)
      PROVE  ServerTypeOK'
  <2>1. r \in Requests /\ Acceptance \in Replies /\ Refusal \in Replies
    BY DEF ServerTypeOK, Acceptance, Refusal, Replies
  <2>2. CASE Create(r)
    <3>1. PICK j \in JobIds : /\ jobState' = [jobState EXCEPT ![j] = "open"]
                              /\ \E i \in {j, None} : Answer(r, [ok |-> TRUE, job |-> i])
      BY <2>2 DEF Create
    <3>2. PICK i \in {j, None} : Answer(r, [ok |-> TRUE, job |-> i])
      BY <3>1
    <3>3. [ok |-> TRUE, job |-> i] \in Replies
      BY <3>2 DEF Replies
    <3> QED
      BY <2>2, <3>1, <3>2, <3>3, AnswerType DEF Create, ServerTypeOK, JobStates
  <2>3. CASE Accept(r)
    BY <2>1, <2>3, AnswerType, RequestFields DEF Accept, ServerTypeOK, JobStates
  <2>4. CASE Close(r)
    BY <2>1, <2>4, AnswerType, RequestFields DEF Close, ServerTypeOK, JobStates
  <2>5. CASE Cancel(r)
    BY <2>1, <2>5, AnswerType, RequestFields DEF Cancel, ServerTypeOK, JobStates
  <2>6. CASE Refuse(r)
    BY <2>1, <2>6, AnswerType DEF Refuse, ServerTypeOK
  <2> QED
    BY <1>1, <2>2, <2>3, <2>4, <2>5, <2>6 DEF Process
<1>2. ASSUME NEW j \in JobIds, Finish(j) \/ Remove(j)
      PROVE  ServerTypeOK'
  BY <1>2 DEF Finish, Remove, ServerTypeOK, JobStates, sendVars
<1> QED
  BY <1>1, <1>2 DEF Printer

LEMMA PrinterSteps == ServerTypeOK /\ Printer => PrinterStep
<1> SUFFICES ASSUME ServerTypeOK, Printer
             PROVE  PrinterStep
  OBVIOUS
<1>1. ASSUME NEW r \in wire, Process(r)
      PROVE  PrinterStep
  <2>1. /\ r \in Requests /\ Acceptance \in Replies /\ Refusal \in Replies
        /\ Acceptance.ok /\ ~Refusal.ok /\ None \notin Replies
    BY JobServerAssumption DEF ServerTypeOK, Acceptance, Refusal, Replies
  <2>2. CASE Create(r)
    <3>1. PICK j \in JobIds : /\ jobState[j] = "free"
                              /\ jobState' = [jobState EXCEPT ![j] = "open"]
                              /\ \E i \in {j, None} : Answer(r, [ok |-> TRUE, job |-> i])
      BY <2>2 DEF Create
    <3>2. PICK i \in {j, None} : Answer(r, [ok |-> TRUE, job |-> i])
      BY <3>1
    <3>3. [ok |-> TRUE, job |-> i] \in Replies
      BY <3>2 DEF Replies
    <3> QED
      BY <2>1, <2>2, <3>1, <3>2, <3>3, AnswerType DEF Create, ServerTypeOK, PrinterStep
  <2>3. CASE Accept(r)
    BY <2>1, <2>3, AnswerType, RequestFields DEF Accept, ServerTypeOK, PrinterStep
  <2>4. CASE Close(r)
    BY <2>1, <2>4, AnswerType, RequestFields DEF Close, ServerTypeOK, PrinterStep
  <2>5. CASE Cancel(r)
    BY <2>1, <2>5, AnswerType, RequestFields DEF Cancel, ServerTypeOK, PrinterStep
  <2>6. CASE Refuse(r)
    BY <2>1, <2>6, AnswerType, RequestFields DEF Refuse, ServerTypeOK, PrinterStep
  <2> QED
    BY <1>1, <2>2, <2>3, <2>4, <2>5, <2>6 DEF Process
<1>2. ASSUME NEW j \in JobIds, Finish(j) \/ Remove(j)
      PROVE  PrinterStep
  BY <1>2 DEF Finish, Remove, ServerTypeOK, JobStates, sendVars, PrinterStep
<1> QED
  BY <1>1, <1>2 DEF Printer

LEMMA PrinterMakes == ServerTypeOK /\ Printer => MakesJobs
<1> SUFFICES ASSUME ServerTypeOK, Printer
             PROVE  MakesJobs
  OBVIOUS
<1>1. ASSUME NEW r \in wire, Process(r)
      PROVE  MakesJobs
  <2>1. /\ r \in Requests /\ Acceptance \in Replies /\ Refusal \in Replies /\ ~Refusal.ok
        /\ \A c \in Callers : r = CreateJob(c) => r.op = "Create-Job"
    BY DEF ServerTypeOK, Acceptance, Refusal, Replies, CreateJob
  <2>2. CASE Create(r)
    <3>1. PICK j \in JobIds : /\ jobState[j] = "free"
                              /\ jobState' = [jobState EXCEPT ![j] = "open"]
                              /\ \E i \in {j, None} : Answer(r, [ok |-> TRUE, job |-> i])
      BY <2>2 DEF Create
    <3>2. PICK i \in {j, None} : Answer(r, [ok |-> TRUE, job |-> i])
      BY <3>1
    <3>3. [ok |-> TRUE, job |-> i] \in Replies
      BY <3>2 DEF Replies
    <3>4. r = CreateJob(r.from) /\ r.from \in Callers
      BY <2>1, <2>2, RequestFields DEF Create
    <3>5. /\ wire' = wire \ {r}
          /\ \A d \in Callers : reply'[d] # reply[d] =>
                d = r.from /\ reply'[d].job = i
      BY <3>2, <3>3, AnswerType
    <3>6. CreateJob(r.from) \in wire /\ wire' = wire \ {CreateJob(r.from)}
      BY <3>4, <3>5
    <3>7. \A d \in Callers : reply'[d] # reply[d] =>
                d = r.from /\ reply'[d].job \in {j, None}
      BY <3>2, <3>5
    <3> QED
      BY <3>1, <3>4, <3>6, <3>7, Zenon DEF MakesJobs
  <2>3. CASE Accept(r)
    BY <2>1, <2>3, AnswerType, RequestFields DEF Accept, ServerTypeOK, MakesJobs
  <2>4. CASE Close(r)
    BY <2>1, <2>4, AnswerType, RequestFields DEF Close, ServerTypeOK, MakesJobs
  <2>5. CASE Cancel(r)
    BY <2>1, <2>5, AnswerType, RequestFields DEF Cancel, ServerTypeOK, MakesJobs
  <2>6. CASE Refuse(r)
    BY <2>1, <2>6, AnswerType, RequestFields DEF Refuse, ServerTypeOK, MakesJobs
  <2> QED
    BY <1>1, <2>2, <2>3, <2>4, <2>5, <2>6 DEF Process
<1>2. ASSUME NEW j \in JobIds, Finish(j) \/ Remove(j)
      PROVE  MakesJobs
  BY <1>2 DEF Finish, Remove, ServerTypeOK, JobStates, sendVars, MakesJobs
<1> QED
  BY <1>1, <1>2 DEF Printer
=============================================================================
