------------------------- MODULE PrintStreamProofs -------------------------
(***************************************************************************)
(* Proofs about PrintStream, for any number of calls, job ids and          *)
(* requests lost, late or refused.                                         *)
(*                                                                         *)
(* The argument: a call asks for one job once, and every later request of  *)
(* it is about that job; so what the printer has confirmed to it stays     *)
(* true, since the printer never opens a job again.                        *)
(***************************************************************************)
EXTENDS PrintStream, JobServerProofs, FiniteSetTheorems

\* Where a call is, it waits for the request it has sent from there, about
\* the job it was given.
Waits(c) ==
    /\ pc[c] \in {"idle", "creating"} => id[c] = None
    /\ pc[c] = "creating" => awaiting[c] = CreateJob(c)
    /\ pc[c] = "sending" => id[c] # None /\ awaiting[c] = SendDocument(c, id[c], 1, TRUE)
    /\ pc[c] = "cancelling" => id[c] # None /\ awaiting[c] = CancelJob(c, id[c])
    /\ pc[c] \in {"idle", "returned", "dropped"} => awaiting[c] = None
    /\ awaiting[c] = None => reply[c] = None
    /\ pc[c] = "returned" <=> result[c] # None
    /\ cleanup[c] = "unsent" => pc[c] = "returned"

\* The job a call was given was made, and its document is in no other job.
Given(c) ==
    /\ id[c] # None => jobState[id[c]] # "free"
    /\ \A j \in JobIds : Doc(c) \in docs[j] => id[c] = j

\* What a reply says of the job is so.
Answered(c) ==
    reply[c] # None /\ reply[c].ok =>
        /\ pc[c] = "creating" /\ reply[c].job # None => jobState[reply[c].job] # "free"
        /\ pc[c] = "sending" => Doc(c) \in docs[id[c]] /\ jobState[id[c]] # "open"
        /\ pc[c] = "cancelling" => jobState[id[c]] # "open"

\* What a call has returned is so.
Returned(c) ==
    pc[c] = "returned" =>
        /\ result[c].ok =>
            /\ id[c] # None /\ result[c].job = id[c]
            /\ Doc(c) \in docs[id[c]] /\ jobState[id[c]] # "open"
        /\ ~result[c].ok /\ id[c] # None =>
            \/ cleanup[c] \in {"failed", "unbuilt"}
            \/ cleanup[c] = "done" /\ jobState[id[c]] # "open"

CallOK(c) == Waits(c) /\ Given(c) /\ Answered(c) /\ Returned(c)

\* A request under way, late ones included, is about its caller's job.
Wired ==
    \A r \in wire :
        /\ pc[r.from] # "idle" /\ cleanup[r.from] # "unsent"
        /\ r.op # "Create-Job" => id[r.from] = r.job
        /\ r.op = "Send-Document" => r.doc = Doc(r.from)

CallInv == Wired /\ \A c \in Callers : CallOK(c)

\* Each job there is was made by the one request of one call, which has been
\* told no other id.
MadeBy(owner) ==
    /\ \A j \in JobIds : jobState[j] # "free" =>
        /\ owner[j] \in Callers
        /\ CreateJob(owner[j]) \notin wire
        /\ pc[owner[j]] # "idle" /\ cleanup[owner[j]] # "unsent"
    /\ \A i, j \in JobIds :
        jobState[i] # "free" /\ jobState[j] # "free" /\ owner[i] = owner[j] => i = j
    /\ \A c \in Callers :
        /\ id[c] # None => owner[id[c]] = c
        /\ pc[c] = "creating" /\ reply[c] # None /\ reply[c].ok /\ reply[c].job # None =>
                owner[reply[c].job] = c

Owned == \E owner \in [JobIds -> Callers \cup {None}] : MadeBy(owner)

-----------------------------------------------------------------------------
(* Type correctness. *)

LEMMA InitType == Init => TypeOK
  BY DEF Init, ServerInit, SendInit, TypeOK, ServerTypeOK, JobStates, Locations

LEMMA NextType == TypeOK /\ CallInv /\ [Next]_vars => TypeOK'
<1> SUFFICES ASSUME TypeOK, CallInv, [Next]_vars
             PROVE  TypeOK'
  OBVIOUS
<1> USE PrintStreamAssumption, JobServerAssumption
<1>1. ASSUME NEW c \in Callers, Begin(c)
      PROVE  TypeOK'
  BY <1>1, RequestTypes DEF Begin, Post, Goto, TypeOK, ServerTypeOK, Locations
<1>2. ASSUME NEW c \in Callers, BeginFails(c)
      PROVE  TypeOK'
  <2>1. [ok |-> FALSE, job |-> None] \in Replies
    BY DEF Replies
  <2> QED
    BY <1>2, <2>1 DEF BeginFails, Return, Goto, TypeOK, ServerTypeOK, sendVars, Locations
<1>3. ASSUME NEW c \in Callers, Proceed(c)
      PROVE  TypeOK'
  <2>1. \A ok \in BOOLEAN : [ok |-> ok, job |-> IF ok THEN id[c] ELSE None] \in Replies
    BY DEF Replies, TypeOK
  <2>2. reply[c] # None => reply[c].job \in JobIds \cup {None}
    BY DEF TypeOK, ServerTypeOK, Replies
  <2>3. 1 \in 1..MaxDocs
    OBVIOUS
  <2>4. CASE CreateFails(c)
    BY <2>1, <2>4 DEF CreateFails, Rest, Return, Goto, TypeOK, ServerTypeOK, Locations
  <2>5. CASE Created(c)
    BY <2>2, <2>3, <2>5, RequestTypes
       DEF Created, Succeeds, Post, Goto, TypeOK, ServerTypeOK, Locations
  <2>6. CASE BuildFails(c)
    BY <2>1, <2>2, <2>6
       DEF BuildFails, Succeeds, Rest, Return, Goto, TypeOK, ServerTypeOK, Locations
  <2>7. CASE Sent(c)
    BY <2>1, <2>7 DEF Sent, Rest, Return, Goto, TypeOK, ServerTypeOK, Locations
  <2>8. CASE SendFails(c)
    BY <2>8, RequestTypes
       DEF SendFails, CallInv, CallOK, Waits, Post, Goto, TypeOK, ServerTypeOK, Locations
  <2>9. CASE CancelEnds(c)
    BY <2>1, <2>9 DEF CancelEnds, Rest, Return, Goto, TypeOK, ServerTypeOK, Locations
  <2> QED
    BY <1>3, <2>4, <2>5, <2>6, <2>7, <2>8, <2>9 DEF Proceed
<1>4. ASSUME NEW c \in Callers, Drop(c)
      PROVE  TypeOK'
  BY <1>4 DEF Drop, Rest, Goto, TypeOK, ServerTypeOK, Locations
<1>5. CASE Printer /\ UNCHANGED callVars
  BY <1>5, PrinterType DEF callVars, TypeOK
<1>6. CASE UNCHANGED vars
  BY <1>6 DEF vars, serverVars, sendVars, callVars, TypeOK, ServerTypeOK
<1> QED
  BY <1>1, <1>2, <1>3, <1>4, <1>5, <1>6 DEF Next
-----------------------------------------------------------------------------
(* What a call was given and told. *)

LEMMA InitCall == Init => CallInv
  BY DEF Init, ServerInit, SendInit, CallInv, CallOK, Waits, Wired, Given, Answered, Returned

\* A step of one call leaves the others and the jobs alone.
OnlyOf(c) ==
    /\ UNCHANGED <<jobState, docs>>
    /\ \A d \in Callers \ {c} :
        /\ pc'[d] = pc[d] /\ id'[d] = id[d] /\ result'[d] = result[d]
        /\ cleanup'[d] = cleanup[d] /\ awaiting'[d] = awaiting[d] /\ reply'[d] = reply[d]

LEMMA OthersKept ==
    ASSUME NEW c \in Callers, OnlyOf(c), NEW d \in Callers \ {c}, CallOK(d)
    PROVE  CallOK(d)'
<1>1. Waits(d)'
  BY DEF OnlyOf, CallOK, Waits, CreateJob, SendDocument, CancelJob
<1>2. Given(d)'
  BY DEF OnlyOf, CallOK, Given, Doc
<1>3. Answered(d)'
  BY DEF OnlyOf, CallOK, Answered, Doc
<1>4. Returned(d)'
  BY DEF OnlyOf, CallOK, Returned, Doc
<1> QED
  BY <1>1, <1>2, <1>3, <1>4 DEF CallOK

LEMMA CallerStep ==
    ASSUME TypeOK, CallInv, NEW c \in Callers, Begin(c) \/ BeginFails(c) \/ Proceed(c) \/ Drop(c)
    PROVE  CallInv'
<1> USE JobServerAssumption DEF Doc, CreateJob, SendDocument, CancelJob
<1>1. /\ Waits(c) /\ Given(c) /\ Answered(c) /\ Returned(c) /\ Wired
      /\ id[c] \in JobIds \cup {None}
      /\ reply[c] # None => reply[c].job \in JobIds \cup {None}
  BY DEF CallInv, CallOK, TypeOK, ServerTypeOK, Replies
<1>2. \A r \in wire : r.from \in Callers /\ (r.op # "Create-Job" => r.job \in JobIds)
  BY RequestFields DEF TypeOK, ServerTypeOK
<1>0. \A j \in JobIds \cup {None}, ok \in BOOLEAN : [ok |-> ok, job |-> j] # None
  BY DEF Replies
<1>3. ASSUME OnlyOf(c), CallOK(c)', Wired'
      PROVE  CallInv'
  BY <1>3, OthersKept DEF CallInv
<1>4. CASE Begin(c)
  <2>1. OnlyOf(c)
    BY <1>4 DEF Begin, Post, Goto, OnlyOf, TypeOK, ServerTypeOK
  <2>2. /\ pc[c] = "idle" /\ id[c] = None
        /\ pc'[c] = "creating" /\ awaiting'[c] = CreateJob(c) /\ reply'[c] = None
        /\ id'[c] = None /\ result'[c] = None /\ cleanup'[c] # "unsent"
        /\ wire' = wire \cup {CreateJob(c)}
    BY <1>0, <1>1, <1>4 DEF Begin, Post, Goto, Waits, TypeOK, ServerTypeOK
  <2>3. Waits(c)'
    BY <1>1, <2>2 DEF Waits
  <2>4. Given(c)'
    BY <1>1, <2>1, <2>2 DEF OnlyOf, Given, Waits, Answered
  <2>5. Answered(c)'
    BY <2>2 DEF Answered
  <2>6. Returned(c)'
    BY <1>1, <2>1, <2>2 DEF OnlyOf, Answered, Returned
  <2>7. Wired'
    BY <1>1, <1>2, <2>1, <2>2 DEF OnlyOf, Wired
  <2> QED
    BY <1>3, <2>1, <2>3, <2>4, <2>5, <2>6, <2>7 DEF CallOK
<1>5. CASE BeginFails(c)
  <2>1. OnlyOf(c)
    BY <1>5 DEF BeginFails, Return, Goto, sendVars, OnlyOf, TypeOK, ServerTypeOK
  <2>2. /\ pc[c] = "idle" /\ id[c] = None
        /\ pc'[c] = "returned" /\ awaiting'[c] = None /\ reply'[c] = None
        /\ id'[c] = None /\ result'[c] # None /\ ~result'[c].ok
        /\ wire' = wire
    BY <1>0, <1>1, <1>5 DEF BeginFails, Return, Goto, sendVars, Waits, TypeOK, ServerTypeOK
  <2>3. Waits(c)'
    BY <1>1, <2>2 DEF Waits
  <2>4. Given(c)'
    BY <1>1, <2>1, <2>2 DEF OnlyOf, Given, Waits, Answered
  <2>5. Answered(c)'
    BY <2>2 DEF Answered
  <2>6. Returned(c)'
    BY <1>1, <2>1, <2>2 DEF OnlyOf, Answered, Returned
  <2>7. Wired'
    BY <1>1, <1>2, <2>1, <2>2 DEF OnlyOf, Wired
  <2> QED
    BY <1>3, <2>1, <2>3, <2>4, <2>5, <2>6, <2>7 DEF CallOK
<1>6. CASE CreateFails(c)
  <2>1. OnlyOf(c)
    BY <1>6 DEF CreateFails, Rest, Return, Goto, OnlyOf, TypeOK, ServerTypeOK
  <2>2. /\ pc[c] = "creating" /\ id[c] = None
        /\ pc'[c] = "returned" /\ awaiting'[c] = None /\ reply'[c] = None
        /\ id'[c] = None /\ result'[c] # None /\ ~result'[c].ok
        /\ cleanup'[c] # "unsent"
        /\ wire' = wire
    BY <1>0, <1>1, <1>6 DEF CreateFails, Rest, Return, Goto, Waits, TypeOK, ServerTypeOK
  <2>3. Waits(c)'
    BY <1>1, <2>2 DEF Waits
  <2>4. Given(c)'
    BY <1>1, <2>1, <2>2 DEF OnlyOf, Given, Waits, Answered
  <2>5. Answered(c)'
    BY <2>2 DEF Answered
  <2>6. Returned(c)'
    BY <1>1, <2>1, <2>2 DEF OnlyOf, Answered, Returned
  <2>7. Wired'
    BY <1>1, <1>2, <2>1, <2>2 DEF OnlyOf, Wired
  <2> QED
    BY <1>3, <2>1, <2>3, <2>4, <2>5, <2>6, <2>7 DEF CallOK
<1>7. CASE Created(c)
  <2>1. OnlyOf(c)
    BY <1>7 DEF Created, Succeeds, Post, Goto, OnlyOf, TypeOK, ServerTypeOK
  <2>2. /\ pc[c] = "creating" /\ reply[c] # None /\ reply[c].ok
        /\ pc'[c] = "sending" /\ id'[c] = reply[c].job /\ reply[c].job \in JobIds
        /\ awaiting'[c] = SendDocument(c, id'[c], 1, TRUE) /\ reply'[c] = None
        /\ id[c] = None /\ result'[c] = None /\ cleanup'[c] # "unsent"
        /\ wire' = wire \cup {SendDocument(c, id'[c], 1, TRUE)}
    BY <1>0, <1>1, <1>7 DEF Created, Succeeds, Post, Goto, Waits, TypeOK, ServerTypeOK
  <2>3. Waits(c)'
    BY <1>1, <2>2 DEF Waits
  <2>4. Given(c)'
    BY <1>1, <2>1, <2>2 DEF OnlyOf, Given, Waits, Answered
  <2>5. Answered(c)'
    BY <2>2 DEF Answered
  <2>6. Returned(c)'
    BY <1>1, <2>1, <2>2 DEF OnlyOf, Answered, Returned
  <2>7. Wired'
    BY <1>1, <1>2, <2>1, <2>2 DEF OnlyOf, Wired
  <2> QED
    BY <1>3, <2>1, <2>3, <2>4, <2>5, <2>6, <2>7 DEF CallOK
<1>8. CASE BuildFails(c)
  <2>1. OnlyOf(c)
    BY <1>8 DEF BuildFails, Succeeds, Rest, Return, Goto, OnlyOf, TypeOK, ServerTypeOK
  <2>2. /\ pc[c] = "creating" /\ reply[c] # None /\ reply[c].ok
        /\ pc'[c] = "returned" /\ awaiting'[c] = None /\ reply'[c] = None
        /\ id[c] = None /\ id'[c] = reply[c].job /\ reply[c].job \in JobIds
        /\ result'[c] # None /\ ~result'[c].ok /\ cleanup'[c] = "unbuilt"
        /\ wire' = wire
    BY <1>0, <1>1, <1>8 DEF BuildFails, Succeeds, Rest, Return, Goto, Waits, TypeOK, ServerTypeOK
  <2>3. Waits(c)'
    BY <1>1, <2>2 DEF Waits
  <2>4. Given(c)'
    BY <1>1, <2>1, <2>2 DEF OnlyOf, Given, Waits, Answered
  <2>5. Answered(c)'
    BY <2>2 DEF Answered
  <2>6. Returned(c)'
    BY <1>1, <2>1, <2>2 DEF OnlyOf, Answered, Returned
  <2>7. Wired'
    BY <1>1, <1>2, <2>1, <2>2 DEF OnlyOf, Wired
  <2> QED
    BY <1>3, <2>1, <2>3, <2>4, <2>5, <2>6, <2>7 DEF CallOK
<1>9. CASE Sent(c)
  <2>1. OnlyOf(c)
    BY <1>9 DEF Sent, Succeeds, Rest, Return, Goto, OnlyOf, TypeOK, ServerTypeOK
  <2>2. /\ pc[c] = "sending" /\ reply[c] # None /\ reply[c].ok
        /\ pc'[c] = "returned" /\ awaiting'[c] = None /\ reply'[c] = None
        /\ id'[c] = id[c] /\ id[c] # None /\ result'[c] # None /\ result'[c].ok /\ result'[c].job = id[c]
        /\ cleanup'[c] # "unsent"
        /\ wire' = wire
    BY <1>0, <1>1, <1>9 DEF Sent, Succeeds, Rest, Return, Goto, Waits, TypeOK, ServerTypeOK
  <2>3. Waits(c)'
    BY <1>1, <2>2 DEF Waits
  <2>4. Given(c)'
    BY <1>1, <2>1, <2>2 DEF OnlyOf, Given, Waits, Answered
  <2>5. Answered(c)'
    BY <2>2 DEF Answered
  <2>6. Returned(c)'
    BY <1>1, <2>1, <2>2 DEF OnlyOf, Answered, Returned
  <2>7. Wired'
    BY <1>1, <1>2, <2>1, <2>2 DEF OnlyOf, Wired
  <2> QED
    BY <1>3, <2>1, <2>3, <2>4, <2>5, <2>6, <2>7 DEF CallOK
<1>10. CASE SendFails(c)
  <2>1. OnlyOf(c)
    BY <1>10 DEF SendFails, Post, Goto, OnlyOf, TypeOK, ServerTypeOK
  <2>2. /\ pc[c] = "sending"
        /\ pc'[c] = "cancelling" /\ awaiting'[c] = CancelJob(c, id[c]) /\ reply'[c] = None
        /\ id'[c] = id[c] /\ id[c] # None /\ result'[c] = None /\ cleanup'[c] # "unsent"
        /\ wire' = wire \cup {CancelJob(c, id[c])}
    BY <1>0, <1>1, <1>10 DEF SendFails, Post, Goto, Waits, TypeOK, ServerTypeOK
  <2>3. Waits(c)'
    BY <1>1, <2>2 DEF Waits
  <2>4. Given(c)'
    BY <1>1, <2>1, <2>2 DEF OnlyOf, Given, Waits, Answered
  <2>5. Answered(c)'
    BY <2>2 DEF Answered
  <2>6. Returned(c)'
    BY <1>1, <2>1, <2>2 DEF OnlyOf, Answered, Returned
  <2>7. Wired'
    BY <1>1, <1>2, <2>1, <2>2 DEF OnlyOf, Wired
  <2> QED
    BY <1>3, <2>1, <2>3, <2>4, <2>5, <2>6, <2>7 DEF CallOK
<1>11. CASE CancelEnds(c)
  <2>1. OnlyOf(c)
    BY <1>11 DEF CancelEnds, Succeeds, Rest, Return, Goto, OnlyOf, TypeOK, ServerTypeOK
  <2>2. /\ pc[c] = "cancelling"
        /\ pc'[c] = "returned" /\ awaiting'[c] = None /\ reply'[c] = None
        /\ id'[c] = id[c] /\ id[c] # None /\ result'[c] # None /\ ~result'[c].ok
        /\ \/ cleanup'[c] = "done" /\ reply[c] # None /\ reply[c].ok
           \/ cleanup'[c] = "failed"
        /\ wire' = wire
    BY <1>0, <1>1, <1>11 DEF CancelEnds, Succeeds, Rest, Return, Goto, Waits, TypeOK, ServerTypeOK
  <2>3. Waits(c)'
    BY <1>1, <2>2 DEF Waits
  <2>4. Given(c)'
    BY <1>1, <2>1, <2>2 DEF OnlyOf, Given, Waits, Answered
  <2>5. Answered(c)'
    BY <2>2 DEF Answered
  <2>6. Returned(c)'
    BY <1>1, <2>1, <2>2 DEF OnlyOf, Answered, Returned
  <2>7. Wired'
    BY <1>1, <1>2, <2>1, <2>2 DEF OnlyOf, Wired
  <2> QED
    BY <1>3, <2>1, <2>3, <2>4, <2>5, <2>6, <2>7 DEF CallOK
<1>12. CASE Drop(c)
  <2>1. OnlyOf(c)
    BY <1>12 DEF Drop, Rest, Goto, OnlyOf, TypeOK, ServerTypeOK
  <2>2. /\ pc[c] # "idle" /\ cleanup[c] # "unsent"
        /\ pc'[c] = "dropped" /\ awaiting'[c] = None /\ reply'[c] = None
        /\ id'[c] = id[c] /\ result'[c] = None /\ cleanup'[c] # "unsent"
        /\ wire' = wire
    BY <1>0, <1>1, <1>12 DEF Drop, Rest, Goto, Waits, TypeOK, ServerTypeOK
  <2>3. Waits(c)'
    BY <1>1, <2>2 DEF Waits
  <2>4. Given(c)'
    BY <1>1, <2>1, <2>2 DEF OnlyOf, Given, Waits, Answered
  <2>5. Answered(c)'
    BY <2>2 DEF Answered
  <2>6. Returned(c)'
    BY <1>1, <2>1, <2>2 DEF OnlyOf, Answered, Returned
  <2>7. Wired'
    BY <1>1, <1>2, <2>1, <2>2 DEF OnlyOf, Wired
  <2> QED
    BY <1>3, <2>1, <2>3, <2>4, <2>5, <2>6, <2>7 DEF CallOK
<1> QED
  BY <1>4, <1>5, <1>6, <1>7, <1>8, <1>9, <1>10, <1>11, <1>12 DEF Proceed

LEMMA PrinterKeeps ==
    ASSUME TypeOK, CallInv, Printer, UNCHANGED callVars
    PROVE  CallInv'
<1> USE JobServerAssumption DEF Doc, CreateJob, SendDocument, CancelJob
<1>1. PrinterStep /\ MakesJobs
  BY PrinterSteps, PrinterMakes DEF TypeOK
<1>2. Wired'
  BY <1>1 DEF PrinterStep, callVars, CallInv, Wired
<1>3. ASSUME NEW c \in Callers
      PROVE  CallOK(c)'
  <2>1. /\ Waits(c) /\ Given(c) /\ Answered(c) /\ Returned(c) /\ id[c] \in JobIds \cup {None}
        /\ reply[c] # None => reply[c].job \in JobIds \cup {None}
    BY DEF CallInv, CallOK, TypeOK, ServerTypeOK, Replies
  <2>2. Waits(c)'
    <3>1. reply'[c] # reply[c] => awaiting[c] \in Requests
      BY <1>1 DEF PrinterStep, TypeOK, ServerTypeOK
    <3>2. awaiting[c] = None => reply'[c] = reply[c]
      BY <3>1
    <3> QED
      BY <1>1, <2>1, <3>2 DEF PrinterStep, callVars, Waits
  <2>3. ASSUME NEW j \in JobIds, Doc(c) \in docs'[j] \ docs[j]
        PROVE  id[c] = j
    <3>1. PICK r \in wire : r.op = "Send-Document" /\ r.job = j /\ r.doc = Doc(c)
      BY <1>1, <2>3 DEF PrinterStep
    <3>2. r.from = c
      BY <3>1 DEF CallInv, Wired, Doc
    <3> QED
      BY <3>1, <3>2 DEF CallInv, Wired
  <2>4. Given(c)'
    BY <1>1, <2>1, <2>3 DEF PrinterStep, callVars, Given
  <2>5. Answered(c)'
    <3>1. CASE reply'[c] = reply[c]
      BY <1>1, <2>1, <3>1 DEF PrinterStep, callVars, Waits, Given, Answered
    <3>2. CASE reply'[c] # reply[c] /\ pc[c] = "creating"
      BY <1>1, <2>1, <3>2 DEF MakesJobs, callVars, Waits, Answered, TypeOK, ServerTypeOK
    <3>3. CASE reply'[c] # reply[c] /\ pc[c] # "creating"
      BY <1>1, <2>1, <3>3 DEF PrinterStep, callVars, Waits, Answered
    <3> QED
      BY <3>1, <3>2, <3>3
  <2>6. Returned(c)'
    BY <1>1, <2>1 DEF PrinterStep, callVars, Given, Returned
  <2> QED
    BY <2>2, <2>4, <2>5, <2>6 DEF CallOK
<1> QED
  BY <1>2, <1>3 DEF CallInv

LEMMA NextCall == TypeOK /\ CallInv /\ [Next]_vars => CallInv'
<1>1. CallInv /\ UNCHANGED vars => CallInv'
  BY DEF vars, serverVars, sendVars, callVars,
         CallInv, CallOK, Waits, Wired, Given, Answered, Returned,
         Doc, CreateJob, SendDocument, CancelJob
<1> QED
  BY <1>1, CallerStep, PrinterKeeps DEF Next

\* Every variable keeps its type, and what a call was told stays true.
THEOREM Invariance == Spec => [](TypeOK /\ CallInv)
<1>1. Init => TypeOK /\ CallInv
  BY InitType, InitCall
<1>2. TypeOK /\ CallInv /\ [Next]_vars => (TypeOK /\ CallInv)'
  BY NextType, NextCall
<1> QED
  BY <1>1, <1>2, PTL DEF Spec
-----------------------------------------------------------------------------
(* Whose job each job is. *)

LEMMA InitOwned == Init => Owned
<1> SUFFICES ASSUME Init
             PROVE  MadeBy([j \in JobIds |-> None])
  BY DEF Owned
<1> QED
  BY DEF Init, ServerInit, SendInit, MadeBy

\* What a step of a call leaves of what MadeBy says: a Create-Job goes out, or
\* nothing is sent, only from where no request was sent before; and a call is
\* given the id it was told.
CallerMoves ==
    /\ jobState' = jobState
    /\ \A d \in Callers :
        /\ pc[d] # "idle" =>
            /\ pc'[d] # "idle"
            /\ CreateJob(d) \in wire' => CreateJob(d) \in wire
            /\ cleanup'[d] = "unsent" => cleanup[d] = "unsent"
        /\ id'[d] # id[d] =>
            pc[d] = "creating" /\ reply[d] # None /\ reply[d].ok /\ id'[d] = reply[d].job
        /\ pc'[d] = "creating" /\ reply'[d] # None => pc[d] = "creating" /\ reply'[d] = reply[d]

LEMMA CallerMoving ==
    ASSUME TypeOK, NEW c \in Callers, Begin(c) \/ BeginFails(c) \/ Proceed(c) \/ Drop(c)
    PROVE  CallerMoves
<1> USE DEF CallerMoves, TypeOK, ServerTypeOK, CreateJob, SendDocument, CancelJob,
            Goto, Post, Rest, Return, Succeeds
<1>1. CASE Begin(c)
  BY <1>1 DEF Begin
<1>2. CASE BeginFails(c)
  BY <1>2 DEF BeginFails, sendVars
<1>3. CASE CreateFails(c)
  BY <1>3 DEF CreateFails
<1>4. CASE Created(c)
  BY <1>4 DEF Created
<1>5. CASE BuildFails(c)
  BY <1>5 DEF BuildFails
<1>6. CASE Sent(c)
  BY <1>6 DEF Sent
<1>7. CASE SendFails(c)
  BY <1>7 DEF SendFails
<1>8. CASE CancelEnds(c)
  BY <1>8 DEF CancelEnds
<1>9. CASE Drop(c)
  BY <1>9 DEF Drop
<1> QED
  BY <1>1, <1>2, <1>3, <1>4, <1>5, <1>6, <1>7, <1>8, <1>9 DEF Proceed

LEMMA CallerOwned ==
    ASSUME TypeOK, Owned, CallerMoves
    PROVE  Owned'
<1> USE DEF CreateJob
<1>1. PICK owner \in [JobIds -> Callers \cup {None}] : MadeBy(owner)
  BY DEF Owned
<1>2. ASSUME NEW j \in JobIds, jobState'[j] # "free"
      PROVE  /\ owner[j] \in Callers
             /\ CreateJob(owner[j]) \notin wire'
             /\ pc'[owner[j]] # "idle" /\ cleanup'[owner[j]] # "unsent"
  BY <1>1, <1>2 DEF MadeBy, CallerMoves
<1>3. ASSUME NEW i \in JobIds, NEW j \in JobIds,
             jobState'[i] # "free", jobState'[j] # "free", owner[i] = owner[j]
      PROVE  i = j
  BY <1>1, <1>3 DEF MadeBy, CallerMoves
<1>4. ASSUME NEW c \in Callers
      PROVE  /\ id'[c] # None => owner[id'[c]] = c
             /\ pc'[c] = "creating" /\ reply'[c] # None /\ reply'[c].ok /\ reply'[c].job # None
                    => owner[reply'[c].job] = c
  <2>1. /\ id[c] # None => owner[id[c]] = c
        /\ pc[c] = "creating" /\ reply[c] # None /\ reply[c].ok /\ reply[c].job # None
                => owner[reply[c].job] = c
    BY <1>1 DEF MadeBy
  <2>2. /\ id'[c] # id[c] =>
            pc[c] = "creating" /\ reply[c] # None /\ reply[c].ok /\ id'[c] = reply[c].job
        /\ pc'[c] = "creating" /\ reply'[c] # None => pc[c] = "creating" /\ reply'[c] = reply[c]
    BY DEF CallerMoves
  <2> QED
    BY <2>1, <2>2
<1>5. MadeBy(owner)'
  BY <1>2, <1>3, <1>4 DEF MadeBy
<1> QED
  BY <1>5 DEF Owned

LEMMA PrinterOwned ==
    ASSUME TypeOK, CallInv, Owned, Printer, UNCHANGED callVars
    PROVE  Owned'
<1> USE JobServerAssumption DEF CreateJob
<1>1. PICK owner \in [JobIds -> Callers \cup {None}] : MadeBy(owner)
  BY DEF Owned
<1>2. PrinterStep /\ MakesJobs
  BY PrinterSteps, PrinterMakes DEF TypeOK
<1>3. \A c \in Callers : pc[c] = "creating" => awaiting[c] = CreateJob(c)
  BY DEF CallInv, CallOK, Waits
<1>4. CASE /\ \A j \in JobIds : jobState[j] = "free" => jobState'[j] = "free"
           /\ \A c \in Callers :
                reply'[c] # reply[c] /\ awaiting[c] = CreateJob(c) => ~reply'[c].ok
  <2>1. ASSUME NEW j \in JobIds, jobState'[j] # "free"
        PROVE  /\ jobState[j] # "free" /\ owner[j] \in Callers /\ CreateJob(owner[j]) \notin wire'
               /\ pc[owner[j]] # "idle" /\ cleanup[owner[j]] # "unsent"
    BY <1>1, <1>2, <1>4, <2>1 DEF MadeBy, PrinterStep
  <2>2. ASSUME NEW j \in JobIds, NEW k \in JobIds,
               jobState'[j] # "free", jobState'[k] # "free", owner[j] = owner[k]
        PROVE  j = k
    BY <1>1, <2>1, <2>2 DEF MadeBy
  <2>3. ASSUME NEW c \in Callers
        PROVE  /\ id[c] # None => owner[id[c]] = c
               /\ pc[c] = "creating" /\ reply'[c] # None /\ reply'[c].ok /\ reply'[c].job # None
                    => owner[reply'[c].job] = c
    BY <1>1, <1>3, <1>4 DEF MadeBy
  <2>4. MadeBy(owner)'
    BY <2>1, <2>2, <2>3 DEF MadeBy, callVars
  <2> QED
    BY <2>4 DEF Owned
<1>5. ASSUME NEW c \in Callers, NEW i \in JobIds,
             CreateJob(c) \in wire, wire' = wire \ {CreateJob(c)},
             jobState[i] = "free", jobState' = [jobState EXCEPT ![i] = "open"],
             \A d \in Callers : reply'[d] # reply[d] => d = c /\ reply'[d].job \in {i, None}
      PROVE  Owned'
  <2> DEFINE new == [owner EXCEPT ![i] = c]
  <2>1. /\ new \in [JobIds -> Callers \cup {None}]
        /\ new[i] = c /\ \A j \in JobIds \ {i} : new[j] = owner[j]
    OBVIOUS
  <2> HIDE DEF new
  <2>2. /\ jobState'[i] = "open"
        /\ \A j \in JobIds \ {i} : jobState'[j] = jobState[j]
        /\ pc[c] # "idle" /\ cleanup[c] # "unsent"
    BY <1>5 DEF TypeOK, ServerTypeOK, CallInv, Wired
  <2>3. \A j \in JobIds : jobState[j] # "free" => owner[j] # c
    BY <1>1, <1>5 DEF MadeBy
  <2>4. \A d \in Callers : id[d] # None => id[d] \in JobIds \ {i}
    BY <1>5 DEF CallInv, CallOK, Given, TypeOK
  <2>5. ASSUME NEW j \in JobIds, jobState'[j] # "free"
        PROVE  /\ new[j] \in Callers /\ CreateJob(new[j]) \notin wire'
               /\ pc[new[j]] # "idle" /\ cleanup[new[j]] # "unsent"
    BY <1>1, <1>5, <2>1, <2>2, <2>5 DEF MadeBy
  <2>6. ASSUME NEW j \in JobIds, NEW k \in JobIds,
               jobState'[j] # "free", jobState'[k] # "free", new[j] = new[k]
        PROVE  j = k
    BY <1>1, <2>1, <2>2, <2>3, <2>6 DEF MadeBy
  <2>7. ASSUME NEW d \in Callers
        PROVE  /\ id[d] # None => new[id[d]] = d
               /\ pc[d] = "creating" /\ reply'[d] # None /\ reply'[d].ok /\ reply'[d].job # None
                    => new[reply'[d].job] = d
    <3>1. id[d] # None => new[id[d]] = d
      BY <1>1, <2>1, <2>4 DEF MadeBy
    <3>2. ASSUME reply'[d] = reply[d], pc[d] = "creating", reply[d] # None, reply[d].ok,
                 reply[d].job # None
          PROVE  new[reply[d].job] = d
      <4>1. reply[d].job \in JobIds /\ jobState[reply[d].job] # "free"
        BY <3>2 DEF CallInv, CallOK, Answered, TypeOK, ServerTypeOK, Replies
      <4> QED
        BY <1>1, <1>5, <2>1, <3>2, <4>1 DEF MadeBy
    <3> QED
      BY <1>5, <2>1, <3>1, <3>2
  <2>8. MadeBy(new)'
    BY <2>5, <2>6, <2>7 DEF MadeBy, callVars
  <2> QED
    BY <2>1, <2>8 DEF Owned
<1> QED
  BY <1>2, <1>4, <1>5, Zenon DEF MakesJobs

LEMMA NextOwned == TypeOK /\ CallInv /\ Owned /\ [Next]_vars => Owned'
<1>1. Owned /\ UNCHANGED vars => Owned'
  BY DEF vars, serverVars, sendVars, callVars, Owned, MadeBy, CreateJob
<1> QED
  BY <1>1, CallerMoving, CallerOwned, PrinterOwned DEF Next

-----------------------------------------------------------------------------
(* The properties. *)

\* Every variable keeps its type.
THEOREM TypeCorrect == Spec => []TypeOK
  BY Invariance, PTL

\* print_stream_at returns Ok(job) only when the printer has the whole document
\* in that job.
THEOREM OkIsSubmitted == Spec => []OkMeansSubmitted
<1>1. TypeOK /\ CallInv => OkMeansSubmitted
  BY DEF CallInv, CallOK, Waits, Returned, OkMeansSubmitted
<1> QED
  BY <1>1, Invariance, PTL

\* A failed upload leaves no open job behind, unless Cancel-Job failed too.
THEOREM UploadTakesJobBack == Spec => []FailedUploadTakesJobBack
<1>1. TypeOK /\ CallInv => FailedUploadTakesJobBack
  BY DEF CallInv, CallOK, Waits, Returned, FailedUploadTakesJobBack
<1> QED
  BY <1>1, Invariance, PTL

\* A call puts its document in one job at most.
THEOREM DocumentOnce == Spec => []AtMostOnce
<1>1. TypeOK /\ CallInv => AtMostOnce
  BY DEF CallInv, CallOK, Given, AtMostOnce
<1> QED
  BY <1>1, Invariance, PTL

LEMMA OpenJobs == TypeOK /\ CallInv /\ Owned => OpenJobsExplained
<1> SUFFICES ASSUME TypeOK, CallInv, Owned
             PROVE  OpenJobsExplained
  OBVIOUS
<1> DEFINE Open == {j \in JobIds : jobState[j] = "open"}
           Told == {id[c] : c \in Callers}
           Untold == {c \in Callers : id[c] = None /\ pc[c] # "idle" /\ cleanup[c] # "unsent"}
<1>1. ASSUME NEW c \in Callers, id[c] \in Open
      PROVE  pc[c] \in {"sending", "cancelling", "dropped"} \/ cleanup[c] \in {"failed", "unbuilt"}
  <2>1. Waits(c) /\ Returned(c) /\ id[c] # None /\ jobState[id[c]] = "open" /\ pc[c] \in Locations
    BY <1>1, JobServerAssumption DEF CallInv, CallOK, TypeOK
  <2> QED
    BY <2>1 DEF Waits, Returned, Locations
<1>2. PICK owner \in [JobIds -> Callers \cup {None}] : MadeBy(owner)
  BY DEF Owned
<1>3. Cardinality(Open \ Told) <= Cardinality(Untold)
  <2> DEFINE f == [j \in Open \ Told |-> owner[j]]
  <2>1. ASSUME NEW j \in Open \ Told
        PROVE  owner[j] \in Untold
    <3>1. /\ jobState[j] # "free" /\ owner[j] \in Callers
          /\ pc[owner[j]] # "idle" /\ cleanup[owner[j]] # "unsent"
      BY <1>2 DEF MadeBy
    <3>2. ASSUME id[owner[j]] # None
          PROVE  FALSE
      <4>1. id[owner[j]] \in JobIds /\ jobState[id[owner[j]]] # "free"
        BY <3>1, <3>2 DEF TypeOK, CallInv, CallOK, Given
      <4>2. owner[id[owner[j]]] = owner[j]
        BY <1>2, <3>1, <3>2 DEF MadeBy
      <4>3. id[owner[j]] = j
        BY <1>2, <3>1, <4>1, <4>2 DEF MadeBy
      <4> QED
        BY <3>1, <4>3
    <3> QED
      BY <3>1, <3>2
  <2>2. f \in Injection(Open \ Told, Untold)
    BY <1>2, <2>1 DEF MadeBy, Injection, IsInjective
  <2>3. IsFiniteSet(Untold)
    BY PrintStreamAssumption, FS_Subset
  <2> QED
    BY <2>2, <2>3, FS_Injection DEF ExistsInjection
<1> QED
  BY <1>1, <1>3 DEF OpenJobsExplained

\* A job left open on the printer is explained by a call that is still at it,
\* dropped, could not clean up, or was never told its id.
THEOREM OpenAreExplained == Spec => []OpenJobsExplained
<1>1. Init => TypeOK /\ CallInv /\ Owned
  BY InitType, InitCall, InitOwned
<1>2. TypeOK /\ CallInv /\ Owned /\ [Next]_vars => (TypeOK /\ CallInv /\ Owned)'
  BY NextType, NextCall, NextOwned
<1> QED
  BY <1>1, <1>2, OpenJobs, PTL DEF Spec
=============================================================================
