---------------------------- MODULE JobHandleProofs ----------------------------
(***************************************************************************)
(* Proofs about JobHandle, for any number of callers, jobs and documents,  *)
(* and requests lost, late or refused.                                     *)
(*                                                                         *)
(* The argument: a handle waits for one request at a time, about the job   *)
(* it was given, and the printer neither opens a job again nor takes a     *)
(* document back; so what a reply confirmed stays true.                    *)
(***************************************************************************)
EXTENDS JobHandle, JobServerProofs

\* Where a caller is with its handle, it waits for the request it has sent
\* from there, about the job of the handle.
Waits(c) ==
    /\ pc[c] \in {"idle", "creating"} => id[c] = None
    /\ pc[c] \in {"held", "adding", "closing", "cancelling"} => id[c] # None
    /\ pc[c] = "creating" => awaiting[c] = CreateJob(c)
    /\ pc[c] = "adding" =>
        sent[c] \in 1..MaxDocs /\ awaiting[c] = SendDocument(c, id[c], sent[c], last[c])
    /\ pc[c] = "closing" => awaiting[c] = CloseJob(c, id[c])
    /\ pc[c] = "cancelling" => awaiting[c] = CancelJob(c, id[c])
    /\ pc[c] \in {"idle", "held", "over"} => awaiting[c] = None
    /\ awaiting[c] = None => reply[c] = None

\* What the printer has confirmed to the handle is so.
Confirmed(c) ==
    /\ id[c] # None => jobState[id[c]] # "free" /\ acked[c] \subseteq docs[id[c]]
    /\ id[c] = None => acked[c] = {}
    /\ closed[c] \/ ended[c] = "ok" => id[c] # None /\ jobState[id[c]] # "open"

\* What a reply under way says of the job is so.
Answered(c) ==
    reply[c] # None /\ reply[c].ok =>
        /\ pc[c] = "creating" /\ reply[c].job # None => jobState[reply[c].job] # "free"
        /\ pc[c] = "adding" =>
            awaiting[c].doc \in docs[id[c]] /\ (last[c] => jobState[id[c]] # "open")
        /\ pc[c] = "closing" => jobState[id[c]] # "open"

HandleOK(c) == Waits(c) /\ Confirmed(c) /\ Answered(c)

HandleInv == \A c \in Callers : HandleOK(c)

-----------------------------------------------------------------------------
LEMMA InitType == Init => TypeOK
  BY JobServerAssumption DEF Init, ServerInit, SendInit, TypeOK, ServerTypeOK, JobStates, Locations

LEMMA InitHandle == Init => HandleInv
  BY DEF Init, ServerInit, SendInit, HandleInv, HandleOK, Waits, Confirmed, Answered

\* A step of one caller leaves the others and the jobs alone.
OnlyOf(c) ==
    /\ UNCHANGED <<jobState, docs>>
    /\ \A d \in Callers \ {c} :
        /\ pc'[d] = pc[d] /\ id'[d] = id[d] /\ closed'[d] = closed[d] /\ sent'[d] = sent[d]
        /\ acked'[d] = acked[d] /\ last'[d] = last[d] /\ ended'[d] = ended[d]
        /\ awaiting'[d] = awaiting[d] /\ reply'[d] = reply[d]

LEMMA OthersKept ==
    ASSUME NEW c \in Callers, OnlyOf(c), NEW d \in Callers \ {c}, HandleOK(d)
    PROVE  HandleOK(d)'
<1>1. Waits(d)'
  BY DEF OnlyOf, HandleOK, Waits, CreateJob, SendDocument, CloseJob, CancelJob
<1>2. Confirmed(d)'
  BY DEF OnlyOf, HandleOK, Confirmed
<1>3. Answered(d)'
  BY DEF OnlyOf, HandleOK, Answered
<1> QED
  BY <1>1, <1>2, <1>3 DEF HandleOK

\* Every step of a caller keeps the types and what the handles know.
LEMMA CallerStep ==
    ASSUME TypeOK, HandleInv, NEW c \in Callers, Caller(c)
    PROVE  TypeOK' /\ HandleInv'
<1> USE JobServerAssumption DEF CreateJob, SendDocument, CloseJob, CancelJob
<1>1. /\ Waits(c) /\ Confirmed(c) /\ Answered(c)
      /\ id[c] \in JobIds \cup {None} /\ closed[c] \in BOOLEAN /\ last[c] \in BOOLEAN
      /\ sent[c] \in 0..MaxDocs /\ acked[c] \in SUBSET Documents
      /\ ended[c] \in {"none", "ok", "error"}
      /\ reply[c] # None => reply[c].job \in JobIds \cup {None} /\ reply[c].ok \in BOOLEAN
  BY DEF HandleInv, HandleOK, TypeOK, ServerTypeOK, Replies
<1>2. ASSUME OnlyOf(c), Waits(c)', Confirmed(c)', Answered(c)'
      PROVE  HandleInv'
  BY <1>2, OthersKept DEF HandleInv, HandleOK
<1>3. CASE Begin(c)
  <2>1. OnlyOf(c)
    BY <1>3 DEF Begin, Post, Goto, OnlyOf, TypeOK, ServerTypeOK
  <2>2. /\ pc[c] = "idle" /\ pc'[c] = "creating"
        /\ awaiting'[c] = CreateJob(c) /\ reply'[c] = None
        /\ id'[c] = id[c] /\ closed'[c] = closed[c] /\ acked'[c] = acked[c] /\ ended'[c] = ended[c]
    BY <1>1, <1>3 DEF Begin, Post, Goto, Waits, TypeOK, ServerTypeOK
  <2>3. TypeOK'
    BY <1>1, <1>3, <2>2, RequestTypes DEF Begin, Post, Goto, Waits, TypeOK, ServerTypeOK, Locations
  <2>4. Waits(c)'
    BY <1>1, <2>2 DEF Waits
  <2>5. Confirmed(c)'
    BY <1>1, <2>1, <2>2 DEF OnlyOf, Waits, Answered, Confirmed
  <2>6. Answered(c)'
    BY <2>2 DEF Answered
  <2> QED
    BY <1>2, <2>1, <2>3, <2>4, <2>5, <2>6
<1>4. CASE Created(c)
  <2>1. OnlyOf(c)
    BY <1>4 DEF Created, Succeeds, Rest, Goto, OnlyOf, TypeOK, ServerTypeOK
  <2>2. /\ pc[c] = "creating" /\ reply[c] # None /\ reply[c].ok
        /\ pc'[c] = "held" /\ awaiting'[c] = None /\ reply'[c] = None
        /\ id'[c] = reply[c].job /\ reply[c].job \in JobIds
        /\ closed'[c] = closed[c] /\ acked'[c] = acked[c] /\ ended'[c] = ended[c]
    BY <1>1, <1>4 DEF Created, Succeeds, Rest, Goto, Waits, TypeOK, ServerTypeOK
  <2>3. TypeOK'
    BY <1>1, <1>4, <2>2 DEF Created, Succeeds, Rest, Goto, Waits, TypeOK, ServerTypeOK, Locations
  <2>4. Waits(c)'
    BY <1>1, <2>2 DEF Waits
  <2>5. Confirmed(c)'
    BY <1>1, <2>1, <2>2 DEF OnlyOf, Waits, Answered, Confirmed
  <2>6. Answered(c)'
    BY <2>2 DEF Answered
  <2> QED
    BY <1>2, <2>1, <2>3, <2>4, <2>5, <2>6
<1>5. CASE CreateFails(c)
  <2>1. OnlyOf(c)
    BY <1>5 DEF CreateFails, Rest, Goto, OnlyOf, TypeOK, ServerTypeOK
  <2>2. /\ pc[c] = "creating" /\ pc'[c] = "over" /\ awaiting'[c] = None /\ reply'[c] = None
        /\ id'[c] = id[c] /\ closed'[c] = closed[c] /\ acked'[c] = acked[c] /\ ended'[c] = ended[c]
    BY <1>1, <1>5 DEF CreateFails, Rest, Goto, Waits, TypeOK, ServerTypeOK
  <2>3. TypeOK'
    BY <1>1, <1>5, <2>2 DEF CreateFails, Rest, Goto, Waits, TypeOK, ServerTypeOK, Locations
  <2>4. Waits(c)'
    BY <1>1, <2>2 DEF Waits
  <2>5. Confirmed(c)'
    BY <1>1, <2>1, <2>2 DEF OnlyOf, Waits, Answered, Confirmed
  <2>6. Answered(c)'
    BY <2>2 DEF Answered
  <2> QED
    BY <1>2, <2>1, <2>3, <2>4, <2>5, <2>6
<1>6. ASSUME NEW isLast \in BOOLEAN, AddDocument(c, isLast)
      PROVE  TypeOK' /\ HandleInv'
  <2>1. OnlyOf(c)
    BY <1>6 DEF AddDocument, Post, Goto, OnlyOf, TypeOK, ServerTypeOK
  <2>2. /\ pc[c] = "held" /\ pc'[c] = "adding" /\ reply'[c] = None
        /\ sent'[c] = sent[c] + 1 /\ sent'[c] \in 1..MaxDocs /\ last'[c] = isLast
        /\ awaiting'[c] = SendDocument(c, id[c], sent'[c], isLast)
        /\ id'[c] = id[c] /\ closed'[c] = closed[c] /\ acked'[c] = acked[c] /\ ended'[c] = ended[c]
    BY <1>1, <1>6 DEF AddDocument, Post, Goto, Waits, TypeOK, ServerTypeOK
  <2>3. TypeOK'
    <3>1. SendDocument(c, id[c], sent[c] + 1, isLast) \in Requests /\ sent[c] + 1 \in 0..MaxDocs
      <4>1. id[c] \in JobIds /\ sent[c] + 1 \in 1..MaxDocs
        BY <1>1, <2>2 DEF Waits
      <4> QED
        BY <4>1 DEF Requests
    <3>2. ServerTypeOK'
      BY <1>6, <3>1 DEF AddDocument, Post, TypeOK, ServerTypeOK
    <3>3. sent' \in [Callers -> 0..MaxDocs]
      BY <1>6, <3>1 DEF AddDocument, TypeOK
    <3> QED
      BY <1>6, <3>2, <3>3 DEF AddDocument, Goto, TypeOK, Locations
  <2>4. Waits(c)'
    BY <1>1, <2>2 DEF Waits
  <2>5. Confirmed(c)'
    BY <1>1, <2>1, <2>2 DEF OnlyOf, Waits, Answered, Confirmed
  <2>6. Answered(c)'
    BY <2>2 DEF Answered
  <2> QED
    BY <1>2, <2>1, <2>3, <2>4, <2>5, <2>6
<1>7. CASE Added(c)
  <2>1. OnlyOf(c)
    BY <1>7 DEF Added, Succeeds, Rest, Goto, OnlyOf, TypeOK, ServerTypeOK
  <2>2. /\ pc[c] = "adding" /\ pc'[c] = "held" /\ awaiting'[c] = None /\ reply'[c] = None
        /\ reply[c] # None /\ reply[c].ok
        /\ acked'[c] = acked[c] \cup {awaiting[c].doc}
        /\ closed'[c] = (closed[c] \/ last[c])
        /\ id'[c] = id[c] /\ ended'[c] = ended[c]
    BY <1>1, <1>7 DEF Added, Succeeds, Rest, Goto, Waits, TypeOK, ServerTypeOK
  <2>3. TypeOK'
    BY <1>1, <1>7, <2>2 DEF Added, Succeeds, Rest, Goto, Waits, TypeOK, ServerTypeOK, Locations, Documents
  <2>4. Waits(c)'
    BY <1>1, <2>2 DEF Waits
  <2>5. Confirmed(c)'
    BY <1>1, <2>1, <2>2 DEF OnlyOf, Waits, Answered, Confirmed
  <2>6. Answered(c)'
    BY <2>2 DEF Answered
  <2> QED
    BY <1>2, <2>1, <2>3, <2>4, <2>5, <2>6
<1>8. CASE AddFails(c)
  <2>1. OnlyOf(c)
    BY <1>8 DEF AddFails, Rest, Goto, OnlyOf, TypeOK, ServerTypeOK
  <2>2. /\ pc[c] = "adding" /\ pc'[c] = "held" /\ awaiting'[c] = None /\ reply'[c] = None
        /\ id'[c] = id[c] /\ closed'[c] = closed[c] /\ acked'[c] = acked[c] /\ ended'[c] = ended[c]
    BY <1>1, <1>8 DEF AddFails, Rest, Goto, Waits, TypeOK, ServerTypeOK
  <2>3. TypeOK'
    BY <1>1, <1>8, <2>2 DEF AddFails, Rest, Goto, Waits, TypeOK, ServerTypeOK, Locations
  <2>4. Waits(c)'
    BY <1>1, <2>2 DEF Waits
  <2>5. Confirmed(c)'
    BY <1>1, <2>1, <2>2 DEF OnlyOf, Waits, Answered, Confirmed
  <2>6. Answered(c)'
    BY <2>2 DEF Answered
  <2> QED
    BY <1>2, <2>1, <2>3, <2>4, <2>5, <2>6
<1>9. CASE CloseAtOnce(c)
  <2>1. OnlyOf(c)
    BY <1>9 DEF CloseAtOnce, EndClose, Goto, serverVars, sendVars, OnlyOf, TypeOK, ServerTypeOK
  <2>2. /\ pc[c] = "held" /\ closed[c] /\ pc'[c] = "over" /\ awaiting'[c] = None /\ reply'[c] = None
        /\ id'[c] = id[c] /\ closed'[c] = closed[c] /\ acked'[c] = acked[c]
    BY <1>1, <1>9 DEF CloseAtOnce, EndClose, Goto, serverVars, sendVars, Waits, TypeOK, ServerTypeOK
  <2>3. TypeOK'
    BY <1>1, <1>9, <2>2 DEF CloseAtOnce, EndClose, Goto, serverVars, sendVars, Waits, TypeOK, ServerTypeOK, Locations
  <2>4. Waits(c)'
    BY <1>1, <2>2 DEF Waits
  <2>5. Confirmed(c)'
    BY <1>1, <2>1, <2>2 DEF OnlyOf, Waits, Answered, Confirmed
  <2>6. Answered(c)'
    BY <2>2 DEF Answered
  <2> QED
    BY <1>2, <2>1, <2>3, <2>4, <2>5, <2>6
<1>10. CASE BeginClose(c)
  <2>1. OnlyOf(c)
    BY <1>10 DEF BeginClose, Post, Goto, OnlyOf, TypeOK, ServerTypeOK
  <2>2. /\ pc[c] = "held" /\ pc'[c] = "closing"
        /\ awaiting'[c] = CloseJob(c, id[c]) /\ reply'[c] = None
        /\ id'[c] = id[c] /\ closed'[c] = closed[c] /\ acked'[c] = acked[c] /\ ended'[c] = ended[c]
    BY <1>1, <1>10 DEF BeginClose, Post, Goto, Waits, TypeOK, ServerTypeOK
  <2>3. TypeOK'
    BY <1>1, <1>10, <2>2, RequestTypes DEF BeginClose, Post, Goto, Waits, TypeOK, ServerTypeOK, Locations
  <2>4. Waits(c)'
    BY <1>1, <2>2 DEF Waits
  <2>5. Confirmed(c)'
    BY <1>1, <2>1, <2>2 DEF OnlyOf, Waits, Answered, Confirmed
  <2>6. Answered(c)'
    BY <2>2 DEF Answered
  <2> QED
    BY <1>2, <2>1, <2>3, <2>4, <2>5, <2>6
<1>11. CASE CloseEnds(c)
  <2>1. OnlyOf(c)
    BY <1>11 DEF CloseEnds, EndClose, Succeeds, Rest, Goto, OnlyOf, TypeOK, ServerTypeOK
  <2>2. /\ pc[c] = "closing" /\ pc'[c] = "over" /\ awaiting'[c] = None /\ reply'[c] = None
        /\ id'[c] = id[c] /\ acked'[c] = acked[c]
        /\ \/ reply[c] # None /\ reply[c].ok
           \/ closed'[c] = closed[c] /\ ended'[c] = "error"
    BY <1>1, <1>11 DEF CloseEnds, EndClose, Succeeds, Rest, Goto, Waits, TypeOK, ServerTypeOK
  <2>3. TypeOK'
    <3>1. ServerTypeOK'
      BY <1>11 DEF CloseEnds, Rest, TypeOK, ServerTypeOK
    <3>2. pc' \in [Callers -> Locations]
      BY <1>11 DEF CloseEnds, EndClose, Goto, TypeOK, Locations
    <3>3. closed' \in [Callers -> BOOLEAN] /\ ended' \in [Callers -> {"none", "ok", "error"}]
      BY <1>11 DEF CloseEnds, EndClose, TypeOK
    <3> QED
      BY <1>11, <3>1, <3>2, <3>3 DEF CloseEnds, TypeOK
  <2>4. Waits(c)'
    BY <1>1, <2>2 DEF Waits
  <2>5. Confirmed(c)'
    BY <1>1, <2>1, <2>2 DEF OnlyOf, Waits, Answered, Confirmed
  <2>6. Answered(c)'
    BY <2>2 DEF Answered
  <2> QED
    BY <1>2, <2>1, <2>3, <2>4, <2>5, <2>6
<1>12. CASE BeginCancel(c)
  <2>1. OnlyOf(c)
    BY <1>12 DEF BeginCancel, Post, Goto, OnlyOf, TypeOK, ServerTypeOK
  <2>2. /\ pc[c] = "held" /\ pc'[c] = "cancelling"
        /\ awaiting'[c] = CancelJob(c, id[c]) /\ reply'[c] = None
        /\ id'[c] = id[c] /\ closed'[c] = closed[c] /\ acked'[c] = acked[c] /\ ended'[c] = ended[c]
    BY <1>1, <1>12 DEF BeginCancel, Post, Goto, Waits, TypeOK, ServerTypeOK
  <2>3. TypeOK'
    BY <1>1, <1>12, <2>2, RequestTypes DEF BeginCancel, Post, Goto, Waits, TypeOK, ServerTypeOK, Locations
  <2>4. Waits(c)'
    BY <1>1, <2>2 DEF Waits
  <2>5. Confirmed(c)'
    BY <1>1, <2>1, <2>2 DEF OnlyOf, Waits, Answered, Confirmed
  <2>6. Answered(c)'
    BY <2>2 DEF Answered
  <2> QED
    BY <1>2, <2>1, <2>3, <2>4, <2>5, <2>6
<1>13. CASE CancelEnds(c)
  <2>1. OnlyOf(c)
    BY <1>13 DEF CancelEnds, Rest, Goto, OnlyOf, TypeOK, ServerTypeOK
  <2>2. /\ pc'[c] = "over" /\ pc[c] = "cancelling" /\ awaiting'[c] = None /\ reply'[c] = None
        /\ id'[c] = id[c] /\ closed'[c] = closed[c] /\ acked'[c] = acked[c] /\ ended'[c] = ended[c]
    BY <1>1, <1>13 DEF CancelEnds, Rest, Goto, Waits, TypeOK, ServerTypeOK
  <2>3. TypeOK'
    BY <1>1, <1>13, <2>2 DEF CancelEnds, Rest, Goto, Waits, TypeOK, ServerTypeOK, Locations
  <2>4. Waits(c)'
    BY <1>1, <2>2 DEF Waits
  <2>5. Confirmed(c)'
    BY <1>1, <2>1, <2>2 DEF OnlyOf, Waits, Answered, Confirmed
  <2>6. Answered(c)'
    BY <2>2 DEF Answered
  <2> QED
    BY <1>2, <2>1, <2>3, <2>4, <2>5, <2>6
<1>14. CASE Drop(c)
  <2>1. OnlyOf(c)
    BY <1>14 DEF Drop, Rest, Goto, OnlyOf, TypeOK, ServerTypeOK
  <2>2. /\ pc[c] # "idle" /\ pc'[c] = "over" /\ awaiting'[c] = None /\ reply'[c] = None
        /\ id'[c] = id[c] /\ closed'[c] = closed[c] /\ acked'[c] = acked[c] /\ ended'[c] = ended[c]
    BY <1>1, <1>14 DEF Drop, Rest, Goto, Waits, TypeOK, ServerTypeOK
  <2>3. TypeOK'
    BY <1>1, <1>14, <2>2 DEF Drop, Rest, Goto, Waits, TypeOK, ServerTypeOK, Locations
  <2>4. Waits(c)'
    BY <1>1, <2>2 DEF Waits
  <2>5. Confirmed(c)'
    BY <1>1, <2>1, <2>2 DEF OnlyOf, Waits, Answered, Confirmed
  <2>6. Answered(c)'
    BY <2>2 DEF Answered
  <2> QED
    BY <1>2, <2>1, <2>3, <2>4, <2>5, <2>6
<1> QED
  BY <1>3, <1>4, <1>5, <1>6, <1>7, <1>8, <1>9, <1>10, <1>11, <1>12, <1>13, <1>14 DEF Caller

LEMMA PrinterKeeps ==
    ASSUME TypeOK, HandleInv, Printer, UNCHANGED handleVars
    PROVE  TypeOK' /\ HandleInv'
<1> USE JobServerAssumption DEF CreateJob, SendDocument, CloseJob, CancelJob
<1>1. PrinterStep /\ MakesJobs
  BY PrinterSteps, PrinterMakes DEF TypeOK
<1>2. TypeOK'
  BY PrinterType DEF TypeOK, handleVars
<1>3. ASSUME NEW c \in Callers
      PROVE  HandleOK(c)'
  <2>1. /\ Waits(c) /\ Confirmed(c) /\ Answered(c) /\ id[c] \in JobIds \cup {None}
        /\ reply[c] # None => reply[c].job \in JobIds \cup {None}
    BY DEF HandleInv, HandleOK, TypeOK, ServerTypeOK, Replies
  <2>2. Waits(c)'
    <3>1. reply'[c] # reply[c] => awaiting[c] \in Requests
      BY <1>1 DEF PrinterStep, TypeOK, ServerTypeOK
    <3>2. awaiting[c] = None => reply'[c] = reply[c]
      BY <3>1
    <3> QED
      BY <1>1, <2>1, <3>2 DEF PrinterStep, handleVars, Waits
  <2>3. Confirmed(c)'
    BY <1>1, <2>1 DEF PrinterStep, handleVars, Confirmed
  <2>4. Answered(c)'
    <3>1. CASE reply'[c] = reply[c]
      BY <1>1, <2>1, <3>1 DEF PrinterStep, handleVars, Waits, Confirmed, Answered
    <3>2. CASE reply'[c] # reply[c] /\ pc[c] = "creating"
      BY <1>1, <2>1, <3>2 DEF MakesJobs, handleVars, Waits, Answered, TypeOK, ServerTypeOK
    <3>3. CASE reply'[c] # reply[c] /\ pc[c] # "creating"
      BY <1>1, <2>1, <3>3 DEF PrinterStep, handleVars, Waits, Answered
    <3> QED
      BY <3>1, <3>2, <3>3
  <2> QED
    BY <2>2, <2>3, <2>4 DEF HandleOK
<1> QED
  BY <1>2, <1>3 DEF HandleInv

\* Every variable keeps its type, and what a handle was told stays true.
THEOREM Invariance == Spec => [](TypeOK /\ HandleInv)
<1>1. Init => TypeOK /\ HandleInv
  BY InitType, InitHandle
<1>2. TypeOK /\ HandleInv /\ [Next]_vars => (TypeOK /\ HandleInv)'
  <2>1. TypeOK /\ HandleInv /\ UNCHANGED vars => TypeOK' /\ HandleInv'
    BY DEF vars, serverVars, sendVars, handleVars, TypeOK, ServerTypeOK,
           HandleInv, HandleOK, Waits, Confirmed, Answered,
           CreateJob, SendDocument, CloseJob, CancelJob
  <2> QED
    BY <2>1, CallerStep, PrinterKeeps DEF Next
<1> QED
  BY <1>1, <1>2, PTL DEF Spec

\* Every variable keeps its type.
THEOREM TypeCorrect == Spec => []TypeOK
  BY Invariance, PTL

\* A handle that says it is closed, and a close that returned Ok, mean that the
\* printer no longer waits for documents.
THEOREM ClosedIsReleased == Spec => []ClosedMeansReleased
<1>1. TypeOK /\ HandleInv => ClosedMeansReleased
  BY DEF HandleInv, HandleOK, Confirmed, ClosedMeansReleased
<1> QED
  BY <1>1, Invariance, PTL

\* A document whose addition was confirmed is in the job and stays there.
THEOREM ConfirmedStays == Spec => []ConfirmedIsKept
<1>1. TypeOK /\ HandleInv => ConfirmedIsKept
  BY DEF HandleInv, HandleOK, Confirmed, ConfirmedIsKept
<1> QED
  BY <1>1, Invariance, PTL
=============================================================================
