----------------------------- MODULE SourcesProofs -----------------------------
(***************************************************************************)
(* The safety of uploads and of the lifecycle of a source, for any number  *)
(* of sources, runs of the worker, deliveries and faults.                  *)
(***************************************************************************)
EXTENDS Sources, TLAPS

\* The bytes are stored before the rows and deleted after them: what the phase of an
\* upload says of both.
UploadOK(s) ==
  /\ upload[s] = "none" => s \notin store /\ status[s] = "absent"
  /\ upload[s] = "stored" => s \in store /\ status[s] = "absent"
  /\ upload[s] = "catch" => s \in store /\ (s \notin interrupted => status[s] = "absent")
  /\ upload[s] = "done" /\ s \notin interrupted => (s \in store <=> status[s] # "absent")

\* The worker hears of a source from the row's outbox event.
SentExists == \A e \in Events : msg[e] # "none" => status[e.source] # "absent"

DeliveriesLeft ==
  \A e \in Events : /\ msg[e] = "none" => deliveries[e] = 0
                    /\ msg[e] = "queued" => deliveries[e] < MaxDeliver

\* A loop at work has an event of its kind, of a source that exists; what it committed
\* has its receipt.
JobOK(k) ==
  phase[k] # "idle" => /\ job[k] \in Events /\ job[k].kind = k
                       /\ status[job[k].source] # "absent"
                       /\ phase[k] = "committed" => job[k] \in receipts

\* The statuses a source can have after an event of a kind was applied to it.
After == [processing |-> {"processing", "extracted", "indexed", "failed"},
          extracted  |-> {"extracted", "indexed", "failed"},
          indexed    |-> {"indexed", "failed"},
          failed     |-> {"indexed", "failed"}]

\* A receipt says that the stage was reached, and only applied events are done with.
ReceiptsTell == /\ \A e \in receipts : status[e.source] \in After[e.kind]
                /\ \A e \in Events : msg[e] = "done" => e \in receipts

SourcesInv ==
  /\ TypeOK
  /\ \A s \in Sources : UploadOK(s)
  /\ SentExists /\ DeliveriesLeft
  /\ \A k \in Kinds : JobOK(k)
  /\ ReceiptsTell
  /\ StagesInOrder

-------------------------------------------------------------------------------
\* applyTransition: the status an event of kind k changes, and the one it leaves behind.
LEMMA TransitionChanges ==
  ASSUME NEW k \in Kinds, NEW c \in Status \ {"absent"}, Transition(k, c) = "changed"
  PROVE  /\ c \notin {"indexed", "failed"}
         /\ k = "processing" => c = "pending"
         /\ k = "extracted" => c = "processing"
         /\ k = "indexed" => c = "extracted"
BY DEF Transition, Rank, Kinds, Status

LEMMA TransitionIgnores ==
  ASSUME NEW k \in Kinds, NEW c \in Status \ {"absent"}, Transition(k, c) = "ignored"
  PROVE  c \in After[k]
BY DEF Transition, Rank, Kinds, Status, After

LEMMA TransitionAnswers ==
  ASSUME NEW k \in Kinds, NEW c \in Status
  PROVE  Transition(k, c) \in {"ignored", "retry", "changed"}
BY DEF Transition

-------------------------------------------------------------------------------
(* One lemma per part of Next. *)

\* The steps of an upload write only the upload's own source; the row they insert is new.
LEMMA UploadKeeps ==
  ASSUME SourcesInv, NEW s \in Sources, Upload(s)
  PROVE  SourcesInv'
<1> USE DEF SourcesInv
<1>1. /\ UNCHANGED <<extractedAt, indexedAt, receipts, queue, loops>>
      /\ status' \in [Sources -> Status]
      /\ \A x \in Sources : \/ status'[x] = status[x]
                            \/ status'[x] = "pending" /\ status[x] = "absent"
  BY DEF Upload, StoreSource, CommitUpload, CommitFails, CommitUnacknowledged, CleanUp,
         CleanUpFails, Inserted, rows, queue, loops, UploadOK, TypeOK, Status
<1>2. TypeOK'
  BY <1>1, SourcesAssumption
     DEF Upload, StoreSource, CommitUpload, CommitFails, CommitUnacknowledged, CleanUp,
         CleanUpFails, Fault, rows, queue, loops, TypeOK, UploadPhase
<1>3. ASSUME NEW x \in Sources PROVE UploadOK(x)'
  BY DEF Upload, StoreSource, CommitUpload, CommitFails, CommitUnacknowledged, CleanUp,
         CleanUpFails, Inserted, rows, UploadOK, TypeOK, UploadPhase, Status
<1>4. SentExists' /\ DeliveriesLeft'
  BY <1>1 DEF SentExists, DeliveriesLeft, queue, Events
<1>5. ASSUME NEW k \in Kinds PROVE JobOK(k)'
  BY <1>1 DEF JobOK, loops, Events
<1>6. ReceiptsTell'
  <2>1. ASSUME NEW e \in receipts PROVE e.source \in Sources /\ status[e.source] # "absent"
    BY DEF ReceiptsTell, TypeOK, Events, Kinds, After
  <2> QED BY <1>1, <2>1 DEF ReceiptsTell, queue
<1>7. StagesInOrder'
  BY <1>1 DEF StagesInOrder, TypeOK
<1> QED BY <1>2, <1>3, <1>4, <1>5, <1>6, <1>7

\* A worker's message, and its delivery to the loop of its kind.
LEMMA QueueKeeps ==
  ASSUME SourcesInv, NEW e \in Events, WorkerSends(e) \/ Deliver(e)
  PROVE  SourcesInv'
<1> USE DEF SourcesInv
<1>1. e.source \in Sources /\ e.kind \in Kinds
  BY DEF Events
<1>2. UNCHANGED <<upload, store, rows, faults, interrupted>>
  BY DEF WorkerSends, Deliver, ReceiveDuplicate, Receive
<1>3. TypeOK'
  <2>1. deliveries' \in [Events -> 0..MaxDeliver]
    BY SourcesAssumption
       DEF WorkerSends, Deliver, ReceiveDuplicate, Receive, TypeOK, DeliveriesLeft
  <2> QED BY <1>1, <1>2, <2>1
        DEF WorkerSends, Deliver, ReceiveDuplicate, Receive, TypeOK, MsgState, Phase, rows, loops
<1>4. SentExists' /\ DeliveriesLeft'
  BY <1>1, <1>2, SourcesAssumption
     DEF WorkerSends, Deliver, ReceiveDuplicate, Receive, TypeOK, SentExists, DeliveriesLeft, rows
<1>5. ASSUME NEW k \in Kinds PROVE JobOK(k)'
  BY <1>1, <1>2
     DEF WorkerSends, Deliver, ReceiveDuplicate, Receive, TypeOK, SentExists, JobOK, rows, loops
<1>6. ReceiptsTell'
  BY <1>2 DEF WorkerSends, Deliver, ReceiveDuplicate, Receive, TypeOK, ReceiptsTell, rows
<1>7. StagesInOrder' /\ \A s \in Sources : UploadOK(s)'
  BY <1>2 DEF StagesInOrder, UploadOK, rows
<1> QED BY <1>3, <1>4, <1>5, <1>6, <1>7

\* The transaction of a handler: the next stage, or nothing but the receipt.
LEMMA ApplyKeeps ==
  ASSUME SourcesInv, NEW k \in Kinds, Apply(k)
  PROVE  SourcesInv'
<1> USE DEF SourcesInv
<1> DEFINE e == job[k]
           s == job[k].source
<1>1. /\ e \in Events /\ e.kind = k /\ s \in Sources /\ status[s] \in Status \ {"absent"}
      /\ phase[k] = "verified"
  BY DEF Apply, JobOK, TypeOK, Events, Phase
<1>2. /\ UNCHANGED <<upload, store, queue, job, faults, interrupted>>
      /\ receipts' = receipts \cup {e} /\ phase' = [phase EXCEPT ![k] = "committed"]
  BY DEF Apply
<1> HIDE DEF e, s
<1>3. CASE Transition(k, status[s]) = "changed"
  <2>1. /\ status' = [status EXCEPT ![s] = k]
        /\ extractedAt' = IF k = "extracted" THEN extractedAt \cup {s} ELSE extractedAt
        /\ indexedAt' = IF k = "indexed" THEN indexedAt \cup {s} ELSE indexedAt
    BY <1>3 DEF Apply, e, s
  <2>2. /\ status[s] \notin {"indexed", "failed"}
        /\ k = "processing" => status[s] = "pending"
        /\ k = "extracted" => status[s] = "processing"
        /\ k = "indexed" => status[s] = "extracted"
    BY <1>1, <1>3, TransitionChanges
  <2>3. TypeOK'
    BY <1>1, <1>2, <2>1 DEF TypeOK, Kinds, Status, Phase, queue
  <2>4. \A x \in Sources : UploadOK(x)'
    BY <1>1, <1>2, <2>1 DEF UploadOK, TypeOK, Kinds
  <2>5. SentExists' /\ DeliveriesLeft'
    BY <1>1, <1>2, <2>1 DEF SentExists, DeliveriesLeft, TypeOK, Kinds, queue, Events
  <2>6. ASSUME NEW i \in Kinds PROVE JobOK(i)'
    BY <1>1, <1>2, <2>1 DEF JobOK, TypeOK, Kinds, Events, e
  <2>7. ReceiptsTell'
    <3>1. ASSUME NEW x \in receipts PROVE status'[x.source] \in After[x.kind]
      BY <1>1, <2>1, <2>2 DEF ReceiptsTell, TypeOK, Events, Kinds, After
    <3>2. status'[e.source] \in After[e.kind]
      BY <1>1, <2>1 DEF TypeOK, Kinds, After, e, s
    <3> QED BY <1>2, <3>1, <3>2 DEF ReceiptsTell, queue
  <2>8. StagesInOrder'
    BY <1>1, <2>1, <2>2 DEF StagesInOrder, TypeOK, Kinds
  <2> QED BY <2>3, <2>4, <2>5, <2>6, <2>7, <2>8
<1>4. CASE Transition(k, status[s]) # "changed"
  <2>1. UNCHANGED <<status, extractedAt, indexedAt>>
    BY <1>4 DEF Apply, s
  <2>2. status[s] \in After[k]
    <3>1. Transition(k, status[s]) = "ignored"
      BY <1>1, <1>4, TransitionAnswers DEF Apply, s
    <3> QED BY <1>1, <3>1, TransitionIgnores
  <2>3. TypeOK'
    BY <1>1, <1>2, <2>1 DEF TypeOK, Phase, queue
  <2>4. (\A x \in Sources : UploadOK(x)') /\ SentExists' /\ DeliveriesLeft' /\ StagesInOrder'
    BY <1>2, <2>1 DEF UploadOK, SentExists, DeliveriesLeft, StagesInOrder, queue
  <2>5. ASSUME NEW i \in Kinds PROVE JobOK(i)'
    BY <1>1, <1>2, <2>1 DEF JobOK, TypeOK, e
  <2>6. ReceiptsTell'
    BY <1>1, <1>2, <2>1, <2>2 DEF ReceiptsTell, queue, e, s
  <2> QED BY <2>3, <2>4, <2>5, <2>6
<1> QED BY <1>3, <1>4

\* The end of a handling: acknowledged with its receipt, or given back.
LEMMA ReleaseKeeps ==
  ASSUME SourcesInv, NEW k \in Kinds, ApplyTooEarly(k) \/ Acknowledge(k) \/ HandlerFails(k)
  PROVE  SourcesInv'
<1> USE DEF SourcesInv
<1>1. job[k] \in Events /\ (phase[k] = "committed" => job[k] \in receipts)
  BY DEF ApplyTooEarly, Acknowledge, HandlerFails, JobOK
<1>2. /\ UNCHANGED <<upload, store, rows, deliveries, interrupted>>
      /\ faults' \in 0..MaxFaults
      /\ phase' = [phase EXCEPT ![k] = "idle"] /\ job' = [job EXCEPT ![k] = NoEvent]
  BY SourcesAssumption
     DEF ApplyTooEarly, Acknowledge, HandlerFails, Fault, GiveBack, Finish, TypeOK
<1>3. \E m \in {"done", "dead", "queued"} :
        /\ msg' = [msg EXCEPT ![job[k]] = m]
        /\ m = "done" => job[k] \in receipts
        /\ m = "queued" => deliveries[job[k]] < MaxDeliver
  <2>1. deliveries[job[k]] >= MaxDeliver \/ deliveries[job[k]] < MaxDeliver
    BY <1>1, SourcesAssumption DEF TypeOK
  <2> QED BY <1>1, <2>1 DEF ApplyTooEarly, Acknowledge, HandlerFails, GiveBack, Finish
<1>4. TypeOK'
  BY <1>1, <1>2, <1>3 DEF TypeOK, MsgState, Phase, rows
<1>5. SentExists'
  <2>1. status[job[k].source] # "absent"
    BY DEF ApplyTooEarly, Acknowledge, HandlerFails, JobOK
  <2> QED BY <1>1, <1>2, <1>3, <2>1 DEF SentExists, TypeOK, rows
<1>6. DeliveriesLeft'
  BY <1>1, <1>2, <1>3 DEF DeliveriesLeft, TypeOK
<1>7. ASSUME NEW i \in Kinds PROVE JobOK(i)'
  BY <1>2 DEF JobOK, TypeOK, rows
<1>8. ReceiptsTell' /\ StagesInOrder' /\ \A s \in Sources : UploadOK(s)'
  BY <1>1, <1>2, <1>3 DEF ReceiptsTell, StagesInOrder, UploadOK, TypeOK, rows
<1> QED BY <1>4, <1>5, <1>6, <1>7, <1>8

\* A crash ends every upload and every handling.
LEMMA CrashKeeps == ASSUME SourcesInv, ProcessCrash PROVE SourcesInv'
<1> USE DEF SourcesInv
<1>1. TypeOK'
  BY SourcesAssumption
     DEF ProcessCrash, Fault, TypeOK, UploadPhase, MsgState, Phase, rows
<1>2. ASSUME NEW s \in Sources PROVE UploadOK(s)'
  BY DEF ProcessCrash, UploadOK, TypeOK, UploadPhase, rows
<1>3. SentExists' /\ DeliveriesLeft' /\ ReceiptsTell' /\ StagesInOrder'
  <2>1. \A x \in Events : \/ msg'[x] = msg[x]
                          \/ msg[x] = "inflight" /\ msg'[x] = "dead"
                          \/ /\ msg[x] = "inflight" /\ msg'[x] = "queued"
                             /\ deliveries[x] < MaxDeliver
    BY SourcesAssumption DEF ProcessCrash, TypeOK
  <2> QED BY <2>1 DEF ProcessCrash, SentExists, DeliveriesLeft, ReceiptsTell, StagesInOrder, rows
<1>4. ASSUME NEW k \in Kinds PROVE JobOK(k)'
  BY DEF ProcessCrash, JobOK
<1> QED BY <1>1, <1>2, <1>3, <1>4

-------------------------------------------------------------------------------
\* The inductive invariant of uploads, messages, loops and source rows (upload, handle,
\* applyTransition).
THEOREM SourcesInvariance == Spec => []SourcesInv
<1>1. Init => SourcesInv
  BY SourcesAssumption
     DEF Init, SourcesInv, TypeOK, UploadOK, SentExists, DeliveriesLeft, JobOK, ReceiptsTell,
         StagesInOrder, UploadPhase, Status, MsgState, Phase
<1>2. SourcesInv /\ [Next]_vars => SourcesInv'
  <2> SUFFICES ASSUME SourcesInv, [Next]_vars PROVE SourcesInv'
    OBVIOUS
  <2>1. CASE UNCHANGED vars
    BY <2>1 DEF vars, rows, queue, loops, SourcesInv, TypeOK, UploadOK, SentExists,
                DeliveriesLeft, JobOK, ReceiptsTell, StagesInOrder
  <2> QED BY <2>1, UploadKeeps, QueueKeeps, ApplyKeeps, ReleaseKeeps, CrashKeeps
          DEF Next, Handle
<1> QED BY <1>1, <1>2, PTL DEF Spec

\* After an upload ended without an interruption there are bytes exactly if there is a row
\* (the catch block of upload()).
THEOREM BytesFollowRows == Spec => []StoreMatchesRows
<1>1. SourcesInv => StoreMatchesRows
  BY DEF SourcesInv, UploadOK, StoreMatchesRows
<1> QED BY <1>1, SourcesInvariance, PTL

\* No order of delivery lets a source skip a stage (applyTransition and its timestamps).
THEOREM NoStageSkipped == Spec => []StagesInOrder
<1>1. SourcesInv => StagesInOrder
  BY DEF SourcesInv
<1> QED BY <1>1, SourcesInvariance, PTL

\* An indexed or failed source keeps its status whatever is still delivered.
THEOREM OutcomeStays == Spec => OutcomeIsFinal
<1>1. SourcesInv /\ [Next]_vars =>
        [\A s \in Sources : status[s] \in {"indexed", "failed"} => status'[s] = status[s]]_vars
  <2> SUFFICES ASSUME SourcesInv, Next, NEW s \in Sources, status[s] \in {"indexed", "failed"}
               PROVE  status'[s] = status[s]
    OBVIOUS
  <2>1. CASE \E x \in Sources : Upload(x)
    BY <2>1 DEF SourcesInv, Upload, StoreSource, CommitUpload, CommitFails,
                CommitUnacknowledged, CleanUp, CleanUpFails, Inserted, rows, UploadOK, TypeOK
  <2>2. CASE \E k \in Kinds : Apply(k)
    <3>1. PICK k \in Kinds : Apply(k)
      BY <2>2
    <3>2. job[k].source \in Sources /\ status[job[k].source] \in Status \ {"absent"}
      BY <3>1 DEF SourcesInv, Apply, JobOK, TypeOK, Events
    <3>3. CASE Transition(k, status[job[k].source]) = "changed"
      BY <3>1, <3>2, <3>3, TransitionChanges DEF Apply, SourcesInv, TypeOK
    <3>4. CASE Transition(k, status[job[k].source]) # "changed"
      BY <3>1, <3>4 DEF Apply
    <3> QED BY <3>3, <3>4
  <2>3. CASE \/ \E e \in Events : WorkerSends(e) \/ Deliver(e)
             \/ \E k \in Kinds : ApplyTooEarly(k) \/ Acknowledge(k) \/ HandlerFails(k)
             \/ ProcessCrash
    BY <2>3 DEF WorkerSends, Deliver, ReceiveDuplicate, Receive, ApplyTooEarly, Acknowledge,
                HandlerFails, ProcessCrash, rows
  <2> QED BY <2>1, <2>2, <2>3 DEF Next, Handle
<1> QED BY <1>1, SourcesInvariance, PTL DEF Spec, OutcomeIsFinal

\* A run that reported the end leaves no source behind once its messages are done with:
\* what is done has its receipt, and the receipt of the last stage tells the outcome.
THEOREM NothingLostSilently == Spec => []SettledWhenQuiet
<1>1. SourcesInv => SettledWhenQuiet
  <2> SUFFICES ASSUME SourcesInv, NEW s \in Sources, NEW r \in Runs, Sent(s, "indexed", r),
                      \A e \in {x \in Events : x.source = s /\ msg[x] # "none"} : msg[e] = "done"
               PROVE  status[s] \in {"indexed", "failed"}
    BY DEF SettledWhenQuiet
  <2> DEFINE e == [source |-> s, kind |-> "indexed", run |-> r]
  <2>1. e \in Events /\ msg[e] = "done"
    BY DEF Sent, Events, Kinds
  <2> QED BY <2>1 DEF SourcesInv, ReceiptsTell, After
<1> QED BY <1>1, SourcesInvariance, PTL
===============================================================================
