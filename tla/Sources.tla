------------------------------- MODULE Sources -------------------------------
(***************************************************************************)
(* Uploaded sources: SourcesService.upload stores the bytes, then commits  *)
(* the source, its version and the outbox row, and deletes the bytes again *)
(* if that failed (src/modules/sources/sources.service.ts).  The document  *)
(* worker then reports the stages of its work, and SourceLifecycleService  *)
(* applies them (source-lifecycle.service.ts).                             *)
(*                                                                         *)
(* The worker publishes the stages of a run in order, but each stage has a *)
(* subject and a durable consumer of its own, so they are handled in any   *)
(* order.  A handler looks the event's receipt up, applies the event in a  *)
(* transaction that locks the source and inserts the receipt, and returns; *)
(* only then is the message acknowledged.  source.status and               *)
(* source_version.processing_status are written together and are one       *)
(* variable.  A source has one version (no code creates a second).         *)
(***************************************************************************)
EXTENDS Integers, FiniteSets

CONSTANTS Sources,     \* ids of uploads
          Runs,        \* runs of the worker: it may process a source again
          MaxDeliver,  \* max_deliver: 3
          MaxFaults,   \* bound: other failed calls and crashes
          NoEvent

Kinds  == {"processing", "extracted", "indexed", "failed"}
Events == [source : Sources, kind : Kinds, run : Runs]

ASSUME SourcesAssumption ==
  MaxDeliver \in Nat \ {0} /\ MaxFaults \in Nat /\ NoEvent \notin Events

VARIABLES
  upload,       \* [Sources -> UploadPhase] the request that uploads the source
  store,        \* sources with bytes in the bucket workspace-sources (external)
  status,       \* [Sources -> Status] source_version.processing_status
  extractedAt, indexedAt,    \* sources with this timestamp
  receipts,     \* rows of source_lifecycle_event
  msg, deliveries,           \* [Events -> ...] the worker's messages (external)
  phase, job,   \* [Kinds -> ...] the consumers' loops
  faults,
  interrupted   \* history: uploads whose commit was not acknowledged, whose cleanup
                \* failed, or that died with the process

rows  == <<status, extractedAt, indexedAt, receipts>>
queue == <<msg, deliveries>>
loops == <<phase, job>>
vars  == <<upload, store, rows, queue, loops, faults, interrupted>>

UploadPhase == {"none", "stored", "catch", "done"}
Status      == {"absent", "pending", "processing", "extracted", "indexed", "failed"}
MsgState    == {"none", "queued", "inflight", "done", "dead"}
Phase       == {"idle", "verified", "committed"}

\* The ranges of the source rows and the loops: no event is delivered more than
\* max_deliver times.
TypeOK ==
  /\ upload \in [Sources -> UploadPhase]
  /\ store \subseteq Sources
  /\ status \in [Sources -> Status]
  /\ extractedAt \subseteq Sources /\ indexedAt \subseteq Sources
  /\ receipts \subseteq Events
  /\ msg \in [Events -> MsgState]
  /\ deliveries \in [Events -> 0..MaxDeliver]
  /\ phase \in [Kinds -> Phase]
  /\ job \in [Kinds -> Events \cup {NoEvent}]
  /\ faults \in 0..MaxFaults
  /\ interrupted \subseteq Sources

Init ==
  /\ upload = [s \in Sources |-> "none"]
  /\ store = {}
  /\ status = [s \in Sources |-> "absent"]
  /\ extractedAt = {} /\ indexedAt = {} /\ receipts = {}
  /\ msg = [e \in Events |-> "none"]
  /\ deliveries = [e \in Events |-> 0]
  /\ phase = [k \in Kinds |-> "idle"]
  /\ job = [k \in Kinds |-> NoEvent]
  /\ faults = 0
  /\ interrupted = {}

Fault == faults < MaxFaults /\ faults' = faults + 1

-------------------------------------------------------------------------------
(* SourcesService.upload *)

\* The checks passed and storeSource wrote the bytes.
StoreSource(s) ==
  /\ upload[s] = "none"
  /\ upload' = [upload EXCEPT ![s] = "stored"]
  /\ store' = store \cup {s}
  /\ UNCHANGED <<rows, queue, loops, faults, interrupted>>

Inserted(s) ==
  /\ status' = [status EXCEPT ![s] = "pending"]
  /\ UNCHANGED <<extractedAt, indexedAt, receipts>>

\* The catch block turned into a finally block.
CommitUploadThenCleanUp(s) ==
  /\ upload[s] = "stored"
  /\ Inserted(s)
  /\ upload' = [upload EXCEPT ![s] = "catch"]
  /\ UNCHANGED <<store, queue, loops, faults, interrupted>>

\* The transaction inserts source, version and outbox row; the caller is answered.
CommitUpload(s) ==
  /\ upload[s] = "stored"
  /\ Inserted(s)
  /\ upload' = [upload EXCEPT ![s] = "done"]
  /\ UNCHANGED <<store, queue, loops, faults, interrupted>>

\* The transaction throws and is rolled back.  An upload fails once, so this needs
\* no bound.
CommitFails(s) ==
  /\ upload[s] = "stored"
  /\ upload' = [upload EXCEPT ![s] = "catch"]
  /\ UNCHANGED <<store, rows, queue, loops, faults, interrupted>>

\* The transaction commits and the connection breaks before the answer.
CommitUnacknowledged(s) ==
  /\ Fault
  /\ upload[s] = "stored"
  /\ Inserted(s)
  /\ upload' = [upload EXCEPT ![s] = "catch"]
  /\ interrupted' = interrupted \cup {s}
  /\ UNCHANGED <<store, queue, loops>>

\* The catch block deletes the bytes.
CleanUp(s) ==
  /\ upload[s] = "catch"
  /\ upload' = [upload EXCEPT ![s] = "done"]
  /\ store' = store \ {s}
  /\ UNCHANGED <<rows, queue, loops, faults, interrupted>>

\* Deleting fails too: a warning is logged and the first error thrown.
CleanUpFails(s) ==
  /\ Fault
  /\ upload[s] = "catch"
  /\ upload' = [upload EXCEPT ![s] = "done"]
  /\ interrupted' = interrupted \cup {s}
  /\ UNCHANGED <<store, rows, queue, loops>>

-------------------------------------------------------------------------------
(* The document worker (external) *)

Before == [processing |-> "none", extracted |-> "processing", indexed |-> "extracted"]
Sent(s, k, r) == msg[[source |-> s, kind |-> k, run |-> r]] # "none"

\* A run reports its stages in order; it may fail or stop before it is through.
\* Runs overlap when a worker that was given up is still alive.
WorkerSends(e) ==
  /\ status[e.source] # "absent"
  /\ msg[e] = "none"
  /\ ~Sent(e.source, "failed", e.run)
  /\ IF e.kind = "failed" THEN ~Sent(e.source, "indexed", e.run)
     ELSE Before[e.kind] # "none" => Sent(e.source, Before[e.kind], e.run)
  /\ msg' = [msg EXCEPT ![e] = "queued"]
  /\ UNCHANGED <<upload, store, rows, deliveries, loops, faults, interrupted>>

-------------------------------------------------------------------------------
(* SourceLifecycleService.handle *)

\* handle() returns, the message is acknowledged.
Finish(k, e) ==
  /\ msg' = [msg EXCEPT ![e] = "done"]
  /\ phase' = [phase EXCEPT ![k] = "idle"]
  /\ job' = [job EXCEPT ![k] = NoEvent]

\* handle() throws: nak, or term after the last delivery.
GiveBack(k, e) ==
  /\ msg' = [msg EXCEPT ![e] = IF deliveries[e] >= MaxDeliver THEN "dead" ELSE "queued"]
  /\ phase' = [phase EXCEPT ![k] = "idle"]
  /\ job' = [job EXCEPT ![k] = NoEvent]

\* A delivery of an event with a receipt: acknowledged without effect.
ReceiveDuplicate(e) ==
  /\ msg[e] = "queued" /\ phase[e.kind] = "idle"
  /\ e \in receipts
  /\ msg' = [msg EXCEPT ![e] = "done"]
  /\ deliveries' = [deliveries EXCEPT ![e] = @ + 1]
  /\ UNCHANGED <<upload, store, rows, loops, faults, interrupted>>

\* The token is verified (it is not consumed) and the transaction begins.
Receive(e) ==
  /\ msg[e] = "queued" /\ phase[e.kind] = "idle"
  /\ e \notin receipts
  /\ msg' = [msg EXCEPT ![e] = "inflight"]
  /\ deliveries' = [deliveries EXCEPT ![e] = @ + 1]
  /\ phase' = [phase EXCEPT ![e.kind] = "verified"]
  /\ job' = [job EXCEPT ![e.kind] = e]
  /\ UNCHANGED <<upload, store, rows, faults, interrupted>>

Rank == [pending |-> 0, processing |-> 1, extracted |-> 2, indexed |-> 3]

\* Stages may be skipped.
TransitionSkipping(kind, current) ==
  IF current = kind \/ current = "failed" THEN "ignored"
  ELSE IF kind = "failed" THEN (IF current = "indexed" THEN "ignored" ELSE "changed")
  ELSE IF Rank[kind] < Rank[current] THEN "ignored" ELSE "changed"

\* A failure is taken whatever happened before.
TransitionFailing(kind, current) ==
  IF current = kind THEN "ignored"
  ELSE IF kind = "failed" THEN "changed"
  ELSE IF current = "failed" THEN "ignored"
  ELSE IF Rank[kind] < Rank[current] THEN "ignored"
  ELSE IF Rank[kind] > Rank[current] + 1 THEN "retry" ELSE "changed"

\* A premature stage is dropped.
TransitionDropping(kind, current) ==
  IF current = kind \/ current = "failed" THEN "ignored"
  ELSE IF kind = "failed" THEN (IF current = "indexed" THEN "ignored" ELSE "changed")
  ELSE IF Rank[kind] # Rank[current] + 1 THEN "ignored" ELSE "changed"

\* applyTransition.
Transition(kind, current) ==
  IF current = kind \/ current = "failed" THEN "ignored"
  ELSE IF kind = "failed" THEN (IF current = "indexed" THEN "ignored" ELSE "changed")
  ELSE IF Rank[kind] < Rank[current] THEN "ignored"
  ELSE IF Rank[kind] > Rank[current] + 1 THEN "retry" ELSE "changed"

\* The transaction: the receipt, and with a change the version and the source.
Apply(k) ==
  LET e == job[k]
      s == job[k].source
      changed == Transition(k, status[s]) = "changed"
  IN /\ phase[k] = "verified"
     /\ Transition(k, status[s]) # "retry"
     /\ receipts' = receipts \cup {e}
     /\ status' = IF changed THEN [status EXCEPT ![s] = k] ELSE status
     /\ extractedAt' = IF changed /\ k = "extracted" THEN extractedAt \cup {s} ELSE extractedAt
     /\ indexedAt' = IF changed /\ k = "indexed" THEN indexedAt \cup {s} ELSE indexedAt
     /\ phase' = [phase EXCEPT ![k] = "committed"]
     /\ UNCHANGED <<upload, store, queue, job, faults, interrupted>>

\* "Source lifecycle event arrived before its prerequisite".
ApplyTooEarly(k) ==
  /\ phase[k] = "verified"
  /\ Transition(k, status[job[k].source]) = "retry"
  /\ GiveBack(k, job[k])
  /\ UNCHANGED <<upload, store, rows, deliveries, faults, interrupted>>

\* The broadcasts, and the acknowledgement.
Acknowledge(k) ==
  /\ phase[k] = "committed"
  /\ Finish(k, job[k])
  /\ UNCHANGED <<upload, store, rows, deliveries, faults, interrupted>>

\* A call of the handler throws, or its answer or acknowledgement is lost.
HandlerFails(k) ==
  /\ Fault
  /\ phase[k] # "idle"
  /\ GiveBack(k, job[k])
  /\ UNCHANGED <<upload, store, rows, deliveries, interrupted>>

\* The process dies with its uploads and its loops.
ProcessCrash ==
  LET open == {s \in Sources : upload[s] \in {"stored", "catch"}}
  IN /\ Fault
     /\ upload' = [s \in Sources |-> IF s \in open THEN "done" ELSE upload[s]]
     /\ interrupted' = interrupted \cup open
     /\ phase' = [k \in Kinds |-> "idle"]
     /\ job' = [k \in Kinds |-> NoEvent]
     /\ msg' = [e \in Events |-> IF msg[e] # "inflight" THEN msg[e]
                                 ELSE IF deliveries[e] >= MaxDeliver THEN "dead" ELSE "queued"]
     /\ UNCHANGED <<store, rows, deliveries>>

-------------------------------------------------------------------------------
Upload(s)  == StoreSource(s) \/ CommitUpload(s) \/ CommitFails(s) \/ CommitUnacknowledged(s)
                \/ CleanUp(s) \/ CleanUpFails(s)
Deliver(e) == ReceiveDuplicate(e) \/ Receive(e)
Handle(k)  == Apply(k) \/ ApplyTooEarly(k) \/ Acknowledge(k)

Next ==
  \/ \E s \in Sources : Upload(s)
  \/ \E e \in Events : WorkerSends(e) \/ Deliver(e)
  \/ \E k \in Kinds : Handle(k) \/ HandlerFails(k)
  \/ ProcessCrash

Spec == Init /\ [][Next]_vars

-------------------------------------------------------------------------------
(***************************************************************************)
(* Properties                                                              *)
(***************************************************************************)

\* When an upload has ended, the bytes are there exactly if the source is:
\* neither orphaned bytes nor a source without bytes, unless the commit's
\* acknowledgement or the cleanup was lost or the process died.
StoreMatchesRows ==
  \A s \in Sources : upload[s] = "done" /\ s \notin interrupted
                       => (s \in store <=> status[s] # "absent")

\* Stages are passed one by one, in whatever order events arrive and are
\* redelivered: an indexed source was extracted, and its timestamps tell so.
StagesInOrder ==
  \A s \in Sources :
    /\ status[s] \in {"extracted", "indexed"} => s \in extractedAt
    /\ s \in indexedAt <=> status[s] = "indexed"
    /\ status[s] \in {"absent", "pending", "processing"} => s \notin extractedAt

\* What a source ended with stays: a late failure does not undo an indexed
\* source, and a late stage of another run does not revive a failed one.
OutcomeIsFinal ==
  [][\A s \in Sources : status[s] \in {"indexed", "failed"} => status'[s] = status[s]]_vars

\* No stage is lost silently: once a run reported that a source is indexed and all
\* its messages are dealt with, the source is indexed or failed, or one of its
\* events was given up.
SettledWhenQuiet ==
  \A s \in Sources :
    LET about == {e \in Events : e.source = s /\ msg[e] # "none"}
    IN (\E r \in Runs : Sent(s, "indexed", r)) /\ (\A e \in about : msg[e] = "done")
         => status[s] \in {"indexed", "failed"}

\* src/modules/sources/source-lifecycle.service.spec.ts: "retries a forward event
\* until its prerequisite transitions persist".  Without a fault no event is given
\* up before the stage it waits for is reached.
RetriedUntilPrerequisite ==
  \A e \in Events : msg[e] = "dead" /\ faults = 0
                      => Transition(e.kind, status[e.source]) # "retry"
===============================================================================
