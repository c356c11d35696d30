-------------------------------- MODULE Outbox --------------------------------
(***************************************************************************)
(* The transactional outbox: rows written by OutboxService.create inside   *)
(* business transactions and relayed to JetStream by one                   *)
(* OutboxPublisherService per application process                          *)
(* (src/modules/outbox/outbox-publisher.service.ts).                       *)
(*                                                                         *)
(* Every await of publishBatch is a point where other processes act, so a  *)
(* publisher takes one step per awaited call: the claiming transaction,    *)
(* nats.publish, the update to "published", and the update in the catch    *)
(* block.  Time is abstracted to one bit per row, due[e], which says that  *)
(* available_at <= now(); it turns true at any moment (TimePasses), in     *)
(* particular while the publisher that set the lease still works on its    *)
(* batch.  A transaction or a single UPDATE is atomic, and one that throws *)
(* was not applied.                                                        *)
(***************************************************************************)
EXTENDS Integers, FiniteSets

CONSTANTS Publishers,    \* application processes, one timer each
          MaxEvents,     \* bound: number of rows ever created
          MaxAttempts,   \* the literal 8 of the claim query and of publishOne
          BatchSize,     \* LIMIT 20 of the claim query
          MaxCrashes,    \* bound: process crashes
          MaxReprocess,  \* bound: calls of reprocessFailed
          NoEvent

Events == 1..MaxEvents   \* named in the order of created_at

ASSUME OutboxAssumption ==
  /\ MaxEvents \in Nat /\ MaxAttempts \in Nat \ {0} /\ BatchSize \in Nat \ {0}
  /\ MaxCrashes \in Nat /\ MaxReprocess \in Nat
  /\ NoEvent \notin Events

VARIABLES
  status,        \* [Events -> Status]         column status
  attemptCount,  \* [Events -> Nat]            column attempt_count
  due,           \* [Events -> BOOLEAN]        available_at <= now()
  stream,        \* ids stored by JetStream (external)
  pc,            \* [Publishers -> Phase]      where publishBatch stands
  batch,         \* [Publishers -> SUBSET Events]  claimed, not yet dealt with
  seen,          \* [Publishers -> [Events -> Nat]] attemptCount when claimed (0: not held)
  current,       \* [Publishers -> Events or NoEvent] argument of publishOne
  crashes, reprocessed,  \* how much of the two bounds is used
  overran        \* history: events that fell due while a publisher held them

row  == <<status, attemptCount, due>>
proc == <<pc, batch, seen, current>>
vars == <<row, stream, proc, crashes, reprocessed, overran>>

Status == {"absent", "pending", "publishing", "published", "failed"}
Phase  == {"idle", "batch", "acked", "caught"}

\* The ranges of the rows and the publishers: an attempt_count never passes the
\* limit at which publishOne gives a row up.
TypeOK ==
  /\ status \in [Events -> Status]
  /\ attemptCount \in [Events -> 0..MaxAttempts]
  /\ due \in [Events -> BOOLEAN]
  /\ stream \subseteq Events
  /\ pc \in [Publishers -> Phase]
  /\ batch \in [Publishers -> SUBSET Events]
  /\ seen \in [Publishers -> [Events -> 0..MaxAttempts]]
  /\ current \in [Publishers -> Events \cup {NoEvent}]
  /\ crashes \in 0..MaxCrashes
  /\ reprocessed \in 0..MaxReprocess
  /\ overran \subseteq Events

Init ==
  /\ status = [e \in Events |-> "absent"]
  /\ attemptCount = [e \in Events |-> 0]
  /\ due = [e \in Events |-> FALSE]
  /\ stream = {}
  /\ pc = [p \in Publishers |-> "idle"]
  /\ batch = [p \in Publishers |-> {}]
  /\ seen = [p \in Publishers |-> [e \in Events |-> 0]]
  /\ current = [p \in Publishers |-> NoEvent]
  /\ crashes = 0
  /\ reprocessed = 0
  /\ overran = {}

Held == UNION {batch[p] : p \in Publishers}

-------------------------------------------------------------------------------
\* OutboxService.create, as part of a committed business transaction.
Create(e) ==
  /\ status[e] = "absent"
  /\ \A d \in Events : d < e => status[d] # "absent"
  /\ status' = [status EXCEPT ![e] = "pending"]
  /\ attemptCount' = [attemptCount EXCEPT ![e] = 0]
  /\ due' = [due EXCEPT ![e] = TRUE]
  /\ UNCHANGED <<stream, proc, crashes, reprocessed, overran>>

\* The clock passes available_at: a back-off ends or a lease expires.
TimePasses(e) ==
  /\ status[e] # "absent" /\ ~due[e]
  /\ due' = [due EXCEPT ![e] = TRUE]
  /\ overran' = IF e \in Held THEN overran \cup {e} ELSE overran
  /\ UNCHANGED <<status, attemptCount, stream, proc, crashes, reprocessed>>

-------------------------------------------------------------------------------
\* The claim query without its test of available_at: leases mean nothing.
ClaimableIgnoringLease ==
  {e \in Events : /\ status[e] \in {"pending", "failed", "publishing"}
                  /\ attemptCount[e] < MaxAttempts}

\* The claim query without its second disjunct: expired leases stay put.
ClaimableUnleasedOnly ==
  {e \in Events : /\ status[e] \in {"pending", "failed"}
                  /\ due[e]
                  /\ attemptCount[e] < MaxAttempts}

\* WHERE clause of the claim query.
Claimable ==
  {e \in Events : /\ \/ status[e] \in {"pending", "failed"} /\ due[e]
                     \/ status[e] = "publishing" /\ due[e]
                  /\ attemptCount[e] < MaxAttempts}

\* ORDER BY created_at LIMIT BatchSize.
Oldest(S) ==
  {e \in S : Cardinality({d \in S : d < e}) < BatchSize}

\* claim(): select, lease and read back the rows in one transaction.
Claim(p) ==
  LET ids == Oldest(Claimable)
  IN /\ pc[p] = "idle"
     /\ ids # {}
     /\ status' = [e \in Events |-> IF e \in ids THEN "publishing" ELSE status[e]]
     /\ due' = [e \in Events |-> IF e \in ids THEN FALSE ELSE due[e]]
     /\ pc' = [pc EXCEPT ![p] = "batch"]
     /\ batch' = [batch EXCEPT ![p] = ids]
     /\ seen' = [seen EXCEPT ![p] = [e \in Events |-> IF e \in ids THEN attemptCount[e] ELSE 0]]
     /\ UNCHANGED <<attemptCount, stream, current, crashes, reprocessed, overran>>

\* nats.publish resolves: JetStream stored the message (or recognised its id).
PublishAcked(p) ==
  /\ pc[p] = "batch"
  /\ \E e \in batch[p] :
       /\ current' = [current EXCEPT ![p] = e]
       /\ stream' = stream \cup {e}
  /\ pc' = [pc EXCEPT ![p] = "acked"]
  /\ UNCHANGED <<row, batch, seen, crashes, reprocessed, overran>>

\* nats.publish rejects: the message was lost, or stored and its ack lost.
PublishRejected(p) ==
  /\ pc[p] = "batch"
  /\ \E e \in batch[p], stored \in BOOLEAN :
       /\ current' = [current EXCEPT ![p] = e]
       /\ stream' = IF stored THEN stream \cup {e} ELSE stream
  /\ pc' = [pc EXCEPT ![p] = "caught"]
  /\ UNCHANGED <<row, batch, seen, crashes, reprocessed, overran>>

\* publishOne returns; the loop of publishBatch goes on or ends, and its
\* finally block clears the running flag.
EndPublishOne(p) ==
  LET rest == batch[p] \ {current[p]}
  IN /\ batch' = [batch EXCEPT ![p] = rest]
     /\ seen' = [seen EXCEPT ![p] = [e \in Events |-> IF e \in rest THEN @[e] ELSE 0]]
     /\ current' = [current EXCEPT ![p] = NoEvent]
     /\ pc' = [pc EXCEPT ![p] = IF rest = {} THEN "idle" ELSE "batch"]
     /\ UNCHANGED <<crashes, reprocessed, overran>>

\* The update to "published" made before the message is acknowledged.
MarkPublishedUnacked(p) ==
  /\ pc[p] \in {"acked", "caught"}
  /\ status' = [status EXCEPT ![current[p]] = "published"]
  /\ EndPublishOne(p)
  /\ UNCHANGED <<attemptCount, due, stream>>

MarkPublished(p) ==
  /\ pc[p] = "acked"
  /\ status' = [status EXCEPT ![current[p]] = "published"]
  /\ EndPublishOne(p)
  /\ UNCHANGED <<attemptCount, due, stream>>

\* The update to "published" throws, inside the same try block.
MarkPublishedThrows(p) ==
  /\ pc[p] = "acked"
  /\ pc' = [pc EXCEPT ![p] = "caught"]
  /\ UNCHANGED <<row, stream, batch, seen, current, crashes, reprocessed, overran>>

\* attempts > 8 instead of attempts >= 8.
RecordFailureOffByOne(p) ==
  LET e == current[p]
      attempts == seen[p][e] + 1
  IN /\ pc[p] = "caught"
     /\ status' = [status EXCEPT ![e] =
                     IF attempts > MaxAttempts THEN "failed" ELSE "pending"]
     /\ attemptCount' = [attemptCount EXCEPT ![e] = attempts]
     /\ due' = [due EXCEPT ![e] = FALSE]
     /\ EndPublishOne(p)
     /\ UNCHANGED stream

\* The catch block that forgets to count the attempt.
RecordFailureUncounted(p) ==
  LET e == current[p]
  IN /\ pc[p] = "caught"
     /\ status' = [status EXCEPT ![e] = "pending"]
     /\ due' = [due EXCEPT ![e] = FALSE]
     /\ EndPublishOne(p)
     /\ UNCHANGED <<attemptCount, stream>>

\* The catch block: one more attempt than the row had WHEN IT WAS CLAIMED, and
\* an unconditional update of the row, whoever holds it now.
RecordFailure(p) ==
  LET e == current[p]
      attempts == seen[p][e] + 1
  IN /\ pc[p] = "caught"
     /\ status' = [status EXCEPT ![e] =
                     IF attempts >= MaxAttempts THEN "failed" ELSE "pending"]
     /\ attemptCount' = [attemptCount EXCEPT ![e] = attempts]
     /\ due' = [due EXCEPT ![e] = FALSE]
     /\ EndPublishOne(p)
     /\ UNCHANGED stream

\* The process stops anywhere in a batch: a crash, a deployment, or the update
\* of the catch block throwing (an unhandled rejection of the timer's promise).
\* It restarts with no memory of its batch.
Crash(p) ==
  /\ pc[p] # "idle"
  /\ crashes < MaxCrashes
  /\ crashes' = crashes + 1
  /\ pc' = [pc EXCEPT ![p] = "idle"]
  /\ batch' = [batch EXCEPT ![p] = {}]
  /\ seen' = [seen EXCEPT ![p] = [e \in Events |-> 0]]
  /\ current' = [current EXCEPT ![p] = NoEvent]
  /\ UNCHANGED <<row, stream, reprocessed, overran>>

\* reprocessFailed(id): a conditional update, only of a failed row.
ReprocessFailed(e) ==
  /\ status[e] = "failed"
  /\ reprocessed < MaxReprocess
  /\ reprocessed' = reprocessed + 1
  /\ status' = [status EXCEPT ![e] = "pending"]
  /\ attemptCount' = [attemptCount EXCEPT ![e] = 0]
  /\ due' = [due EXCEPT ![e] = TRUE]
  /\ UNCHANGED <<stream, proc, crashes, overran>>

-------------------------------------------------------------------------------
Publish(p) == PublishAcked(p) \/ PublishRejected(p)
Settle(p)  == MarkPublished(p) \/ MarkPublishedThrows(p) \/ RecordFailure(p)

Next ==
  \/ \E e \in Events : Create(e) \/ TimePasses(e) \/ ReprocessFailed(e)
  \/ \E p \in Publishers : Claim(p) \/ Publish(p) \/ Settle(p) \/ Crash(p)

\* The timer keeps firing, an awaited call ends (the NATS and database clients
\* time out) and the clock advances.  No fairness for crashes, for operators
\* or for the services that create events.
Fairness ==
  /\ \A p \in Publishers : WF_vars(Claim(p)) /\ WF_vars(Publish(p)) /\ WF_vars(Settle(p))
  /\ \A e \in Events : WF_vars(TimePasses(e))

Spec     == Init /\ [][Next]_vars
FairSpec == Spec /\ Fairness

-------------------------------------------------------------------------------
(***************************************************************************)
(* Properties                                                              *)
(***************************************************************************)

\* docs/NATS_SUBJECTS.md: the outbox "records publication only after
\* acknowledgement".  A row that says published has its message in the stream,
\* whatever stale publisher, crash or lost acknowledgement came before.
PublishedIsInStream == \A e \in Events : status[e] = "published" => e \in stream

\* An open row can always be claimed again once it is due, and a failed row has
\* used all its attempts: the attempt_count < 8 of the claim query never strands
\* a pending or leased row, although publishers write attempt_count from stale
\* copies.
NeverStranded ==
  \A e \in Events :
    /\ status[e] \in {"pending", "publishing"} => attemptCount[e] < MaxAttempts
    /\ status[e] = "failed" => attemptCount[e] = MaxAttempts

\* The lease excludes: two publishers work on the same row only if the row fell
\* due while one of them held it (a batch longer than PUBLISH_LEASE_MS).
LeaseExcludes ==
  \A p, q \in Publishers :
    p # q => batch[p] \cap batch[q] \subseteq overran

\* A row that says published is reopened only after such an overrun: within
\* leases, "published" is final.
PublishedIsFinalWithinLeases ==
  [][\A e \in Events :
       status[e] = "published" /\ status'[e] # "published" => e \in overran]_vars

\* Every committed event reaches the stream or is given up as failed: crashed
\* publishers, expired leases and overlapping batches lose no event.
EventuallyDelivered ==
  \A e \in Events : (status[e] # "absent") ~> (e \in stream \/ status[e] = "failed")

\* Overlapping publishers do not keep each other busy for ever: the rows come to
\* rest as published or failed.
EventuallyQuiet ==
  <>[](/\ \A e \in Events : status[e] \in {"absent", "published", "failed"}
       /\ \A p \in Publishers : pc[p] = "idle")

-------------------------------------------------------------------------------
\* The refinement: what the rows report and what the stream holds.
ReportOf(s) == CASE s = "absent"    -> "absent"
                 [] s = "published" -> "confirmed"
                 [] s = "failed"    -> "abandoned"
                 [] OTHER           -> "open"

Delivery == INSTANCE EventDelivery
              WITH Event     <- Events,
                   report    <- [e \in Events |-> ReportOf(status[e])],
                   delivered <- stream

\* The outbox implements at-least-once event delivery: nothing is in the stream
\* that was not committed, nothing is reported published that is not in the
\* stream, and a claim, which rewrites up to BatchSize rows at once, changes no
\* report (it never takes a row that gave up).
ImplementsDelivery == Delivery!Spec
===============================================================================
