------------------------------- MODULE AiTasks -------------------------------
(***************************************************************************)
(* The life of an AI task: created with a usage reservation, moved by the  *)
(* worker's events (src/modules/jobs/ai-task-events.service.ts), cancelled *)
(* by the user (ai-tasks.service.ts), superseded by a newer canvas preview *)
(* (canvas-ai-preview.service.ts), and settled once by UsageService.       *)
(*                                                                         *)
(* The five event kinds are five durable consumers, each a sequential loop *)
(* (nats.client.ts subscribeDurable); the loops interleave at every await. *)
(* A handler reads the task row without a lock, edits its copy and saves   *)
(* it.  TypeORM's save is a SELECT that finds the changed columns and an   *)
(* UPDATE of these columns, so a handler takes three steps: Load, Diff,    *)
(* Write.  Superseding does the same inside the preview's transaction.     *)
(* Cancelling locks the row first and is one step.  Settling the           *)
(* reservation is in the transaction of the write it belongs to.           *)
(***************************************************************************)
EXTENDS Integers, FiniteSets

CONSTANTS Tasks,        \* task ids
          Kinds,        \* event kinds the worker uses, a subset of AllKinds
          Reports,      \* progress values the worker reports
          MaxDeliver,   \* deliveries of a message (max_deliver: 3)
          MaxFaults,    \* bound: handler errors and process crashes
          NoTask

AllKinds == {"started", "progress", "completed", "failed", "cancelled"}

ASSUME AiTasksAssumption ==
  /\ Kinds \subseteq AllKinds
  /\ Reports \subseteq Nat
  /\ MaxDeliver \in Nat \ {0} /\ MaxFaults \in Nat
  /\ NoTask \notin Tasks

VARIABLES
  row,         \* [Tasks -> Row]            table ai_task
  reservation, \* [Tasks -> Settlement]     usage_reservation.status
  msg,         \* [Tasks -> [Kinds -> MsgState]]  the worker's events (external)
  deliveries,  \* [Tasks -> [Kinds -> Nat]] delivery count of each event
  jtiUsed,     \* [Tasks -> [Kinds -> BOOLEAN]] Redis: the token was consumed
  phase, job, entity, dirty,   \* the writers: loop position, task, copy, columns
  notified,    \* tasks whose user was notified of the outcome
  faults,      \* how much of MaxFaults is used
  applied      \* history: [Tasks -> [Kinds -> Nat]] how often an event was written

writer == <<phase, job, entity, dirty>>
queue  == <<msg, deliveries, jtiUsed>>
vars   == <<row, reservation, queue, writer, notified, faults, applied>>

JobStatus == {"queued", "running", "waiting_for_user", "completed", "failed",
              "cancelled", "superseded", "stale"}
Terminal  == {"completed", "failed", "cancelled", "stale"}   \* finish ignores these
Active    == {"queued", "running", "waiting_for_user"}       \* ACTIVE_PREVIEW_STATUSES

\* The columns the handlers race for.
Row == [status : JobStatus \cup {"absent"}, progress : Nat]
Columns == {"status", "progress"}
NoRow == [status |-> "absent", progress |-> 0]

Settlement == {"none", "reserved", "committed", "released"}
MsgState   == {"none", "queued", "inflight", "done", "dead"}
Writers    == Kinds \cup {"supersede"}
Phase      == {"idle", "loaded", "saving", "notifying", "reporting"}

\* The ranges of the task rows, the workers' events and the writers' places: the
\* delivery count of an event never passes max_deliver (nats.client.ts).
TypeOK ==
  /\ row \in [Tasks -> Row]
  /\ reservation \in [Tasks -> Settlement]
  /\ msg \in [Tasks -> [Kinds -> MsgState]]
  /\ deliveries \in [Tasks -> [Kinds -> 0..MaxDeliver]]
  /\ jtiUsed \in [Tasks -> [Kinds -> BOOLEAN]]
  /\ phase \in [Writers -> Phase]
  /\ job \in [Writers -> Tasks \cup {NoTask}]
  /\ entity \in [Writers -> Row]
  /\ dirty \in [Writers -> SUBSET Columns]
  /\ notified \subseteq Tasks
  /\ faults \in 0..MaxFaults
  /\ applied \in [Tasks -> [Kinds -> Nat]]

Init ==
  /\ row = [t \in Tasks |-> NoRow]
  /\ reservation = [t \in Tasks |-> "none"]
  /\ msg = [t \in Tasks |-> [k \in Kinds |-> "none"]]
  /\ deliveries = [t \in Tasks |-> [k \in Kinds |-> 0]]
  /\ jtiUsed = [t \in Tasks |-> [k \in Kinds |-> FALSE]]
  /\ phase = [w \in Writers |-> "idle"]
  /\ job = [w \in Writers |-> NoTask]
  /\ entity = [w \in Writers |-> NoRow]
  /\ dirty = [w \in Writers |-> {}]
  /\ notified = {}
  /\ faults = 0
  /\ applied = [t \in Tasks |-> [k \in Kinds |-> 0]]

-------------------------------------------------------------------------------
(* UsageService *)

\* finish() without its test that the reservation is still open.
SettleAgain(r, outcome) == outcome

\* finish(): a settled reservation stays as it is.
Settle(r, outcome) == IF r # "reserved" THEN r ELSE outcome

-------------------------------------------------------------------------------
(* Requests of users *)

\* AiTasksService.create, and the end of CanvasAiPreviewService.create: the
\* reservation, the task and the outbox row in one transaction.
Create(t) ==
  /\ row[t].status = "absent"
  /\ row' = [row EXCEPT ![t] = [NoRow EXCEPT !.status = "queued"]]
  /\ reservation' = [reservation EXCEPT ![t] = "reserved"]
  /\ UNCHANGED <<queue, writer, notified, faults, applied>>

\* Cancelling that forgets the reservation.
CancelUnsettled(t) ==
  /\ row[t].status \in Active
  /\ row' = [row EXCEPT ![t].status = "cancelled"]
  /\ UNCHANGED <<reservation, queue, writer, notified, faults, applied>>

\* AiTasksService.cancel: the row is locked, so test and update are one step.
Cancel(t) ==
  /\ row[t].status \in Active
  /\ row' = [row EXCEPT ![t].status = "cancelled"]
  /\ reservation' = [reservation EXCEPT ![t] = Settle(@, "released")]
  /\ UNCHANGED <<queue, writer, notified, faults, applied>>

-------------------------------------------------------------------------------
(* The worker (external) and the consumers' loops *)

\* The worker publishes an event about a task it was given, in any order.
WorkerSends(t, k) ==
  /\ row[t].status # "absent"
  /\ msg[t][k] = "none"
  /\ msg' = [msg EXCEPT ![t][k] = "queued"]
  /\ UNCHANGED <<row, reservation, deliveries, jtiUsed, writer, notified, faults,
                 applied>>

\* A thrown error: nak for redelivery, or term after the last delivery.
AfterError(n) == IF n >= MaxDeliver THEN "dead" ELSE "queued"

\* Validation that accepts a token again.
TokenAcceptedTwice(t, k) == TRUE

\* InternalServiceTokenService.validate: markOnce lets a jti through once.
TokenAccepted(t, k) == ~jtiUsed[t][k]

\* A handler that takes a result only from a task it saw running.
ApplicableWhenRunning(k, s) ==
  CASE k = "started" -> s = "queued"
    [] OTHER         -> s \in {"running", "waiting_for_user"}

\* The early returns of handle() and finish().
Applicable(k, s) ==
  CASE k = "started"  -> s = "queued"
    [] k = "progress" -> s \in {"running", "waiting_for_user"}
    [] OTHER          -> s \notin Terminal

Max2(a, b) == IF a > b THEN a ELSE b

\* The copy of the row as handle() and finish() edit it: v is the reported
\* progress.  A result for a superseded task makes it stale and is dropped.
Edited(k, r, v) ==
  CASE k = "started"   -> [r EXCEPT !.status = "running"]
    [] k = "progress"  -> [r EXCEPT !.progress = Max2(r.progress, IF v > 99 THEN 99 ELSE v)]
    [] k = "cancelled" -> [r EXCEPT !.status = "cancelled"]
    [] k \in {"completed", "failed"} /\ r.status = "superseded" -> [r EXCEPT !.status = "stale"]
    [] k = "completed" /\ r.status # "superseded" -> [status |-> "completed", progress |-> 100]
    [] k = "failed" /\ r.status # "superseded" -> [r EXCEPT !.status = "failed"]

\* A delivery whose token was already used: "Internal token replay detected".
ReceiveReplay(t, k) ==
  /\ phase[k] = "idle" /\ msg[t][k] = "queued"
  /\ ~TokenAccepted(t, k)
  /\ deliveries' = [deliveries EXCEPT ![t][k] = @ + 1]
  /\ msg' = [msg EXCEPT ![t][k] = AfterError(deliveries[t][k] + 1)]
  /\ UNCHANGED <<row, reservation, jtiUsed, writer, notified, faults, applied>>

\* validate() consumes the token, findOne() reads the row, and the status found
\* makes the handler return: the message is acknowledged.
ReceiveIgnored(t, k) ==
  /\ phase[k] = "idle" /\ msg[t][k] = "queued"
  /\ TokenAccepted(t, k)
  /\ ~Applicable(k, row[t].status)
  /\ deliveries' = [deliveries EXCEPT ![t][k] = @ + 1]
  /\ jtiUsed' = [jtiUsed EXCEPT ![t][k] = TRUE]
  /\ msg' = [msg EXCEPT ![t][k] = "done"]
  /\ UNCHANGED <<row, reservation, writer, notified, faults, applied>>

\* The same, and the handler goes on with an edited copy of the row.
Load(t, k) ==
  /\ phase[k] = "idle" /\ msg[t][k] = "queued"
  /\ TokenAccepted(t, k)
  /\ Applicable(k, row[t].status)
  /\ \E v \in Reports : entity' = [entity EXCEPT ![k] = Edited(k, row[t], v)]
  /\ deliveries' = [deliveries EXCEPT ![t][k] = @ + 1]
  /\ jtiUsed' = [jtiUsed EXCEPT ![t][k] = TRUE]
  /\ msg' = [msg EXCEPT ![t][k] = "inflight"]
  /\ phase' = [phase EXCEPT ![k] = "loaded"]
  /\ job' = [job EXCEPT ![k] = t]
  /\ UNCHANGED <<row, reservation, dirty, notified, faults, applied>>

\* A newer preview of the same canvas reads this task as an older active one.
LoadForSupersede(t) ==
  /\ phase["supersede"] = "idle"
  /\ row[t].status \in Active
  /\ entity' = [entity EXCEPT !["supersede"] = [row[t] EXCEPT !.status = "superseded"]]
  /\ phase' = [phase EXCEPT !["supersede"] = "loaded"]
  /\ job' = [job EXCEPT !["supersede"] = t]
  /\ UNCHANGED <<row, reservation, queue, dirty, notified, faults, applied>>

\* The columns in which the copy e differs from the row r.
Changed(e, r) == (IF e.status # r.status THEN {"status"} ELSE {})
            \cup (IF e.progress # r.progress THEN {"progress"} ELSE {})

\* save(): SELECT the row and find what to update.
Diff(w) ==
  /\ phase[w] = "loaded"
  /\ dirty' = [dirty EXCEPT ![w] = Changed(entity[w], row[job[w]])]
  /\ phase' = [phase EXCEPT ![w] = "saving"]
  /\ UNCHANGED <<row, reservation, queue, job, entity, notified, faults, applied>>

\* UPDATE the dirty columns from the copy.
Saved(r, e, cols) ==
  [status   |-> IF "status" \in cols THEN e.status ELSE r.status,
   progress |-> IF "progress" \in cols THEN e.progress ELSE r.progress]

\* A completion that is recorded without committing the usage.
OutcomeWithoutUsage(r, e) ==
  IF e.status \in {"failed", "cancelled", "superseded"} THEN Settle(r, "released") ELSE r

\* What the transaction of the write does to the reservation.
OutcomeOf(r, e) ==
  CASE e.status = "completed" -> Settle(r, "committed")
    [] e.status \in {"failed", "cancelled", "superseded"} -> Settle(r, "released")
    [] OTHER -> r

Idle(w) ==
  /\ phase' = [phase EXCEPT ![w] = "idle"]
  /\ job' = [job EXCEPT ![w] = NoTask]
  /\ entity' = [entity EXCEPT ![w] = NoRow]
  /\ dirty' = [dirty EXCEPT ![w] = {}]

\* The write of an event handler.  After finish() settled a task the user is
\* notified, a stale result is only audited; in the other cases the handler is
\* done and the message acked.
Write(k) ==
  LET t == job[k]
  IN /\ phase[k] = "saving"
     /\ row' = [row EXCEPT ![t] = Saved(@, entity[k], dirty[k])]
     /\ reservation' = [reservation EXCEPT ![t] = OutcomeOf(@, entity[k])]
     /\ applied' = [applied EXCEPT ![t][k] = @ + 1]
     /\ IF entity[k].status \in {"completed", "failed", "stale"}
        THEN /\ phase' = [phase EXCEPT ![k] = IF entity[k].status = "stale" THEN "reporting"
                                              ELSE "notifying"]
             /\ UNCHANGED <<job, entity, dirty, msg>>
        ELSE /\ Idle(k)
             /\ msg' = [msg EXCEPT ![t][k] = "done"]
     /\ UNCHANGED <<deliveries, jtiUsed, notified, faults>>

\* notifications.createNotification.
Notify(k) ==
  /\ phase[k] = "notifying"
  /\ notified' = notified \cup {job[k]}
  /\ phase' = [phase EXCEPT ![k] = "reporting"]
  /\ UNCHANGED <<row, reservation, queue, job, entity, dirty, faults, applied>>

\* The audit record, the canvas suggestion of a completed task, the broadcast, the ack.
Report(k) ==
  /\ phase[k] = "reporting"
  /\ msg' = [msg EXCEPT ![job[k]][k] = "done"]
  /\ Idle(k)
  /\ UNCHANGED <<row, reservation, deliveries, jtiUsed, notified, faults, applied>>

WriteSuperseded ==
  LET w == "supersede" IN
  LET t == job[w]
  IN /\ phase[w] = "saving"
     /\ row' = [row EXCEPT ![t] = Saved(@, entity[w], dirty[w])]
     /\ reservation' = [reservation EXCEPT ![t] = OutcomeOf(@, entity[w])]
     /\ Idle(w)
     /\ UNCHANGED <<queue, notified, faults, applied>>

-------------------------------------------------------------------------------
(* Failures *)

\* A call of the handler throws (database, deadlock victim, notification, suggestion):
\* nothing of an open transaction remains, the message is redelivered.
HandlerFails(k) ==
  /\ faults < MaxFaults
  /\ faults' = faults + 1
  /\ phase[k] # "idle"
  /\ msg' = [msg EXCEPT ![job[k]][k] = AfterError(deliveries[job[k]][k])]
  /\ Idle(k)
  /\ UNCHANGED <<row, reservation, deliveries, jtiUsed, notified, applied>>

\* The preview's transaction is rolled back.
SupersedeFails ==
  /\ faults < MaxFaults
  /\ faults' = faults + 1
  /\ phase["supersede"] # "idle"
  /\ Idle("supersede")
  /\ UNCHANGED <<row, reservation, queue, notified, applied>>

\* The process dies: every loop starts again, and what was in flight comes back
\* when ack_wait has passed, unless it was the last delivery.
ProcessCrash ==
  /\ faults < MaxFaults
  /\ faults' = faults + 1
  /\ \E w \in Writers : phase[w] # "idle"
  /\ phase' = [w \in Writers |-> "idle"]
  /\ job' = [w \in Writers |-> NoTask]
  /\ entity' = [w \in Writers |-> NoRow]
  /\ dirty' = [w \in Writers |-> {}]
  /\ msg' = [t \in Tasks |-> [k \in Kinds |->
               IF msg[t][k] = "inflight" THEN AfterError(deliveries[t][k]) ELSE msg[t][k]]]
  /\ UNCHANGED <<row, reservation, deliveries, jtiUsed, notified, applied>>

-------------------------------------------------------------------------------
Receive(t, k) == ReceiveReplay(t, k) \/ ReceiveIgnored(t, k) \/ Load(t, k)
Proceed(k)    == Diff(k) \/ Write(k) \/ Notify(k) \/ Report(k)

Next ==
  \/ \E t \in Tasks : Create(t) \/ Cancel(t) \/ LoadForSupersede(t)
  \/ \E t \in Tasks, k \in Kinds : WorkerSends(t, k) \/ Receive(t, k)
  \/ \E k \in Kinds : Proceed(k) \/ HandlerFails(k)
  \/ Diff("supersede") \/ WriteSuperseded \/ SupersedeFails
  \/ ProcessCrash

\* The broker delivers what is queued and the awaited calls of a handler end.
\* Nothing forces users or workers to act.
Fairness ==
  /\ \A t \in Tasks, k \in Kinds : WF_vars(Receive(t, k))
  /\ \A k \in Kinds : WF_vars(Proceed(k))

Spec     == Init /\ [][Next]_vars
FairSpec == Spec /\ Fairness

-------------------------------------------------------------------------------
(***************************************************************************)
(* Properties                                                              *)
(***************************************************************************)

\* A task at rest has no open reservation: whichever handler, cancellation or
\* supersession wins a race, quota is not held for a task that is over.
TerminalIsSettled ==
  \A t \in Tasks :
    row[t].status \in Terminal \cup {"superseded"} => reservation[t] # "reserved"

\* Only a completion fills the progress bar, and with it the usage is settled;
\* reports of the worker are capped at 99, also when they are saved late.
FullProgressIsSettled ==
  \A t \in Tasks : row[t].progress >= 100 => reservation[t] # "reserved"

\* A redelivered event is not applied a second time (the token is consumed).
AppliedAtMostOnce == \A t \in Tasks, k \in Kinds : applied[t][k] <= 1

\* A user is told that a task ended only when the outcome was committed; a
\* notification never announces a transaction that was rolled back.
NotifiedIsSettled ==
  \A t \in notified : /\ reservation[t] # "reserved"
                      /\ \E k \in Kinds \cap {"completed", "failed"} : applied[t][k] = 1

\* A reservation is settled once: committed or released, it never changes again.
SettledOnce ==
  [][\A t \in Tasks : reservation[t] \in {"committed", "released"}
                        => reservation'[t] = reservation[t]]_vars

\* docs/PLATFORM_INTEGRATION.md: "terminal worker events settle usage".
\* Every terminal event the worker publishes ends the task's reservation.
TerminalEventSettles ==
  \A t \in Tasks :
    (\E k \in Kinds \cap {"completed", "failed", "cancelled"} : msg[t][k] # "none")
      ~> (reservation[t] # "reserved")

\* As long as no call fails and no process dies, so that nothing is redelivered, a terminal
\* event ends the reservation whichever of the other consumers, the user's cancellation and
\* a superseding preview write the task at the same time (fairness: the consumers' loops go
\* on).  A single fault after the token check is enough to lose it.
SettlesWithoutFaults ==
  \A t \in Tasks :
    (\E k \in Kinds \cap {"completed", "failed", "cancelled"} : msg[t][k] # "none")
      ~> (reservation[t] # "reserved" \/ faults > 0)

\* docs/USAGE_AND_QUOTAS.md: "Completion commits actual usage; failure and
\* cancellation release it."  A task's final status and its reservation agree.
SettlementMatchesOutcome ==
  \A t \in Tasks :
    /\ row[t].status = "completed" => reservation[t] = "committed"
    /\ row[t].status \in {"failed", "cancelled"} => reservation[t] = "released"
===============================================================================
