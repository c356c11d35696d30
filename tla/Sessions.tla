------------------------------- MODULE Sessions -------------------------------
(***************************************************************************)
(* A session of the workflow of Workflows, and the AI pipeline behind it:  *)
(* requests (src/modules/sessions/sessions.service.ts), the dispatch of    *)
(* tasks (messages controller, ai-gateway.service.ts) and the handlers of  *)
(* results and divergence results (src/modules/ai-gateway/handlers).       *)
(*                                                                         *)
(* Nothing here is locked and no handler is a transaction: each awaited    *)
(* call is a step.  A result carries the session only; the subscriber      *)
(* attributes it to the session's latest execution, and the handler skips  *)
(* it if a result was already handled under that execution's message id.   *)
(***************************************************************************)
EXTENDS Workflows, Sequences

CONSTANTS MaxExecutions,  \* bound: tasks dispatched
          MaxDeliver,     \* max_deliver: 3
          Overrides       \* statuses an admin may set

SessionKinds == {"dispatch", "finalize", "delete", "mode", "override"}
SessionStatus == {"created", "awaiting_input", "processing", "draft_ready",
                  "needs_reconciliation", "in_elicitation", "in_review", "validated",
                  "exported", "archived", "error"}
Tasks == 1..MaxExecutions

ASSUME SessionsAssumption ==
  /\ Kinds \subseteq WorkflowKinds \cup SessionKinds /\ Loops = {"result", "divergence"}
  /\ MaxExecutions \in Nat \ {0} /\ MaxDeliver \in Nat \ {0} /\ Overrides \subseteq SessionStatus

VARIABLES
  session,     \* the row: status, mode, and whether archived_at is set
  copy, dirty, \* [Writers -> ...] a writer's copy of the session, columns to update
  executions,  \* sequence of pipeline_execution: status, and natsMessageId saved
  published,   \* executions whose task reached the worker
  msg,         \* [Loops -> [Tasks -> Message]] the worker's answers (external)
  subject,     \* [Loops -> Nat] the message a loop is handling, 0 for none
  target, key, \* the execution a result is attributed to, 0 or its id for handledIds
  handled,     \* handledIds of the result handler, in memory
  correlation, \* [Tasks -> Nat] the correlation_id a result's report was sent with
  compared,    \* handledIds of the divergence handler, in memory
  deadLetters, \* rows of dead_letter, by loop and message
  applied,     \* history: results whose handler came to its end
  dropped,     \* history: [Tasks -> Nat] the id a result was dropped for
  crashed,     \* history: the process died once
  stale        \* history: writers at work when the session was archived

queues      == <<msg, subject, target, key, handled, deadLetters, applied, dropped, correlation,
                 compared>>
sessionVars == <<session, copy, dirty, executions, published, queues, crashed, stale>>
vars        == <<workflowVars, sessionVars>>

SessionRow == [status : SessionStatus, mode : {"auto", "interactive"}, archived : BOOLEAN]
NewSession == [status |-> "created", mode |-> "auto", archived |-> FALSE]
Execution  == [status : {"pending", "completed"}, named : BOOLEAN]
Message    == [state : {"none", "queued", "inflight", "done", "dead"}, deliveries : 0..MaxDeliver]
NoMessage  == [state |-> "none", deliveries |-> 0]

\* The ranges of the rows, the messages and the writers' places: no message is
\* delivered more than max_deliver times.
TypeOK ==
  /\ WorkflowTypeOK
  /\ session \in SessionRow
  /\ copy \in [Writers -> SessionRow]
  /\ dirty \in [Writers -> SUBSET {"status", "mode", "archived", "named"}]
  /\ executions \in Seq(Execution)
  /\ Len(executions) <= MaxExecutions
  /\ published \subseteq Tasks
  /\ msg \in [Loops -> [Tasks -> Message]]
  /\ subject \in [Loops -> 0..MaxExecutions]
  /\ target \in 0..MaxExecutions /\ key \in 0..MaxExecutions
  /\ handled \subseteq Tasks
  /\ deadLetters \subseteq Loops \X Tasks
  /\ applied \subseteq Tasks /\ dropped \in [Tasks -> 0..MaxExecutions]
  /\ correlation \in [Tasks -> 0..MaxExecutions] /\ compared \subseteq Tasks
  /\ crashed \in BOOLEAN /\ stale \subseteq Writers

Init ==
  /\ WorkflowInit
  /\ session = NewSession
  /\ copy = [w \in Writers |-> NewSession]
  /\ dirty = [w \in Writers |-> {}]
  /\ executions = <<>> /\ published = {}
  /\ msg = [l \in Loops |-> [t \in Tasks |-> NoMessage]]
  /\ subject = [l \in Loops |-> 0] /\ target = 0 /\ key = 0
  /\ handled = {} /\ deadLetters = {} /\ applied = {}
  /\ dropped = [t \in Tasks |-> 0]
  /\ correlation = [t \in Tasks |-> 0] /\ compared = {}
  /\ crashed = FALSE /\ stale = {}

-------------------------------------------------------------------------------
(* session-fsm.ts *)

Early == {"created", "awaiting_input", "processing", "in_elicitation", "draft_ready",
          "needs_reconciliation", "in_review"}

Rules ==
  {<<"created", "first_user_message", "awaiting_input">>,
   <<"awaiting_input", "ai_task_published", "processing">>,
   <<"processing", "ai_result_received", "draft_ready">>,
   <<"in_elicitation", "ai_task_published", "processing">>,
   <<"draft_ready", "ai_task_published", "processing">>,
   <<"draft_ready", "ai_result_received", "draft_ready">>}
  \cup {<<s, "user_finalizes", "draft_ready">> : s \in Early}
  \cup {<<s, "user_deletes", "archived">> : s \in SessionStatus}

\* A table that takes results in every status.
TransitionsAnyResult ==
  Rules \cup {<<s, "ai_result_received", "draft_ready">> : s \in SessionStatus}

\* SESSION_TRANSITIONS: the rules for the events somebody raises.
Transitions == Rules

\* transitionSessionStatus throws unless a rule fits.
Allowed(s, event) == \E t \in Transitions : t[1] = s /\ t[2] = event
To(s, event)      == (CHOOSE t \in Transitions : t[1] = s /\ t[2] = event)[3]

-------------------------------------------------------------------------------
(* Requests *)

Copies(w, row) == copy' = [copy EXCEPT ![w] = row] /\ stale' = stale \ {w}
Rest == UNCHANGED <<session, dirty, executions, published, queues, crashed>>
Untouched == UNCHANGED <<workflow, versions, faults>>

Finalize(q) ==
  /\ Opens(q, "finalize")
  /\ Allowed(session.status, "user_finalizes")
  /\ Begins(q, "finalize", "saveSession", workflow, 0)
  /\ Copies(q, [session EXCEPT !.status = To(session.status, "user_finalizes")])
  /\ Untouched /\ Rest

\* archive(); the update of messages, documents and executions is not modelled.
Delete(q) ==
  /\ Opens(q, "delete")
  /\ Begins(q, "delete", "saveSession", workflow, 0)
  /\ Copies(q, [session EXCEPT !.status = "archived", !.archived = TRUE])
  /\ Untouched /\ Rest

UpdateMode(q) ==
  /\ Opens(q, "mode")
  /\ session.mode = "auto"
  /\ Begins(q, "mode", "saveSession", workflow, 0)
  /\ Copies(q, [session EXCEPT !.mode = "interactive"])
  /\ Untouched /\ Rest

\* overrideStatus() with force.
Override(q) ==
  /\ Opens(q, "override")
  /\ Begins(q, "override", "saveSession", workflow, 0)
  /\ \E s \in Overrides :
       Copies(q, [session EXCEPT !.status = s, !.archived = @ \/ s = "archived"])
  /\ Untouched /\ Rest

\* createMessage() of a user: the session is not archived, the message is stored.
PostMessage(q) ==
  /\ Opens(q, "dispatch") /\ ~session.archived
  /\ Len(executions) + Cardinality({x \in Requests : job[x].phase = "posted"}) < MaxExecutions
  /\ Begins(q, "dispatch", "posted", workflow, 0)
  /\ Untouched /\ UNCHANGED <<session, copy, dirty, executions, published, queues, crashed, stale>>

\* dispatchAiTask() reads the session, publishAiTask() saves the execution.
SaveExecution(q) ==
  /\ job[q].phase = "posted"
  /\ Copies(q, session)
  /\ executions' = Append(executions, [status |-> "pending", named |-> FALSE])
  /\ job' = [job EXCEPT ![q].phase = "publish", ![q].next = Len(executions) + 1]
  /\ UNCHANGED <<workflow, versions, alone, faults, session, dirty, published, queues, crashed>>

PublishTask(q) ==
  /\ job[q].phase = "publish"
  /\ published' = published \cup {job[q].next}
  /\ Goes(q, "published")
  /\ UNCHANGED <<workflow, versions, alone, faults, session, copy, dirty, executions, queues,
                 crashed, stale>>

\* The copy of an execution a writer saves: publishAiTask() has the one it inserted,
\* with the natsMessageId set, and the handler of a result the one it read, completed.
Held(w) == IF w = "result" THEN target ELSE job[w].next
ExecutionCopy(w) == [status |-> IF w = "result" THEN "completed" ELSE "pending",
                     named  |-> IF w = "result" THEN key # 0 ELSE TRUE]

\* save() of the execution, by either.
DiffExecution(w) ==
  /\ job[w].phase = IF w = "result" THEN "complete" ELSE "published"
  /\ dirty' = [dirty EXCEPT ![w] = Changed(ExecutionCopy(w), executions[Held(w)])]
  /\ Goes(w, "updateExecution")
  /\ UNCHANGED <<workflow, versions, alone, faults, session, copy, executions, published, queues,
                 crashed, stale>>

ExecutionSaved(w) ==
  /\ job[w].phase = "updateExecution"
  /\ executions' = [executions EXCEPT ![Held(w)] = Saved(@, ExecutionCopy(w), dirty[w])]

\* The execution is saved; the session's status follows from the copy.
NameExecution(q) ==
  /\ ExecutionSaved(q)
  /\ IF copy[q].status \in {"created", "awaiting_input", "in_elicitation"}
     THEN /\ copy' = [copy EXCEPT ![q].status =
                         To(IF @ = "created" THEN To(@, "first_user_message") ELSE @,
                            "ai_task_published")]
          /\ Goes(q, "saveSession")
     ELSE Ends(q, "ok") /\ UNCHANGED copy
  /\ UNCHANGED <<workflow, versions, alone, faults, session, dirty, published, queues, crashed,
                 stale>>

\* save() of the session.
DiffSession(w) ==
  /\ job[w].phase = "saveSession"
  /\ dirty' = [dirty EXCEPT ![w] = Changed(copy[w], session)]
  /\ Goes(w, "updateSession")
  /\ UNCHANGED <<workflow, versions, alone, faults, session, copy, executions, published, queues,
                 crashed, stale>>

Updated(w) ==
  /\ session' = Saved(session, copy[w], dirty[w])
  /\ stale' = IF session'.status = "archived" /\ session.status # "archived"
              THEN {x \in Writers : x # w /\ Busy(x)} ELSE stale \ {w}

SaveSession(q) ==
  /\ job[q].phase = "updateSession"
  /\ Updated(q)
  /\ Ends(q, "ok")
  /\ UNCHANGED <<workflow, versions, alone, faults, copy, dirty, executions, published, queues,
                 crashed>>

SessionRequest(q) ==
  \/ Finalize(q) \/ Delete(q) \/ UpdateMode(q) \/ Override(q) \/ PostMessage(q)
  \/ SaveExecution(q) \/ PublishTask(q) \/ DiffExecution(q) \/ NameExecution(q)
  \/ DiffSession(q) \/ SaveSession(q)

-------------------------------------------------------------------------------
(* The worker (external) and the consumers' loops *)

\* The worker answers a task, and the divergence agent a report.
WorkerAnswers(l, t) ==
  /\ msg[l][t].state = "none"
  /\ t \in IF l = "result" THEN published ELSE applied
  /\ msg' = [msg EXCEPT ![l][t].state = "queued"]
  /\ UNCHANGED <<workflowVars, session, copy, dirty, executions, published, subject, target, key,
                 handled, deadLetters, applied, dropped, correlation, compared, crashed, stale>>

Takes(l, t) ==
  /\ msg[l][t].state = "queued" /\ ~Busy(l)
  /\ subject' = [subject EXCEPT ![l] = t]

\* The message of loop l is delivered and ends in state s, or is held.
Delivered(l, t, s) ==
  msg' = [msg EXCEPT ![l][t] = [state |-> s, deliveries |-> @.deliveries + 1]]

Acks(l) ==
  /\ msg' = [msg EXCEPT ![l][subject[l]].state = "done"]
  /\ job' = [job EXCEPT ![l] = NoJob]
  /\ subject' = [subject EXCEPT ![l] = 0]

\* The handler throws: nak, or after the last delivery the dead letter and term.
\* The raw payload names no execution, so RetryExhaustedHandler changes none.
Throws(l) ==
  LET last == msg[l][subject[l]].deliveries >= MaxDeliver
  IN /\ msg' = [msg EXCEPT ![l][subject[l]].state = IF last THEN "dead" ELSE "queued"]
     /\ deadLetters' = IF last THEN deadLetters \cup {<<l, subject[l]>>} ELSE deadLetters
     /\ job' = [job EXCEPT ![l] = NoJob]
     /\ subject' = [subject EXCEPT ![l] = 0]

-------------------------------------------------------------------------------
(* GenerationCompleteHandler *)

Latest == Len(executions)
Key    == IF executions[Latest].named THEN Latest ELSE 0   \* 0: "enriched-<now>", never seen

\* A result handled under this id before is acknowledged and dropped.
SkipResult(t) ==
  /\ msg["result"][t].state = "queued" /\ ~Busy("result")
  /\ Key \in handled
  /\ Delivered("result", t, "done")
  /\ dropped' = [dropped EXCEPT ![t] = Key]
  /\ UNCHANGED <<workflowVars, session, copy, dirty, executions, published, subject, target, key,
                 handled, deadLetters, applied, correlation, compared, crashed, stale>>

\* A handler that marks the result handled before the work.
ReceiveResultMarked(t) ==
  /\ Takes("result", t)
  /\ Key \notin handled
  /\ Delivered("result", t, "inflight")
  /\ target' = Latest /\ key' = Key
  /\ handled' = handled \cup ({Key} \ {0})
  /\ Begins("result", "result", "latest", workflow, 0)
  /\ Copies("result", session)
  /\ UNCHANGED <<workflow, versions, faults, session, dirty, executions, published,
                 deadLetters, applied, dropped, correlation, compared, crashed>>

\* enrichResultPayload() and the reads of handle().
ReceiveResult(t) ==
  /\ Takes("result", t)
  /\ Key \notin handled
  /\ Delivered("result", t, "inflight")
  /\ target' = Latest /\ key' = Key
  /\ Begins("result", "result", "latest", workflow, 0)
  /\ Copies("result", session)
  /\ UNCHANGED <<workflow, versions, faults, session, dirty, executions, published, handled,
                 deadLetters, applied, dropped, correlation, compared, crashed>>

\* createWorkflowVersionFromResult(): the newest number, then the insert.
ReadNewest ==
  /\ job["result"].phase = "latest"
  /\ job' = [job EXCEPT !["result"].phase = "insertResult", !["result"].next = Newest + 1]
  /\ UNCHANGED <<workflow, versions, alone, faults, sessionVars>>

InsertResult ==
  /\ job["result"].phase = "insertResult"
  /\ NumberFree(job["result"].next)
  /\ versions' = Inserted("result")
  /\ job' = [job EXCEPT !["result"] = [@ EXCEPT !.phase = "save",
               !.copy = [status |-> "pending_review", current |-> job["result"].next]]]
  /\ UNCHANGED <<workflow, alone, faults, sessionVars>>

InsertResultRefused ==
  /\ job["result"].phase = "insertResult"
  /\ ~NumberFree(job["result"].next)
  /\ Throws("result")
  /\ UNCHANGED <<workflow, versions, alone, faults, session, copy, dirty, executions, published,
                 target, key, handled, applied, dropped, correlation, compared, crashed, stale>>

\* The workflow is saved; then the session's status, read before, has to admit
\* a result.
SaveResult ==
  /\ job["result"].phase = "update"
  /\ workflow' = Saved(workflow, job["result"].copy, job["result"].dirty)
  /\ Allowed(copy["result"].status, "ai_result_received")
  /\ copy' = [copy EXCEPT !["result"].status = To(@, "ai_result_received")]
  /\ Goes("result", "saveSession")
  /\ UNCHANGED <<versions, alone, faults, session, dirty, executions, published, queues, crashed,
                 stale>>

SaveResultThenThrow ==
  /\ job["result"].phase = "update"
  /\ workflow' = Saved(workflow, job["result"].copy, job["result"].dirty)
  /\ ~Allowed(copy["result"].status, "ai_result_received")
  /\ Throws("result")
  /\ UNCHANGED <<versions, alone, faults, session, copy, dirty, executions, published, target, key,
                 handled, applied, dropped, correlation, compared, crashed, stale>>

SaveSessionOfResult ==
  /\ job["result"].phase = "updateSession"
  /\ Updated("result")
  /\ Goes("result", "complete")
  /\ UNCHANGED <<workflow, versions, alone, faults, copy, dirty, executions, published, queues,
                 crashed>>

\* The execution is saved with the columns of the copy, natsMessageId among them.
CompleteExecution ==
  /\ ExecutionSaved("result")
  /\ Goes("result", "report")
  /\ UNCHANGED <<workflow, versions, alone, faults, session, copy, dirty, published, queues,
                 crashed, stale>>

\* The message, the audit record, the events, the snapshots and the divergence
\* report; markHandled; the acknowledgement.
Report ==
  /\ job["result"].phase = "report"
  /\ applied' = applied \cup {subject["result"]}
  /\ correlation' = [correlation EXCEPT ![subject["result"]] = key]
  /\ handled' = handled \cup ({key} \ {0})
  /\ Acks("result")
  /\ UNCHANGED <<workflow, versions, alone, faults, session, copy, dirty, executions, published,
                 target, key, deadLetters, dropped, compared, crashed, stale>>

-------------------------------------------------------------------------------
(* DivergenceResultHandler *)

\* A report of a result handled under the same id was compared before.
SkipDivergence(t) ==
  /\ msg["divergence"][t].state = "queued" /\ ~Busy("divergence")
  /\ correlation[t] \in compared
  /\ Delivered("divergence", t, "done")
  /\ UNCHANGED <<workflowVars, session, copy, dirty, executions, published, subject, target, key,
                 handled, deadLetters, applied, dropped, correlation, compared, crashed, stale>>

\* The similarity is saved; if it is low, the session is read.
ReceiveDivergence(t) ==
  /\ Takes("divergence", t)
  /\ correlation[t] \notin compared
  /\ Delivered("divergence", t, "inflight")
  /\ \E low \in BOOLEAN :
       /\ Begins("divergence", "divergence", IF low THEN "saveSession" ELSE "reported", workflow, 0)
       /\ Copies("divergence", [session EXCEPT !.status = IF low THEN "needs_reconciliation" ELSE @])
  /\ UNCHANGED <<workflow, versions, faults, session, dirty, executions, published, target, key,
                 handled, deadLetters, applied, dropped, correlation, compared, crashed>>

SaveDivergence ==
  /\ job["divergence"].phase = "updateSession"
  /\ Updated("divergence")
  /\ Goes("divergence", "reported")
  /\ UNCHANGED <<workflow, versions, alone, faults, copy, dirty, executions, published, queues,
                 crashed>>

AckDivergence ==
  /\ job["divergence"].phase = "reported"
  /\ compared' = compared \cup ({correlation[subject["divergence"]]} \ {0})
  /\ Acks("divergence")
  /\ UNCHANGED <<workflow, versions, alone, faults, session, copy, dirty, executions, published,
                 target, key, handled, deadLetters, applied, dropped, correlation, crashed, stale>>

-------------------------------------------------------------------------------
(* Failures *)

Fault == faults < MaxFaults /\ faults' = faults + 1

\* A call of a handler throws.
HandlerFails(l) ==
  /\ Fault /\ Busy(l)
  /\ Throws(l)
  /\ UNCHANGED <<workflow, versions, alone, session, copy, dirty, executions, published, target,
                 key, handled, applied, dropped, correlation, compared, crashed, stale>>

\* A call of a request throws: the database, or the broker while publishing.
RequestFails(q) ==
  /\ Fault /\ Busy(q)
  /\ Ends(q, "refused")
  /\ UNCHANGED <<workflow, versions, alone, sessionVars>>

\* The process dies, and with it both handledIds; what was in flight comes back, but
\* after a last delivery nobody writes a dead letter.
Crash ==
  /\ Fault /\ \E w \in Writers : Busy(w)
  /\ crashed' = TRUE
  /\ handled' = {} /\ compared' = {}
  /\ job' = [w \in Writers |-> IF w \in Loops THEN NoJob
                               ELSE IF Busy(w) THEN [NoJob EXCEPT !.phase = "refused"] ELSE job[w]]
  /\ subject' = [l \in Loops |-> 0]
  /\ msg' = [l \in Loops |-> [t \in Tasks |->
       LET m == msg[l][t]
       IN IF m.state # "inflight" THEN m
          ELSE [m EXCEPT !.state = IF m.deliveries >= MaxDeliver THEN "dead" ELSE "queued"]]]
  /\ UNCHANGED <<workflow, versions, alone, session, copy, dirty, executions, published, target,
                 key, deadLetters, applied, dropped, correlation, stale>>

-------------------------------------------------------------------------------
OfWorkflow(q) ==
  WorkflowRequest(q) \/ CheckExport(q, session.status = "needs_reconciliation")

HandleResult ==
  \/ ReadNewest \/ InsertResult \/ InsertResultRefused
  \/ Diff("result") /\ UNCHANGED sessionVars
  \/ SaveResult \/ SaveResultThenThrow \/ DiffSession("result") \/ SaveSessionOfResult
  \/ DiffExecution("result") \/ CompleteExecution \/ Report

Next ==
  \/ \E q \in Requests : OfWorkflow(q) /\ UNCHANGED sessionVars
  \/ \E q \in Requests : SessionRequest(q) \/ RequestFails(q)
  \/ \E l \in Loops, t \in Tasks : WorkerAnswers(l, t)
  \/ \E t \in Tasks : SkipResult(t) \/ ReceiveResult(t) \/ SkipDivergence(t) \/ ReceiveDivergence(t)
  \/ HandleResult
  \/ DiffSession("divergence") \/ SaveDivergence \/ AckDivergence
  \/ \E l \in Loops : HandlerFails(l)
  \/ Crash

Spec == Init /\ [][Next]_vars

-------------------------------------------------------------------------------
(***************************************************************************)
(* Properties                                                              *)
(***************************************************************************)

\* No answer of the worker disappears without a trace.  An acknowledged result was
\* applied, or dropped because another result was handled before under the very id
\* that both were attributed to; as that id is of a task dispatched no earlier than
\* either, two tasks were under way.  One that was given up is in the dead letter
\* table, unless the process died.  And the execution under whose id a result was
\* handled stays completed, whichever copies of it are saved late.
ResultsAccountedFor ==
  /\ \A t \in Tasks : msg["result"][t].state = "done" /\ t \notin applied =>
       /\ dropped[t] >= t
       /\ \E u \in applied : correlation[u] = dropped[t] /\ dropped[t] >= u
  /\ \A l \in Loops, t \in Tasks :
       msg[l][t].state = "dead" => crashed \/ <<l, t>> \in deadLetters
  /\ \A u \in applied : correlation[u] # 0 => executions[correlation[u]].status = "completed"

\* An archived session comes back only through a writer that was at work when it
\* was archived, a divergence result (which ignores the FSM) or an override: the
\* FSM refuses everybody else, whatever arrives late.
ArchivedStays ==
  [][session.status = "archived" /\ session'.status # "archived"
       => \E w \in Writers : /\ job[w].phase = "updateSession"
                             /\ w \in stale \/ job[w].kind \in {"override", "divergence"}]_vars
===============================================================================
