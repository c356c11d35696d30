------------------------------ MODULE Workflows ------------------------------
(***************************************************************************)
(* One workflow and its versions.  Requests read the workflow without a    *)
(* lock, insert a version and save their copy of the row                   *)
(* (src/modules/workflows/workflows.service.ts, commitCanvas of            *)
(* canvas.service.ts, workflow-export.service.ts); the results of the AI   *)
(* pipeline do the same (module Sessions).  save() is TypeORM's: a SELECT  *)
(* that finds the columns in which the copy differs from the row, then an  *)
(* UPDATE of these columns from the copy, also of columns the request      *)
(* never touched but somebody else changed.                                *)
(*                                                                         *)
(* Requests that only read, and requests refused for permissions, are left *)
(* out.  Titles, tags and elements are data nothing here depends on.       *)
(***************************************************************************)
EXTENDS Integers, FiniteSets, FiniteSetsExt

CONSTANTS Requests,       \* HTTP requests, each of one kind
          Loops,          \* consumer loops that write as well
          Kinds,          \* kinds of requests that are sent
          PatchStatuses,  \* statuses a PATCH may ask for
          MaxFaults,      \* bound: failed calls and crashes
          NoKind

WorkflowKinds == {"patch", "edit", "archive", "commit", "export"}
WorkflowStatus == {"draft", "in_elicitation", "pending_review", "validated", "exported",
                   "archived"}
Writers == Requests \cup Loops

ASSUME WorkflowsAssumption ==
  /\ PatchStatuses \subseteq WorkflowStatus /\ MaxFaults \in Nat
  /\ NoKind \notin Kinds /\ Requests \cap Loops = {} /\ IsFiniteSet(Requests)

VARIABLES
  workflow,  \* the row: its columns status and current (current_version)
  versions,  \* rows of workflow_version: number, and the writer it is from
  job,       \* [Writers -> Job] what each writer is doing
  alone,     \* history: writers nobody overlapped with
  faults     \* how much of MaxFaults is used

workflowVars == <<workflow, versions, job, alone, faults>>

Row     == [status : WorkflowStatus, current : Nat]
Version == [number : Nat, by : Writers]
Finished == {"ok", "refused"}
\* Where a writer stands; the second line is of the writers of module Sessions.
Phases  == {"idle", "create", "transaction", "insert", "save", "update", "exporting"} \cup Finished \cup
           {"posted", "publish", "published", "saveSession", "updateSession",
            "updateExecution", "latest", "insertResult", "complete", "report", "reported"}
Job     == [kind : Kinds \cup Loops \cup {"create", NoKind}, phase : Phases, copy : Row, next : Nat,
            dirty : SUBSET {"status", "current"}]
NewRow  == [status |-> "draft", current |-> 0]
NoJob   == [kind |-> NoKind, phase |-> "idle", copy |-> NewRow, next |-> 0, dirty |-> {}]

Busy(w)  == job[w].phase \notin Finished \cup {"idle"}
Newest   == Max({0} \cup {v.number : v \in versions})   \* 0: there is none

\* The ranges of the workflow row, its versions and the requests' places.
WorkflowTypeOK ==
  /\ workflow \in Row
  /\ versions \subseteq Version
  /\ job \in [Writers -> Job]
  /\ alone \in [Writers -> BOOLEAN]
  /\ faults \in 0..MaxFaults

\* create() and duplicate() have inserted the row, which everybody sees; version 1
\* and the save of current_version 1 are two more calls (InsertFirst, Save).
WorkflowInit ==
  /\ workflow = NewRow /\ versions = {}
  /\ \E owner \in Requests :
       job = [w \in Writers |-> IF w = owner THEN [NoJob EXCEPT !.kind = "create",
                                                    !.phase = "create", !.next = 1]
                                ELSE NoJob]
  /\ alone = [w \in Writers |-> TRUE]
  /\ faults = 0

-------------------------------------------------------------------------------
\* Writer w begins; whoever is at work now was not alone.
Begins(w, kind, phase, copy, next) ==
  /\ job' = [job EXCEPT ![w] = [NoJob EXCEPT !.kind = kind, !.phase = phase, !.copy = copy,
                                             !.next = next]]
  /\ alone' = [x \in Writers |->
       IF x = w THEN alone[x] /\ \A y \in Writers \ {w} : ~Busy(y) ELSE alone[x] /\ ~Busy(x)]

Goes(w, phase) == job' = [job EXCEPT ![w].phase = phase]
Ends(w, phase) == job' = [job EXCEPT ![w] = [NoJob EXCEPT !.kind = job[w].kind, !.phase = phase]]

Opens(q, kind) == job[q].phase = "idle" /\ kind \in Kinds

\* update() with elements_json, and maybe with a status.
Patch(q) ==
  /\ Opens(q, "patch")
  /\ \E s \in PatchStatuses \cup {workflow.status} :
       Begins(q, "patch", "transaction", [workflow EXCEPT !.status = s], 0)
  /\ UNCHANGED <<workflow, versions, faults>>

\* update() of the row alone.
Edit(q) ==
  /\ Opens(q, "edit")
  /\ \E s \in PatchStatuses \cup {workflow.status} :
       Begins(q, "edit", "save", [workflow EXCEPT !.status = s], 0)
  /\ UNCHANGED <<workflow, versions, faults>>

Archive(q) ==
  /\ Opens(q, "archive")
  /\ Begins(q, "archive", "save", [workflow EXCEPT !.status = "archived"], 0)
  /\ UNCHANGED <<workflow, versions, faults>>

\* commitCanvas(): the number comes from the row read before the transaction.
CommitCanvas(q) ==
  /\ Opens(q, "commit")
  /\ Begins(q, "commit", "insert", workflow, workflow.current + 1)
  /\ UNCHANGED <<workflow, versions, faults>>

\* update(): the transaction reads the current version again.
ReadCurrent(q) ==
  /\ job[q].phase = "transaction"
  /\ job' = [job EXCEPT ![q].phase = "insert", ![q].next = workflow.current + 1]
  /\ UNCHANGED <<workflow, versions, alone, faults>>

\* uq_workflow_version_number.
NumberFree(n) == \A v \in versions : v.number # n
Inserted(w)   == versions \cup {[number |-> job[w].next, by |-> w]}

\* create(): the first version, then the row's copy counts it.
InsertFirst(q) ==
  /\ job[q].phase = "create"
  /\ NumberFree(job[q].next)
  /\ versions' = Inserted(q)
  /\ job' = [job EXCEPT ![q].phase = "save", ![q].copy.current = 1]
  /\ UNCHANGED <<workflow, alone, faults>>

\* update() that leaves currentVersion of its copy as it was read.
InsertVersionStaleCopy(q) ==
  /\ job[q].phase = "insert"
  /\ NumberFree(job[q].next)
  /\ versions' = Inserted(q)
  /\ workflow' = [workflow EXCEPT !.current = job[q].next]
  /\ IF job[q].kind = "patch" THEN Goes(q, "save") ELSE Ends(q, "ok")
  /\ UNCHANGED <<alone, faults>>

\* The transaction of update() and commitCanvas(): the version and the current
\* version.  update() then counts up currentVersion in the copy it read first.
InsertVersion(q) ==
  /\ job[q].phase = "insert"
  /\ NumberFree(job[q].next)
  /\ versions' = Inserted(q)
  /\ workflow' = [workflow EXCEPT !.current = job[q].next]
  /\ IF job[q].kind = "patch"
     THEN job' = [job EXCEPT ![q].phase = "save", ![q].copy.current = @ + 1]
     ELSE Ends(q, "ok")
  /\ UNCHANGED <<alone, faults>>

\* The number is taken: what is open is rolled back and the request fails.
InsertRefused(q) ==
  /\ job[q].phase \in {"create", "insert"}
  /\ ~NumberFree(job[q].next)
  /\ Ends(q, "refused")
  /\ UNCHANGED <<workflow, versions, alone, faults>>

\* The columns in which a copy differs from its row, and the row updated.
Changed(copy, row)     == {c \in DOMAIN row : copy[c] # row[c]}
Saved(row, copy, cols) == [c \in DOMAIN row |-> IF c \in cols THEN copy[c] ELSE row[c]]

\* save(): the SELECT.
Diff(w) ==
  /\ job[w].phase = "save"
  /\ job' = [job EXCEPT ![w].phase = "update", ![w].dirty = Changed(job[w].copy, workflow)]
  /\ UNCHANGED <<workflow, versions, alone, faults>>

\* save(): the UPDATE; audit and event follow, and the request is answered.
Save(q) ==
  /\ job[q].phase = "update"
  /\ workflow' = Saved(workflow, job[q].copy, job[q].dirty)
  /\ Ends(q, "ok")
  /\ UNCHANGED <<versions, alone, faults>>

\* validateExportability() and the rest of exportToElsa() are two steps: the
\* status is checked in the first and overwritten in the second.
CheckExport(q, reconciling) ==
  /\ Opens(q, "export")
  /\ workflow.status = "validated" /\ ~reconciling
  /\ Begins(q, "export", "exporting", workflow, 0)
  /\ UNCHANGED <<workflow, versions, faults>>

Export(q) ==
  /\ job[q].phase = "exporting"
  /\ workflow' = [workflow EXCEPT !.status = "exported"]
  /\ Ends(q, "ok")
  /\ UNCHANGED <<versions, alone, faults>>

-------------------------------------------------------------------------------
WorkflowRequest(q) ==
  \/ Patch(q) \/ Edit(q) \/ Archive(q) \/ CommitCanvas(q)
  \/ InsertFirst(q) \/ ReadCurrent(q) \/ InsertVersion(q) \/ InsertRefused(q)
  \/ Diff(q) \/ Save(q) \/ Export(q)

-------------------------------------------------------------------------------
(***************************************************************************)
(* Properties                                                              *)
(***************************************************************************)

\* Version numbers are 1, 2, 3, ... without a gap or a duplicate, whoever inserts
\* them from whichever stale number, and current_version names one of them, or is 0,
\* the number create() inserts the row with: a create() that dies after version 1
\* leaves it so, and a copy read before create() saved may write it back.
VersionsDense ==
  /\ {v.number : v \in versions} = 1..Cardinality(versions)
  /\ workflow.current \in 0..Cardinality(versions)

\* As long as writers did not overlap and nothing failed, the current version exists
\* and is the newest one: export and the next edit start from it.
CurrentIsNewest ==
  (\A w \in Writers : alone[w] /\ ~Busy(w)) /\ faults = 0 =>
    workflow.current = Newest /\ versions # {}

\* Both: the numbers agree with the rows, and the workflow with the numbers unless
\* writers overlapped or failed (create(), update(), commitCanvas(), handle()).
VersionsSound == VersionsDense /\ CurrentIsNewest

\* docs/Backend_Issues.md: "Every PATCH that modifies elements_json creates a new
\* immutable WorkflowVersion record".  A PATCH no other writer overlapped with is
\* not refused.
PatchCreatesVersion ==
  \A q \in Requests : job[q].kind = "patch" /\ job[q].phase = "refused" => ~alone[q]
===============================================================================
