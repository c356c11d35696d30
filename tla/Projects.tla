-------------------------------- MODULE Projects --------------------------------
(***************************************************************************)
(* Projects, the workflows created in them and their share links           *)
(* (src/modules/projects/projects.service.ts, workflows.service.ts,        *)
(* services/share-workflow.service.ts).  A workflow names its project in a *)
(* column without a foreign key.  audit_log refers to workflow with ON     *)
(* DELETE CASCADE, and a trigger refuses every DELETE of audit_log.        *)
(***************************************************************************)
EXTENDS Tables

CONSTANTS ProjectNames,
          ViewLimits  \* values of maxViews a link is asked for; {} is "not_given"

ASSUME LimitsAssumption ==
  /\ \A m \in ViewLimits : Cardinality(m) <= 1 /\ \A n \in m : n \in Nat
  /\ "none" \notin Requests

ProjectKinds == {"project_create", "project_delete", "workflow_create", "share", "view"}

NewProject(name) == [status |-> "active", name |-> name]

\* versions counts the rows of workflow_version, audited says whether audit_log names it.
NewWorkflow(project) ==
  [status |-> "draft", project |-> project, versions |-> 0, current |-> 0, audited |-> FALSE,
   token |-> "none", expires |-> "never", max |-> {}, views |-> 0]

Deleted == [status |-> "deleted"]
Alive(table) == {id \in Existing(table) : rows[id] # Deleted}

NewRowOf(q, kind, table, next, then) ==
  Begins(q, [Copy(kind, NoProcess, <<table, 1>>, next, then) EXCEPT !.phase = "insert"])

Named(name) == {id \in Alive("project") : rows[id].name = name}

\* create(): the name is looked up, and the unique index decides a race.
CreateProject(q) ==
  \E name \in ProjectNames :
    IF Named(name) # {} THEN Begins(q, Answered("project_create", "refused")) /\ UNCHANGED rows
    ELSE NewRowOf(q, "project_create", "project", NewProject(name), "audit") /\ UNCHANGED rows

InsertProject(q) ==
  /\ At(q, {"project_create"}, "insert")
  /\ IF Named(job[q].next.name) = {} THEN InsertRow(q, {"project_create"}, "project")
     ELSE Ends(q, "failed") /\ UNCHANGED rows

DeleteProject(q) ==
  /\ \E id \in Existing("project") :
       Begins(q, IF id \in Alive("project")
                 THEN [Copy("project_delete", NoProcess, id, Deleted, "audit") EXCEPT !.phase = "erase"]
                 ELSE Answered("project_delete", "refused"))
  /\ UNCHANGED rows

WorkflowsOf(project) == {w \in Alive("workflow") : rows[w].project = {project}}

\* The transaction of delete(): versions, workflows, the project.  The cascade to
\* audit_log raises an exception, which rolls everything back.
EraseProject(q) ==
  /\ At(q, {"project_delete"}, "erase")
  /\ LET ws == WorkflowsOf(job[q].row)
     IN IF \E w \in ws : rows[w].audited THEN Ends(q, "failed") /\ UNCHANGED rows
        ELSE /\ rows' = [id \in DOMAIN rows |->
                           IF id \in ws \cup {job[q].row} THEN Deleted ELSE rows[id]]
             /\ Goes(q, "audit")

AuditProject(q) == AuditedRow(q, {"project_create", "project_delete"})

-------------------------------------------------------------------------------
\* WorkflowsService.create() does not look for the project it is given.
CreateWorkflow(q) ==
  /\ \E p \in {{}} \cup {{id} : id \in Existing("project")} :
       NewRowOf(q, "workflow_create", "workflow", NewWorkflow(p), "version")
  /\ UNCHANGED rows

InsertWorkflow(q) == InsertRow(q, {"workflow_create"}, "workflow")

\* The first version; its foreign key wants the workflow.
InsertVersion(q) ==
  /\ At(q, {"workflow_create"}, "version")
  /\ IF job[q].row \in Alive("workflow")
     THEN rows' = [rows EXCEPT ![job[q].row].versions = 1] /\ Goes(q, "save")
     ELSE Ends(q, "failed") /\ UNCHANGED rows

\* save() of current_version = 1 inserts a row that is not found.
SaveWorkflow(q) ==
  /\ At(q, {"workflow_create"}, "save")
  /\ rows' = [rows EXCEPT ![job[q].row] =
       [(IF job[q].row \in Alive("workflow") THEN @ ELSE job[q].next) EXCEPT !.current = 1]]
  /\ Goes(q, "audit")

AuditWorkflow(q) ==
  /\ At(q, {"workflow_create"}, "audit")
  /\ IF job[q].row \in Alive("workflow")
     THEN rows' = [rows EXCEPT ![job[q].row].audited = TRUE] /\ Goes(q, "ok")
     ELSE Ends(q, "failed") /\ UNCHANGED rows

-------------------------------------------------------------------------------
\* The row of a workflow with a new link.
Shared(row, token, expires, max) ==
  [row EXCEPT !.token = token, !.views = 0,
              !.expires = IF expires = "never" THEN @ ELSE expires,
              !.max = IF max = {} THEN @ ELSE max]

\* createShare(): one UPDATE, which skips what is undefined: without a limit or an expiry
\* of its own the new link has those of the link before.
CreateShare(q) ==
  \E w \in Alive("workflow"), expires \in {"never", "later"}, max \in ViewLimits :
    /\ Begins(q, Answered("share", "ok"))
    /\ rows' = [rows EXCEPT ![w] = Shared(@, q, expires, max)]

\* A viewer more than the limit says.
ViewableOnceMore(row) ==
  row.expires # "past" /\ \A n \in row.max : n = 0 \/ row.views <= n

\* A limit of 0 is no limit.
Viewable(row) == row.expires # "past" /\ \A n \in row.max : n = 0 \/ row.views < n

\* getSharedWorkflow(): found and checked, then counted by a statement of its own.
ViewShared(q) ==
  /\ \E t \in {x \in Requests : job[x].kind = "share"} :
       LET found == {w \in Alive("workflow") : rows[w].token = t}
       IN IF \E w \in found : Viewable(rows[w])
          THEN \E w \in found :
                 Begins(q, [Copy("view", NoProcess, w, rows[w], "ok") EXCEPT !.phase = "count"])
          ELSE Begins(q, Answered("view", "refused"))
  /\ UNCHANGED rows

CountView(q) ==
  /\ At(q, {"view"}, "count")
  /\ rows' = IF job[q].row \in Alive("workflow")
             THEN [rows EXCEPT ![job[q].row].views = @ + 1] ELSE rows
  /\ Goes(q, "ok")

\* The day or the week of a link is over.
LinkExpires ==
  /\ \E w \in Alive("workflow") : /\ rows[w].expires = "later"
                                  /\ rows' = [rows EXCEPT ![w].expires = "past"]
  /\ UNCHANGED requestVars

ProjectNext ==
  \/ \E q \in Requests :
       \/ CreateProject(q) \/ InsertProject(q) \/ DeleteProject(q) \/ EraseProject(q)
       \/ AuditProject(q)
       \/ CreateWorkflow(q) \/ InsertWorkflow(q) \/ InsertVersion(q) \/ SaveWorkflow(q)
       \/ AuditWorkflow(q)
       \/ CreateShare(q) \/ ViewShared(q) \/ CountView(q)
       \/ job[q].kind \in ProjectKinds /\ Fails(q) /\ UNCHANGED rows
  \/ LinkExpires

\* The projects on their own, from an empty database of n rows a table.
ProjectInit == RequestInit /\ \E n \in Nat : rows = [id \in {"project", "workflow"} \X (1..n) |-> NoRow]
ProjectSpec == ProjectInit /\ [][ProjectNext]_<<requestVars, rows>>

-------------------------------------------------------------------------------
Undisturbed(kinds) == \A q \in Requests : job[q].kind \in kinds => alone[q]

\* A link is not opened more often than its limit says, as long as no two of the
\* requests to links overlap (the count is checked and raised by two statements);
\* two projects never have one name, also when two creations race; and the version a workflow
\* names as its current one exists, whichever statement of create() failed, unless a deletion
\* of a project overlapped another request.
ProjectsSound ==
  /\ Undisturbed({"share", "view"}) =>
       \A w \in Alive("workflow") : \A n \in rows[w].max : n = 0 \/ rows[w].views <= n
  /\ \A id1, id2 \in Alive("project") : rows[id1].name = rows[id2].name => id1 = id2
  /\ Undisturbed({"project_delete"}) =>
       \A w \in Alive("workflow") : rows[w].current <= rows[w].versions

\* A project that was found is deleted with its workflows unless a call fails:
\* DELETE /projects/:id cascades.
DeletionCascades ==
  \A q \in Requests :
    job[q].kind = "project_delete" /\ job[q].phase = "failed" => faults > 0
=================================================================================
