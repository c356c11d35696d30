---------------------------- MODULE MCCollaboration ----------------------------
(***************************************************************************)
(* Comments and approvals, documents, concepts, assets and suggestions of  *)
(* one workspace, projects with their workflows' share links, the usage of *)
(* the workspace, and the health check.  The components share no table, so *)
(* a behaviour sends its requests to one of them.                          *)
(***************************************************************************)
EXTENDS Comments, Documents, Creations, Projects, Health, Usage, TLC

vars == <<requestVars, rows, approved, docVars, healthVars, usageVars>>

Only(kinds) == \A q \in Requests : job[q].kind \in kinds \cup {"none"}

MCReviewer == [id |-> "u1", role |-> "reviewer"]
MCCallers  == {MCReviewer, [id |-> "u2", role |-> "admin"]}
MCFiles    ==
  {[name |-> "a", size |-> 2, ext |-> "text", detected |-> "none", printable |-> TRUE],
   [name |-> "a", size |-> 3, ext |-> "pdf", detected |-> "pdf", printable |-> FALSE],
   [name |-> "b", size |-> 1, ext |-> "pdf", detected |-> "none", printable |-> TRUE]}

MCViewLimits == {{}, {0}, {1}}

TableNames == {"comment", "document", "concept", "asset", "suggestion", "project", "workflow"}

FirstRow(id) ==
  CASE id = Comment1          -> NewComment("u1", "t1", {})
    [] id = <<"project", 1>>  -> NewProject("n1")
    [] id = <<"workflow", 1>> -> [NewWorkflow({<<"project", 1>>}) EXCEPT
                                    !.versions = 1, !.current = 1, !.audited = TRUE]
    [] OTHER                  -> NoRow

Init ==
  /\ RequestInit /\ CommentsInit /\ DocsInit /\ HealthInit /\ UsageInit
  /\ rows = [id \in TableNames \X (1..3) |-> FirstRow(id)]

RequestNext ==
  \/ /\ Only(CommentKinds) \/ Only(ApprovalKinds \cup {"new_version"})
     /\ CommentNext /\ UNCHANGED docVars
  \/ Only(DocKinds \cup {"session_archive"}) /\ DocNext /\ UNCHANGED approved
  \/ Only(CreationKinds) /\ CreationNext /\ UNCHANGED <<approved, docVars>>
  \/ Only(ProjectKinds) /\ ProjectNext /\ UNCHANGED <<approved, docVars>>

NoRequests == Only({}) /\ CommentsInit /\ DocsInit

Next ==
  \/ HealthInit /\ UsageInit /\ RequestNext /\ UNCHANGED <<healthVars, usageVars>>
  \/ /\ NoRequests /\ UsageInit
     /\ HealthNext /\ UNCHANGED <<requestVars, rows, approved, docVars, usageVars>>
  \/ /\ NoRequests /\ HealthInit
     /\ UsageNext /\ UNCHANGED <<requestVars, rows, approved, docVars, healthVars>>

Spec == Init /\ [][Next]_vars

Symmetry == Permutations(Requests) \cup Permutations(Gets)

\* What a reviewer, an owner or an editor decided while no other request was at work
\* (a comment resolved or deleted, elements approved, a document deleted, a concept
\* archived, an asset approved or rejected) is never undone by later requests or by a
\* late result of a worker: every save() writes the columns of a copy.
UndisturbedDecisionsStick == CommentsStick /\ DeletionsStick /\ CreationsStick
===============================================================================
