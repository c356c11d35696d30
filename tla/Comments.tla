------------------------------- MODULE Comments -------------------------------
(***************************************************************************)
(* Comments on a workflow and the approval of its elements                 *)
(* (src/modules/comments/services/comments.service.ts).  A deleted comment *)
(* is a resolved one whose note says so.  Approvals are flags inside       *)
(* elements_json of the newest version: both approvals read that array and *)
(* write it back whole.                                                    *)
(***************************************************************************)
EXTENDS Tables

CONSTANTS Callers,     \* users: [id, role]
          Texts,       \* contents of comments and notes of resolutions
          Elements,    \* elements of the workflow
          MaxVersions  \* bound: versions of the workflow

VARIABLE approved   \* <<approved elements of version 1, of version 2, ...>>

Authors   == {"reviewer", "business_analyst", "process_owner", "admin"}
Injectors == Authors \ {"reviewer"}

CommentKinds == {"comment_create", "comment_reply", "comment_update", "comment_delete",
                 "comment_resolve", "comment_assign", "comment_inject"}
ApprovalKinds == {"approve", "bulk_approve"}

NewComment(author, text, parent) ==
  [author |-> author, content |-> text, resolved |-> FALSE, note |-> {}, by |-> {},
   assigned |-> {}, parent |-> parent]

Comment1 == <<"comment", 1>>
CommentsInit == approved = <<{}>>

Insertion(kind, next) ==
  [kind |-> kind, at |-> NoProcess, phase |-> "insert", row |-> Comment1, next |-> next,
   dirty |-> {}, then |-> "audit"]

CreateComment(q) ==
  /\ \E c \in Callers, t \in Texts :
       Begins(q, IF c.role \in Authors
                 THEN Insertion("comment_create", NewComment(c.id, t, {}))
                 ELSE Answered("comment_create", "refused"))
  /\ UNCHANGED <<rows, approved>>

CreateReply(q) ==
  /\ \E c \in Callers, t \in Texts, id \in Existing("comment") :
       Begins(q, IF c.role \in Authors
                 THEN Insertion("comment_reply", NewComment(c.id, t, {id}))
                 ELSE Answered("comment_reply", "refused"))
  /\ UNCHANGED <<rows, approved>>

EditComment(q, kind, id, allowed, next) ==
  Edits(q, kind, NoProcess, id, allowed, next, "audit") /\ UNCHANGED <<rows, approved>>

\* updateComment() that reopens the comment.
UpdateReopens(q) ==
  \E c \in Callers, t \in Texts, id \in Existing("comment") :
    EditComment(q, "comment_update", id, c.id = rows[id].author \/ c.role = "admin",
                [rows[id] EXCEPT !.content = t, !.resolved = FALSE])

UpdateComment(q) ==
  \E c \in Callers, t \in Texts, id \in Existing("comment") :
    EditComment(q, "comment_update", id, c.id = rows[id].author \/ c.role = "admin",
                [rows[id] EXCEPT !.content = t])

DeleteComment(q) ==
  \E c \in Callers, id \in Existing("comment") :
    EditComment(q, "comment_delete", id, c.id = rows[id].author \/ c.role = "admin",
                [rows[id] EXCEPT !.resolved = TRUE, !.note = {"deleted"}, !.by = {c.id}])

\* Anyone may resolve, with a note; a comment resolved or deleted before is resolved again.
ResolveComment(q) ==
  \E c \in Callers, t \in Texts \cup {""}, id \in Existing("comment") :
    EditComment(q, "comment_resolve", id, t # "",
                [rows[id] EXCEPT !.resolved = TRUE, !.note = {t}, !.by = {c.id}])

AssignComment(q) ==
  \E c, assignee \in Callers, id \in Existing("comment") :
    EditComment(q, "comment_assign", id,
                c.id = rows[id].author \/ c.role \in {"admin", "process_owner"},
                [rows[id] EXCEPT !.assigned = {assignee.id}])

\* injectToAi(): the query for the session asks for the relation 'userId', which is a
\* column; TypeORM throws, and no execution, event or message follows.
InjectToAi(q) ==
  /\ \E c \in Callers : Existing("comment") # {} /\
       Begins(q, Answered("comment_inject", IF c.role \in Injectors THEN "failed" ELSE "refused"))
  /\ UNCHANGED <<rows, approved>>

-------------------------------------------------------------------------------
(* Approvals. *)

\* The array as it was read, with the flags of targets set.
Approval(kind, targets) ==
  [kind |-> kind, at |-> NoProcess, phase |-> "store", version |-> Len(approved),
   targets |-> targets, next |-> approved[Len(approved)] \cup targets]

ApproveElement(q) ==
  /\ \E e \in Elements : Begins(q, Approval("approve", {e}))
  /\ UNCHANGED <<rows, approved>>

\* A list of elements or, without one, every element that is not approved yet.
BulkApproveElements(q) ==
  /\ \E c \in Callers, targets \in SUBSET Elements :
       Begins(q, IF c.role \in {"admin", "process_owner"} THEN Approval("bulk_approve", targets)
                 ELSE Answered("bulk_approve", "refused"))
  /\ UNCHANGED <<rows, approved>>

StoreApproval(q) ==
  /\ At(q, ApprovalKinds, "store")
  /\ approved' = [approved EXCEPT ![job[q].version] = job[q].next]
  /\ Goes(q, "audit")
  /\ UNCHANGED rows

\* A client or a result of the AI creates a version, with or without the flags of the last.
NewVersion(q) ==
  /\ Len(approved) < MaxVersions
  /\ Begins(q, Answered("new_version", "ok"))
  /\ \E flags \in {{}, approved[Len(approved)]} : approved' = Append(approved, flags)
  /\ UNCHANGED rows

-------------------------------------------------------------------------------
SaveComment(q) ==
  /\ \/ InsertRow(q, CommentKinds, "comment")
     \/ DiffRow(q, CommentKinds)
     \/ WriteRow(q, CommentKinds)
  /\ UNCHANGED approved

AuditComment(q) == AuditedRow(q, CommentKinds \cup ApprovalKinds) /\ UNCHANGED approved
CommentFails(q) ==
  job[q].kind \in CommentKinds \cup ApprovalKinds /\ Fails(q) /\ UNCHANGED <<rows, approved>>

CommentNext ==
  \E q \in Requests :
    \/ CreateComment(q) \/ CreateReply(q) \/ UpdateComment(q) \/ DeleteComment(q)
    \/ ResolveComment(q) \/ AssignComment(q) \/ InjectToAi(q) \/ SaveComment(q)
    \/ ApproveElement(q) \/ BulkApproveElements(q) \/ StoreApproval(q) \/ NewVersion(q)
    \/ AuditComment(q) \/ CommentFails(q)

\* The comments on their own, from an empty database of n rows.
CommentSpec ==
  /\ RequestInit /\ CommentsInit /\ \E n \in Nat : rows = [id \in {"comment"} \X (1..n) |-> NoRow]
  /\ [][CommentNext]_<<requestVars, rows, approved>>

\* What a reviewer decided without being disturbed.
CommentsStick ==
  \A q \in Requests :
    /\ Sticks(q, {"comment_delete", "comment_resolve"}, {"resolved"})
    /\ HasWritten(q, ApprovalKinds) /\ alone[q] => job[q].targets \subseteq approved[job[q].version]
===============================================================================
