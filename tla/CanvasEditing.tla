---------------------------- MODULE CanvasEditing ----------------------------
(***************************************************************************)
(* Editing one canvas (src/modules/canvas/services/canvas.service.ts):     *)
(* object requests and client operations append to canvas_operation and    *)
(* advance canvas.revision in one transaction that holds the row lock of   *)
(* the canvas, so each is one step that needs the lock.  A client          *)
(* operation first reads the canvas WITHOUT the lock (getOrCreateCanvas)   *)
(* and compares a replay with what it read; that read is a step of its     *)
(* own.  The constraints of the table (migrations AddCanvasTables and      *)
(* AddCanvasAiPreviewPersistence) decide whether the insert commits.       *)
(* A refused request changes nothing and is left out where its answer does *)
(* not matter.                                                             *)
(***************************************************************************)
EXTENDS Integers, Sequences, FiniteSets

CONSTANTS Workspaces,   \* workspaces a canvas may be bound to
          Objects,      \* ids of canvas objects
          OpIds,        \* operation ids chosen by clients
          Requests,     \* concurrent createOperation requests
          MaxRevision,  \* bound on the revision
          NoWorkspace, NoObject, ServerId, Free

ASSUME CanvasAssumption ==
  /\ MaxRevision \in Nat
  /\ NoWorkspace \notin Workspaces /\ NoObject \notin Objects /\ ServerId \notin OpIds

VARIABLES
  revision,     \* canvas.revision
  workspace,    \* canvas.workspace_id
  objects,      \* [Objects -> Nat] canvas_object: revision of the last change, 0 no row
  log,          \* the rows of canvas_operation
  past,         \* history: past[r + 1] is objects at revision r
  lock,         \* holder of the row lock of the canvas between steps, or Free
  request,      \* [Requests -> Request] createOperation requests
  undeleted     \* history: objects whose deletion ended in an error

editVars == <<revision, workspace, objects, log, past, lock, request, undeleted>>

NoRevision == -1     \* client_revision IS NULL
Operation == [seq : 1..MaxRevision, id : OpIds \cup {ServerId},
              object : Objects \cup {NoObject},
              org : BOOLEAN,                    \* organization_id IS NOT NULL
              ws : Workspaces \cup {NoWorkspace}, base : NoRevision..MaxRevision]

Answers == {"none", "accepted", "replayed", "id_conflict", "stale", "refused"}
Request == [open : BOOLEAN, id : OpIds \cup {ServerId}, base : 0..MaxRevision,
            object : Objects \cup {NoObject}, seen : Workspaces \cup {NoWorkspace},
            answer : Answers]
NoRequest == [open |-> FALSE, id |-> ServerId, base |-> 0, object |-> NoObject,
              seen |-> NoWorkspace, answer |-> "none"]

\* The ranges of the canvas row, the log and the requests' places.
EditTypeOK ==
  /\ revision \in 0..MaxRevision
  /\ workspace \in Workspaces \cup {NoWorkspace}
  /\ objects \in [Objects -> 0..MaxRevision]
  /\ log \subseteq Operation
  /\ past \in Seq([Objects -> 0..MaxRevision])
  /\ request \in [Requests -> Request]
  /\ undeleted \subseteq Objects

EditInit ==
  /\ revision = 0
  /\ workspace = NoWorkspace
  /\ objects = [o \in Objects |-> 0]
  /\ log = {}
  /\ past = <<objects>>
  /\ lock = Free
  /\ request = [r \in Requests |-> NoRequest]
  /\ undeleted = {}

-------------------------------------------------------------------------------
\* The constraints an inserted operation has to meet when the objects are objs.
RowAccepted(op, objs) ==
  /\ op.object # NoObject => objs[op.object] # 0
  /\ \/ ~op.org /\ op.ws = NoWorkspace /\ op.base = NoRevision
     \/ op.org /\ op.ws # NoWorkspace /\ op.base # NoRevision
  /\ op.id # ServerId => \A other \in log : other.id # op.id

\* Insert the operation, save the canvas with the next revision, commit.
Commit(op, objs) ==
  /\ RowAccepted(op, objs)
  /\ log' = log \cup {op}
  /\ objects' = objs
  /\ past' = past \o <<objs>>

Advance(op) == revision' = op.seq

\* appendOperationWithLockedCanvas.
ServerOperation(o) ==
  [seq |-> revision + 1, id |-> ServerId, object |-> o,
   org |-> workspace # NoWorkspace, ws |-> workspace,
   base |-> IF workspace # NoWorkspace THEN revision ELSE NoRevision]

EditObject(o) ==
  LET op == ServerOperation(o)
  IN /\ lock = Free /\ revision < MaxRevision
     /\ Commit(op, [objects EXCEPT ![o] = revision + 1])
     /\ Advance(op)
     /\ UNCHANGED <<workspace, lock, request, undeleted>>

CreateObject(o) == objects[o] = 0 /\ EditObject(o)
UpdateObject(o) == objects[o] # 0 /\ EditObject(o)
MoveObject(o)   == objects[o] # 0 /\ EditObject(o)

\* deleteObject removes the row and then inserts an operation that refers to it;
\* an insert the constraints refuse rolls the deletion back.
DeleteObject(o) ==
  LET op   == ServerOperation(o)
      rest == [objects EXCEPT ![o] = 0]
  IN /\ lock = Free /\ revision < MaxRevision
     /\ objects[o] # 0
     /\ IF RowAccepted(op, rest)
        THEN Commit(op, rest) /\ Advance(op) /\ UNCHANGED undeleted
        ELSE /\ undeleted' = undeleted \cup {o}
             /\ UNCHANGED <<revision, objects, log, past>>
     /\ UNCHANGED <<workspace, lock, request>>

-------------------------------------------------------------------------------
(* createOperation *)

\* A client sends, or sends again, an operation it based on a revision it knows.
ReadCanvas(r) ==
  /\ ~request[r].open /\ request[r].answer = "none"
  /\ \E id \in OpIds, base \in 0..revision, o \in Objects \cup {NoObject} :
       request' = [request EXCEPT ![r] =
         [open |-> TRUE, id |-> id, base |-> base, object |-> o, seen |-> workspace,
          answer |-> "none"]]
  /\ UNCHANGED <<revision, workspace, objects, log, past, lock, undeleted>>

Answer(r, a) == request' = [request EXCEPT ![r].open = FALSE, ![r].answer = a]

\* Comparing sequence_number with client_revision itself.
SameLogicalOperationOffByOne(op, q) ==
  /\ op.object = q.object
  /\ op.seq = q.base /\ op.base = q.base
  /\ op.ws = q.seen

\* The logged operation is compared with the request; the workspace compared is
\* the one read before the lock.
SameLogicalOperation(op, q) ==
  /\ op.object = q.object
  /\ op.seq = q.base + 1 /\ op.base = q.base
  /\ op.ws = q.seen

Logged(r) == {op \in log : op.id = request[r].id}

\* The operation id is known: a replay, or another operation under this id.
AnswerKnown(r) ==
  /\ request[r].open /\ lock = Free
  /\ \E op \in Logged(r) :
       Answer(r, IF SameLogicalOperation(op, request[r]) THEN "replayed" ELSE "id_conflict")
  /\ UNCHANGED <<revision, workspace, objects, log, past, lock, undeleted>>

\* CANVAS_REVISION_CONFLICT.
AnswerStale(r) ==
  /\ request[r].open /\ lock = Free
  /\ Logged(r) = {}
  /\ request[r].base # revision
  /\ Answer(r, "stale")
  /\ UNCHANGED <<revision, workspace, objects, log, past, lock, undeleted>>

ClientOperation(q) ==
  [seq |-> revision + 1, id |-> q.id, object |-> q.object,
   org |-> TRUE, ws |-> workspace, base |-> q.base]

\* The object is not of this canvas, or the constraints refuse the row: an
\* operation on a canvas without workspace never commits.
AnswerRefused(r) ==
  /\ request[r].open /\ lock = Free
  /\ Logged(r) = {} /\ request[r].base = revision
  /\ revision < MaxRevision
  /\ ~RowAccepted(ClientOperation(request[r]), objects)
  /\ Answer(r, "refused")
  /\ UNCHANGED <<revision, workspace, objects, log, past, lock, undeleted>>

\* createOperation counting from the revision the client knows.
AcceptFromCopy(r) ==
  LET op == [ClientOperation(request[r]) EXCEPT !.seq = request[r].base + 1]
  IN /\ request[r].open /\ lock = Free /\ revision < MaxRevision
     /\ Logged(r) = {}
     /\ Commit(op, objects)
     /\ Advance(op)
     /\ Answer(r, "accepted")
     /\ UNCHANGED <<workspace, lock, undeleted>>

Accept(r) ==
  LET op == ClientOperation(request[r])
  IN /\ request[r].open /\ lock = Free /\ revision < MaxRevision
     /\ Logged(r) = {} /\ request[r].base = revision
     /\ Commit(op, objects)
     /\ Advance(op)
     /\ Answer(r, "accepted")
     /\ UNCHANGED <<workspace, lock, undeleted>>

-------------------------------------------------------------------------------
EditNext ==
  \/ \E o \in Objects : CreateObject(o) \/ UpdateObject(o) \/ MoveObject(o) \/ DeleteObject(o)
  \/ \E r \in Requests : ReadCanvas(r) \/ AnswerKnown(r) \/ AnswerStale(r)
                           \/ AnswerRefused(r) \/ Accept(r)

-------------------------------------------------------------------------------
(***************************************************************************)
(* Properties                                                              *)
(***************************************************************************)

\* docs/implementation/ai-integration/PHASE_04_CANVAS_SNAPSHOT_AUDIT.md:
\* "Append-only operation log with monotonically increasing sequence numbers".
\* The log is gapless and free of duplicates, and canvas.revision is its length,
\* whichever requests race for the canvas.
LogIsDense ==
  /\ {op.seq : op \in log} = 1..revision
  /\ Cardinality(log) = revision

\* A request is told its operation id belongs to another operation only if that
\* is so, or if the request read the canvas before it was bound to a workspace.
RetryIsRecognised ==
  \A r \in Requests :
    request[r].answer = "id_conflict" =>
      \/ request[r].seen = NoWorkspace
      \/ \E op \in Logged(r) : op.object # request[r].object \/ op.base # request[r].base

\* docs/DEV3_INTEGRATION_SUMMARY.md: "DELETE /canvas/objects/:objectId - Delete
\* object".  The deletion of an object that exists does not end in an error.
DeletionTakesEffect == undeleted = {}
===============================================================================
