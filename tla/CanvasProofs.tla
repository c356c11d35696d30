----------------------------- MODULE CanvasProofs -----------------------------
(***************************************************************************)
(* The operation log, the snapshots and the previews of a canvas, for any  *)
(* number of objects, operations, requests, previews, keys and faults; and *)
(* the timers of the automatic previews, for any number of canvases and    *)
(* edits and any delays.                                                   *)
(***************************************************************************)
EXTENDS CanvasPreview, PreviewCoordinator, FiniteSetTheorems, SequenceTheorems,
        FunctionTheorems, TLAPS

\* An operation of a client was made on the revision it is based on and on the workspace
\* the canvas is still bound to: the binding is never changed.
OperationOK(op) ==
  /\ op.ws \in {NoWorkspace, workspace}
  /\ op.id # ServerId => op.seq = op.base + 1 /\ op.ws # NoWorkspace

LogInv == IsFiniteSet(log) /\ LogIsDense /\ \A op \in log : OperationOK(op)

\* The history of the objects ends with the objects of the present revision.
PastInv == Len(past) = revision + 1 /\ past[revision + 1] = objects

\* What a request read before the lock is the present workspace, or none.
RequestsInv == /\ \A r \in Requests : /\ request[r].seen \in {NoWorkspace, workspace}
                                      /\ request[r].open => request[r].id # ServerId
               /\ RetryIsRecognised

\* A snapshot belongs to the key it is derived from; versions are counted.
SnapshotsInv ==
  /\ IsFiniteSet(snapshots)
  /\ \A s \in snapshots : /\ s.version <= Cardinality(snapshots) /\ s.rev <= revision
                          /\ tasks[s.id].status # "absent"
  /\ \A s, n \in snapshots : s.id = n.id => s = n
  /\ SnapshotIsRevision /\ LineageGoesForward /\ BytesLostOnlyByOwnKey

TasksInv ==
  /\ \A k \in Keys : tasks[k].status # "absent" =>
       /\ tasks[k].rev <= revision
       /\ \E s \in snapshots : s.id = tasks[k].snapshot /\ s.rev = tasks[k].rev
  /\ ActiveIsCurrent

\* While a request holds the canvas lock, what it froze is still so.
PreviewOK(p) ==
  LET k == preview[p].key
  IN /\ preview[p].phase \in {"waiting", "frozen", "cleanup"} => k \in Keys
     /\ preview[p].phase = "frozen" =>
          /\ lock = p
          /\ workspace \in {NoWorkspace, KeyWorkspace(k)}
          /\ tasks[k].status = "absent"
          /\ preview[p].put = (Current = {}) /\ preview[p].version = NextVersion
          /\ preview[p].put => <<k, preview[p].version>> \in store \/ k \in failed
     /\ preview[p].phase = "cleanup" => k \in failed

CanvasInv ==
  /\ TypeOK
  /\ LogInv /\ PastInv /\ RequestsInv
  /\ SnapshotsInv /\ TasksInv
  /\ \A p \in Previews : PreviewOK(p)

-------------------------------------------------------------------------------
(* Editing.  Objects and operations change under the lock, which nobody    *)
(* holds then, so no preview is frozen.                                    *)

\* A request that was not answered "id_conflict" now, and is the same request otherwise.
SameRequests ==
  /\ request' \in [Requests -> Request]
  /\ \A r \in Requests :
       /\ request'[r].seen = request[r].seen /\ request'[r].id = request[r].id
       /\ request'[r].object = request[r].object /\ request'[r].base = request[r].base
       /\ request'[r].open => request[r].open
       /\ request'[r].answer = "id_conflict" => request[r].answer = "id_conflict"

LEMMA NobodyFrozen ==
  ASSUME CanvasInv, lock = Free, NEW p \in Previews PROVE preview[p].phase # "frozen"
BY PreviewAssumption DEF CanvasInv, PreviewOK

\* appendOperationWithLockedCanvas and createOperation: the next operation is logged.
LEMMA AppendKeeps ==
  ASSUME CanvasInv, lock = Free, revision < MaxRevision,
         NEW op \in Operation, op.seq = revision + 1, OperationOK(op),
         NEW objs \in [Objects -> 0..MaxRevision],
         Commit(op, objs), Advance(op), SameRequests,
         UNCHANGED <<workspace, lock, undeleted, previewVars>>
  PROVE  CanvasInv'
<1> USE DEF CanvasInv
<1>1. /\ log' = log \cup {op} /\ objects' = objs /\ past' = past \o <<objs>>
      /\ revision' = revision + 1 /\ revision \in Nat /\ revision' \in 0..MaxRevision
      /\ UNCHANGED <<workspace, lock, undeleted, snapshots, tasks, store, preview, faults,
                     failed, revived>>
  BY CanvasAssumption DEF Commit, Advance, TypeOK, EditTypeOK, previewVars
<1>2. /\ past' \in Seq([Objects -> 0..MaxRevision]) /\ Len(past') = revision + 2
      /\ past'[revision + 2] = objs
      /\ \A i \in 1..revision + 1 : past'[i] = past[i]
  <2> DEFINE Layout == [Objects -> 0..MaxRevision]
             one == <<objs>>
  <2>1. /\ past \in Seq(Layout) /\ one \in Seq(Layout)
        /\ Len(past) = revision + 1 /\ Len(one) = 1 /\ one[1] = objs
    BY DEF TypeOK, EditTypeOK, PastInv
  <2> HIDE DEF Layout, one
  <2>2. /\ past \o one \in Seq(Layout) /\ Len(past \o one) = Len(past) + Len(one)
        /\ \A i \in 1 .. Len(past) + Len(one) :
             (past \o one)[i] = IF i <= Len(past) THEN past[i] ELSE one[i - Len(past)]
    BY <2>1, ConcatProperties
  <2>3. past' = past \o one
    BY <1>1 DEF one
  <2>4. /\ past' \in Seq(Layout) /\ Len(past') = revision + 2
        /\ \A i \in 1 .. revision + 2 :
             past'[i] = IF i <= revision + 1 THEN past[i] ELSE one[i - (revision + 1)]
    BY <1>1, <2>1, <2>2, <2>3
  <2>5. past'[revision + 2] = objs
    <3>1. revision + 2 \in 1 .. revision + 2 /\ ~(revision + 2 <= revision + 1)
          /\ (revision + 2) - (revision + 1) = 1
      BY <1>1
    <3> QED BY <2>1, <2>4, <3>1
  <2>6. \A i \in 1 .. revision + 1 : past'[i] = past[i]
    <3>1. \A i \in 1 .. revision + 1 : i \in 1 .. revision + 2 /\ i <= revision + 1
      BY <1>1
    <3> QED BY <2>4, <3>1
  <2> QED BY <2>4, <2>5, <2>6 DEF Layout
<1>3. TypeOK'
  BY <1>1, <1>2 DEF TypeOK, EditTypeOK, SameRequests
<1>4. LogInv'
  <2>1. op \notin log
    <3>1. op \in log => op.seq \in {x.seq : x \in log}
      OBVIOUS
    <3>2. {x.seq : x \in log} = 1 .. revision
      BY DEF LogInv, LogIsDense
    <3>3. op.seq \notin 1 .. revision
      BY <1>1
    <3> QED BY <3>1, <3>2, <3>3
  <2>2. IsFiniteSet(log') /\ Cardinality(log') = revision + 1
    BY <1>1, <2>1, FS_AddElement DEF LogInv, LogIsDense
  <2>3. {x.seq : x \in log'} = 1..revision'
    BY <1>1 DEF LogInv, LogIsDense
  <2> QED BY <1>1, <2>2, <2>3 DEF LogInv, LogIsDense, OperationOK
<1>5. PastInv'
  BY <1>1, <1>2 DEF PastInv
<1>6. RequestsInv'
  BY <1>1 DEF RequestsInv, SameRequests, RetryIsRecognised, Logged
<1>7. SnapshotsInv'
  <2>1. SnapshotIsRevision'
    <3>1. \A s \in snapshots : s.rev + 1 \in 1..revision + 1
      BY <1>1 DEF SnapshotsInv, TypeOK, Snapshot
    <3> QED BY <1>1, <1>2, <3>1 DEF SnapshotsInv, SnapshotIsRevision
  <2>2. \A s \in snapshots : s.rev <= revision'
    BY <1>1 DEF SnapshotsInv, TypeOK, Snapshot
  <2> QED BY <1>1, <2>1, <2>2 DEF SnapshotsInv, LineageGoesForward, BytesLostOnlyByOwnKey
<1>8. TasksInv'
  <2>1. \A k \in Keys : tasks[k].rev \in Nat
    BY DEF TypeOK, Task
  <2> QED BY <1>1, <2>1 DEF TasksInv, ActiveIsCurrent, Active
<1>9. ASSUME NEW p \in Previews PROVE PreviewOK(p)'
  BY <1>1, NobodyFrozen DEF PreviewOK
<1> QED BY <1>3, <1>4, <1>5, <1>6, <1>7, <1>8, <1>9

\* The edits of the server: createObject, updateObject, moveObject, deleteObject.
LEMMA ObjectStepKeeps ==
  ASSUME CanvasInv, NEW o \in Objects,
         CreateObject(o) \/ UpdateObject(o) \/ MoveObject(o) \/ DeleteObject(o),
         UNCHANGED previewVars
  PROVE  CanvasInv'
<1> USE DEF CanvasInv
<1> DEFINE op == ServerOperation(o)
<1>1. /\ lock = Free /\ revision < MaxRevision /\ revision \in Nat
      /\ UNCHANGED <<workspace, lock, request>> /\ SameRequests
  BY DEF CreateObject, UpdateObject, MoveObject, DeleteObject, EditObject, TypeOK, EditTypeOK,
         SameRequests
<1>2. op \in Operation /\ op.seq = revision + 1 /\ OperationOK(op)
  BY <1>1, CanvasAssumption
     DEF ServerOperation, Operation, OperationOK, TypeOK, EditTypeOK, NoRevision
<1>3. [objects EXCEPT ![o] = revision + 1] \in [Objects -> 0..MaxRevision]
      /\ [objects EXCEPT ![o] = 0] \in [Objects -> 0..MaxRevision]
  BY <1>1, CanvasAssumption DEF TypeOK, EditTypeOK
<1>4. CASE EditObject(o)
  BY <1>1, <1>2, <1>3, <1>4, AppendKeeps DEF EditObject
<1>5. CASE DeleteObject(o) /\ RowAccepted(op, [objects EXCEPT ![o] = 0])
  BY <1>1, <1>2, <1>3, <1>5, AppendKeeps DEF DeleteObject
<1>6. CASE DeleteObject(o) /\ ~RowAccepted(op, [objects EXCEPT ![o] = 0])
  <2>1. /\ UNCHANGED <<revision, workspace, objects, log, past, lock, request, snapshots, tasks,
                       store, preview, faults, failed, revived>>
        /\ undeleted' = undeleted \cup {o}
    BY <1>6 DEF DeleteObject, previewVars
  <2> QED BY <2>1 DEF TypeOK, EditTypeOK, LogInv, LogIsDense, OperationOK, PastInv, RequestsInv,
                      RetryIsRecognised, Logged, SnapshotsInv, SnapshotIsRevision,
                      LineageGoesForward, BytesLostOnlyByOwnKey, TasksInv, ActiveIsCurrent,
                      Active, PreviewOK, Current, NextVersion
<1> QED BY <1>4, <1>5, <1>6 DEF CreateObject, UpdateObject, MoveObject, DeleteObject

\* Whatever is only read or answered leaves everything but the requests as it is.
LEMMA AnswerKeeps ==
  ASSUME CanvasInv, UNCHANGED <<revision, workspace, objects, log, past, lock, undeleted>>,
         UNCHANGED previewVars, request' \in [Requests -> Request], RequestsInv'
  PROVE  CanvasInv'
BY DEF CanvasInv, previewVars, TypeOK, EditTypeOK, LogInv, LogIsDense, OperationOK, PastInv,
       SnapshotsInv, SnapshotIsRevision, LineageGoesForward, BytesLostOnlyByOwnKey, TasksInv,
       ActiveIsCurrent, Active, PreviewOK, Current, NextVersion

LEMMA ReadKeeps ==
  ASSUME CanvasInv, NEW r \in Requests, ReadCanvas(r), UNCHANGED previewVars
  PROVE  CanvasInv'
<1>1. PICK id \in OpIds, base \in 0..revision, o \in Objects \cup {NoObject} :
        request' = [request EXCEPT ![r] =
          [open |-> TRUE, id |-> id, base |-> base, object |-> o, seen |-> workspace,
           answer |-> "none"]]
  BY DEF ReadCanvas
<1>2. UNCHANGED <<revision, workspace, objects, log, past, lock, undeleted>>
  BY DEF ReadCanvas
<1>3. request \in [Requests -> Request] /\ workspace \in Workspaces \cup {NoWorkspace}
      /\ revision \in 0..MaxRevision /\ MaxRevision \in Nat
  BY CanvasAssumption DEF CanvasInv, TypeOK, EditTypeOK
<1>4. request' \in [Requests -> Request]
  <2>1. base \in 0..MaxRevision
    BY <1>3
  <2> QED BY <1>1, <1>3, <2>1 DEF Request, Answers
<1>5. RequestsInv'
  <2>1. RequestsInv
    BY DEF CanvasInv
  <2>2. /\ request'[r].answer # "id_conflict" /\ request'[r].seen = workspace
        /\ request'[r].id # ServerId
    BY <1>1, <1>3, CanvasAssumption
  <2>3. \A q \in Requests \ {r} : request'[q] = request[q]
    BY <1>1, <1>3
  <2>4. ASSUME NEW q \in Requests
        PROVE  /\ request'[q].seen \in {NoWorkspace, workspace'}
               /\ request'[q].open => request'[q].id # ServerId
    BY <1>2, <2>1, <2>2, <2>3 DEF RequestsInv
  <2>5. RetryIsRecognised'
    BY <1>2, <2>1, <2>2, <2>3 DEF RequestsInv, RetryIsRecognised, Logged
  <2> QED BY <2>4, <2>5 DEF RequestsInv
<1> QED BY <1>2, <1>4, <1>5, AnswerKeeps

\* The answer a is honest about the operation logged under the request's id.
LEMMA HonestAnswerKeeps ==
  ASSUME CanvasInv, NEW r \in Requests, NEW a \in Answers, Answer(r, a),
         a = "id_conflict" =>
           \/ request[r].seen = NoWorkspace
           \/ \E op \in Logged(r) : op.object # request[r].object \/ op.base # request[r].base,
         UNCHANGED <<revision, workspace, objects, log, past, lock, undeleted, previewVars>>
  PROVE  CanvasInv'
<1>1. request \in [Requests -> Request]
  BY DEF CanvasInv, TypeOK, EditTypeOK
<1>2. /\ request'[r] = [request[r] EXCEPT !.open = FALSE, !.answer = a]
      /\ \A q \in Requests \ {r} : request'[q] = request[q]
  BY <1>1 DEF Answer
<1>3. request' \in [Requests -> Request]
  BY <1>1 DEF Answer, Request
<1>4. /\ request'[r].id = request[r].id /\ request'[r].object = request[r].object
      /\ request'[r].base = request[r].base /\ request'[r].seen = request[r].seen
      /\ request'[r].answer = a /\ ~request'[r].open
  BY <1>1, <1>2 DEF Request
<1>5. RequestsInv'
  <2>1. RequestsInv
    BY DEF CanvasInv
  <2>2. ASSUME NEW q \in Requests
        PROVE  /\ request'[q].seen \in {NoWorkspace, workspace'}
               /\ request'[q].open => request'[q].id # ServerId
    BY <1>2, <1>4, <2>1 DEF RequestsInv
  <2>3. ASSUME NEW q \in Requests, request'[q].answer = "id_conflict"
        PROVE  \/ request'[q].seen = NoWorkspace
               \/ \E op \in Logged(q)' : \/ op.object # request'[q].object
                                         \/ op.base # request'[q].base
    <3>1. Logged(q)' = Logged(q)
      BY <1>2, <1>4 DEF Logged
    <3>2. CASE q = r
      BY <1>4, <2>3, <3>1, <3>2
    <3>3. CASE q # r
      BY <1>2, <2>1, <2>3, <3>1, <3>3 DEF RequestsInv, RetryIsRecognised
    <3> QED BY <3>2, <3>3
  <2>4. RetryIsRecognised'
    BY <2>3 DEF RetryIsRecognised
  <2> QED BY <2>2, <2>4 DEF RequestsInv
<1> QED BY <1>3, <1>5, AnswerKeeps

LEMMA AnswerKnownKeeps ==
  ASSUME CanvasInv, NEW r \in Requests, AnswerKnown(r), UNCHANGED previewVars
  PROVE  CanvasInv'
<1> DEFINE q == request[r]
<1>1. PICK op \in Logged(r) :
        Answer(r, IF SameLogicalOperation(op, q) THEN "replayed" ELSE "id_conflict")
  BY DEF AnswerKnown
<1>2. /\ q.open /\ op \in log /\ op.id = q.id
      /\ UNCHANGED <<revision, workspace, objects, log, past, lock, undeleted>>
  BY DEF AnswerKnown, Logged
<1>3. q.id # ServerId /\ q.seen \in {NoWorkspace, workspace}
  BY <1>2 DEF CanvasInv, RequestsInv
<1>4. op.seq = op.base + 1 /\ op.ws = workspace /\ workspace # NoWorkspace
  BY <1>2, <1>3 DEF CanvasInv, LogInv, OperationOK
<1>5. SameLogicalOperation(op, q)
      \/ q.seen = NoWorkspace \/ op.object # q.object \/ op.base # q.base
  BY <1>3, <1>4 DEF SameLogicalOperation
<1>6. CASE SameLogicalOperation(op, q)
  <2>1. Answer(r, "replayed") /\ "replayed" \in Answers
    BY <1>1, <1>6 DEF Answers
  <2> QED BY <1>2, <2>1, HonestAnswerKeeps
<1>7. CASE ~SameLogicalOperation(op, q)
  <2>1. Answer(r, "id_conflict") /\ "id_conflict" \in Answers
    BY <1>1, <1>7 DEF Answers
  <2> QED BY <1>1, <1>2, <1>5, <1>7, <2>1, HonestAnswerKeeps
<1> QED BY <1>6, <1>7

LEMMA AcceptKeeps ==
  ASSUME CanvasInv, NEW r \in Requests, Accept(r), UNCHANGED previewVars
  PROVE  CanvasInv'
<1> DEFINE op == ClientOperation(request[r])
<1>1. /\ request \in [Requests -> Request] /\ workspace \in Workspaces \cup {NoWorkspace}
      /\ revision \in 0..MaxRevision /\ MaxRevision \in Nat
      /\ objects \in [Objects -> 0..MaxRevision]
  BY CanvasAssumption DEF CanvasInv, TypeOK, EditTypeOK
<1>2. /\ lock = Free /\ revision < MaxRevision /\ request[r].base = revision
      /\ Commit(op, objects) /\ Advance(op) /\ Answer(r, "accepted")
      /\ UNCHANGED <<workspace, lock, undeleted>>
  BY DEF Accept
<1>3. op \in Operation /\ op.seq = revision + 1
  BY <1>1, <1>2 DEF ClientOperation, Operation, Request, NoRevision
<1>4. OperationOK(op)
  <2>1. op.org /\ op.ws = workspace /\ op.base = revision /\ op.seq = revision + 1
    BY <1>2 DEF ClientOperation
  <2>2. op.ws # NoWorkspace
    BY <1>2, <2>1 DEF Commit, RowAccepted
  <2> QED BY <2>1, <2>2 DEF OperationOK
<1>5. SameRequests
  <2>1. request' \in [Requests -> Request]
    <3>1. [request[r] EXCEPT !.open = FALSE, !.answer = "accepted"] \in Request
      BY <1>1 DEF Request, Answers
    <3> QED BY <1>1, <1>2, <3>1 DEF Answer
  <2>2. /\ request'[r] = [request[r] EXCEPT !.open = FALSE, !.answer = "accepted"]
        /\ \A q \in Requests \ {r} : request'[q] = request[q]
    BY <1>1, <1>2 DEF Answer
  <2>3. request[r] \in Request
    BY <1>1
  <2>4. /\ request'[r].id = request[r].id /\ request'[r].object = request[r].object
        /\ request'[r].base = request[r].base /\ request'[r].seen = request[r].seen
        /\ request'[r].answer = "accepted" /\ ~request'[r].open
    BY <2>2, <2>3 DEF Request
  <2> QED BY <2>1, <2>2, <2>4 DEF SameRequests
<1> QED BY <1>1, <1>2, <1>3, <1>4, <1>5, AppendKeeps

LEMMA EditKeeps ==
  ASSUME CanvasInv, EditNext, UNCHANGED previewVars PROVE CanvasInv'
<1>1. CASE \E o \in Objects : CreateObject(o) \/ UpdateObject(o) \/ MoveObject(o)
                              \/ DeleteObject(o)
  BY <1>1, ObjectStepKeeps
<1>2. ASSUME NEW r \in Requests, AnswerStale(r) \/ AnswerRefused(r) PROVE CanvasInv'
  <2>1. PICK a \in {"stale", "refused"} : Answer(r, a)
    BY <1>2 DEF AnswerStale, AnswerRefused
  <2>2. UNCHANGED <<revision, workspace, objects, log, past, lock, undeleted>>
    BY <1>2 DEF AnswerStale, AnswerRefused
  <2>3. a \in Answers /\ a # "id_conflict"
    BY DEF Answers
  <2> QED BY <2>1, <2>2, <2>3, HonestAnswerKeeps
<1> QED BY <1>1, <1>2, ReadKeeps, AnswerKnownKeeps, AcceptKeeps DEF EditNext

-------------------------------------------------------------------------------
(* Previews.  Only the holder of the lock is frozen.                       *)

\* Binding the canvas to the workspace of a key.
LEMMA BindingKeeps ==
  ASSUME CanvasInv, workspace \in {NoWorkspace, workspace'},
         UNCHANGED <<revision, objects, log, past, request>>
  PROVE  LogInv' /\ PastInv' /\ RequestsInv'
BY DEF CanvasInv, LogInv, LogIsDense, OperationOK, PastInv, RequestsInv, RetryIsRecognised, Logged

\* The rows stay, and bytes are only deleted under a key that failed.
LEMMA BytesKeep ==
  ASSUME CanvasInv, UNCHANGED <<revision, past, snapshots, tasks, revived>>,
         failed \subseteq failed', \A b \in store \ store' : b[1] \in failed'
  PROVE  SnapshotsInv' /\ TasksInv'
<1>1. BytesLostOnlyByOwnKey'
  <2> SUFFICES ASSUME NEW s \in snapshots, <<s.id, s.version>> \notin store'
               PROVE  s.id \in failed'
    BY DEF BytesLostOnlyByOwnKey
  <2>1. <<s.id, s.version>>[1] = s.id
    OBVIOUS
  <2> QED BY <2>1 DEF CanvasInv, SnapshotsInv, BytesLostOnlyByOwnKey
<1> QED BY <1>1 DEF CanvasInv, SnapshotsInv, SnapshotIsRevision, LineageGoesForward, TasksInv,
                    ActiveIsCurrent, Active

\* Another request q, when p takes a step that frees or takes the lock only as its holder.
LEMMA OthersKeep ==
  ASSUME CanvasInv, NEW q \in Previews, preview'[q] = preview[q], failed \subseteq failed',
         \/ preview[q].phase # "frozen"
         \/ /\ UNCHANGED <<lock, workspace, revision, snapshots, tasks>>
            /\ \A b \in store \ store' : b[1] \in failed'
  PROVE  PreviewOK(q)'
<1>1. PreviewOK(q)
  BY DEF CanvasInv
<1>2. CASE preview[q].phase # "frozen"
  BY <1>1, <1>2 DEF PreviewOK
<1>3. CASE preview[q].phase = "frozen"
  <2>1. /\ UNCHANGED <<lock, workspace, revision, snapshots, tasks>>
        /\ \A b \in store \ store' : b[1] \in failed'
    BY <1>3
  <2>2. <<preview[q].key, preview[q].version>>[1] = preview[q].key
    OBVIOUS
  <2> QED BY <1>1, <2>1, <2>2 DEF PreviewOK, Current, NextVersion
<1> QED BY <1>2, <1>3

LEMMA OneFrozen ==
  ASSUME CanvasInv, NEW p \in Previews, NEW q \in Previews, p # q, lock \in {Free, p}
  PROVE  preview[q].phase # "frozen"
BY PreviewAssumption DEF CanvasInv, PreviewOK

\* A request that is answered, refused or dead; the canvas may be bound on the way.
LEMMA LeaveKeeps ==
  ASSUME CanvasInv, NEW p \in Previews, NEW a \in Keys \cup {NoKey}, Leave(p, a),
         workspace \in {NoWorkspace, workspace'}, workspace' \in Workspaces \cup {NoWorkspace},
         workspace' # workspace => lock = Free,
         lock' = lock \/ (lock = p /\ lock' = Free),
         store' \subseteq store, \A b \in store \ store' : b[1] \in failed,
         faults' \in 0..MaxFaults,
         UNCHANGED <<revision, objects, log, past, request, undeleted, snapshots, tasks, failed,
                     revived>>
  PROVE  CanvasInv'
<1>1. preview \in [Previews -> Preview]
  BY DEF CanvasInv, TypeOK
<1>2. /\ preview' = [preview EXCEPT ![p] = [preview[p] EXCEPT !.phase = "done", !.answer = a]]
      /\ preview'[p].phase = "done"
      /\ \A q \in Previews \ {p} : preview'[q] = preview[q]
  BY <1>1 DEF Leave, Preview
<1>3. TypeOK'
  <2>1. [preview[p] EXCEPT !.phase = "done", !.answer = a] \in Preview
    BY <1>1 DEF Preview
  <2> QED BY <1>1, <1>2, <2>1 DEF CanvasInv, TypeOK, EditTypeOK
<1>4. LogInv' /\ PastInv' /\ RequestsInv'
  BY BindingKeeps
<1>5. SnapshotsInv' /\ TasksInv'
  BY BytesKeep
<1>6. ASSUME NEW q \in Previews PROVE PreviewOK(q)'
  <2>1. CASE q = p
    BY <1>2, <2>1 DEF PreviewOK
  <2>2. CASE q # p /\ lock \in {Free, p}
    BY <1>2, <2>2, OneFrozen, OthersKeep
  <2>3. CASE q # p /\ lock \notin {Free, p}
    BY <1>2, <2>3, OthersKeep
  <2> QED BY <2>1, <2>2, <2>3
<1> QED BY <1>3, <1>4, <1>5, <1>6 DEF CanvasInv

LEMMA RequestPreviewKeeps ==
  ASSUME CanvasInv, NEW p \in Previews, RequestPreview(p) PROVE CanvasInv'
<1>1. PICK k \in Keys, t \in Targets :
        preview' = [preview EXCEPT ![p] =
          [NoPreview EXCEPT !.key = k, !.target = t,
            !.phase  = IF tasks[k].status # "absent" THEN "done" ELSE "waiting",
            !.answer = IF tasks[k].status # "absent" THEN k ELSE NoKey]]
  BY DEF RequestPreview
<1>2. UNCHANGED <<revision, workspace, objects, log, past, lock, request, undeleted, snapshots,
                  tasks, store, faults, failed, revived>>
  BY DEF RequestPreview, editVars
<1>3. preview \in [Previews -> Preview]
  BY DEF CanvasInv, TypeOK
<1>4. /\ preview'[p] \in Preview /\ preview'[p].key = k
      /\ preview'[p].phase \in {"waiting", "done"}
      /\ \A q \in Previews \ {p} : preview'[q] = preview[q]
      /\ preview' \in [Previews -> Preview]
  BY <1>1, <1>3 DEF NoPreview, Preview
<1>5. TypeOK'
  BY <1>2, <1>4 DEF CanvasInv, TypeOK, EditTypeOK
<1>6. LogInv' /\ PastInv' /\ RequestsInv'
  BY <1>2, BindingKeeps
<1>7. SnapshotsInv' /\ TasksInv'
  BY <1>2, BytesKeep
<1>8. ASSUME NEW q \in Previews PROVE PreviewOK(q)'
  <2>1. CASE q = p
    BY <1>4, <2>1 DEF PreviewOK
  <2>2. CASE q # p
    BY <1>2, <1>4, <2>2, OthersKeep
  <2> QED BY <2>1, <2>2
<1> QED BY <1>5, <1>6, <1>7, <1>8 DEF CanvasInv

LEMMA FreezeKeeps ==
  ASSUME CanvasInv, NEW p \in Previews, Freeze(p) PROVE CanvasInv'
<1> DEFINE k == preview[p].key
<1>1. /\ lock = Free /\ lock' = p /\ workspace \in {NoWorkspace, KeyWorkspace(k)}
      /\ preview[p].phase = "waiting" /\ Existing(p) = {}
      /\ preview' = [preview EXCEPT ![p] =
           [preview[p] EXCEPT !.phase = "frozen", !.put = (Current = {}),
                              !.version = NextVersion]]
      /\ UNCHANGED <<revision, workspace, objects, log, past, request, undeleted,
                     snapshots, tasks, faults, failed, revived>>
  BY DEF Freeze, Mine
<1>2. preview \in [Previews -> Preview] /\ k \in Keys /\ tasks[k].status = "absent"
  BY <1>1 DEF CanvasInv, TypeOK, PreviewOK, Existing
<1>3. NextVersion \in Nat
  BY FS_CardinalityType DEF CanvasInv, SnapshotsInv, NextVersion
<1>4. /\ store' \subseteq store \cup {<<k, NextVersion>>} /\ store \subseteq store'
      /\ Current = {} => <<k, NextVersion>> \in store'
  BY DEF Freeze, StoreSnapshot, Mine
<1>5. /\ preview'[p] \in Preview /\ preview'[p].key = k /\ preview'[p].phase = "frozen"
      /\ preview'[p].put = (Current = {}) /\ preview'[p].version = NextVersion
      /\ \A q \in Previews \ {p} : preview'[q] = preview[q]
      /\ preview' \in [Previews -> Preview]
  <2>1. [preview[p] EXCEPT !.phase = "frozen", !.put = (Current = {}), !.version = NextVersion]
          \in Preview
    BY <1>2, <1>3 DEF Preview
  <2>2. /\ preview' \in [Previews -> Preview]
        /\ preview'[p] = [preview[p] EXCEPT !.phase = "frozen", !.put = (Current = {}),
                                            !.version = NextVersion]
        /\ \A q \in Previews \ {p} : preview'[q] = preview[q]
    BY <1>1, <1>2, <2>1
  <2> QED BY <1>2, <2>1, <2>2 DEF Preview
<1>6. TypeOK'
  BY <1>1, <1>2, <1>3, <1>4, <1>5 DEF CanvasInv, TypeOK, EditTypeOK
<1>7. LogInv' /\ PastInv' /\ RequestsInv'
  BY <1>1, BindingKeeps
<1>8. SnapshotsInv' /\ TasksInv'
  BY <1>1, <1>4, BytesKeep
<1>9. ASSUME NEW q \in Previews PROVE PreviewOK(q)'
  <2>1. CASE q = p
    <3>1. UNCHANGED <<Current, NextVersion>>
      BY <1>1 DEF Current, NextVersion
    <3> QED BY <1>1, <1>2, <1>4, <1>5, <2>1, <3>1 DEF PreviewOK
  <2>2. CASE q # p
    BY <1>1, <1>5, <2>2, OneFrozen, OthersKeep
  <2> QED BY <2>1, <2>2
<1> QED BY <1>6, <1>7, <1>8, <1>9 DEF CanvasInv

LEMMA PersistFailsKeeps ==
  ASSUME CanvasInv, NEW p \in Previews, PersistFails(p) PROVE CanvasInv'
<1> DEFINE k == preview[p].key
           phase == IF preview[p].put THEN "cleanup" ELSE "done"
<1>1. /\ preview[p].phase = "frozen" /\ lock' = Free /\ failed' = failed \cup {k}
      /\ preview' = [preview EXCEPT ![p] = [preview[p] EXCEPT !.phase = phase]]
      /\ UNCHANGED <<revision, workspace, objects, log, past, request, undeleted,
                     snapshots, tasks, store, revived>>
  BY DEF PersistFails, Unlock, Mine
<1>2. preview \in [Previews -> Preview] /\ k \in Keys /\ lock = p
  BY <1>1 DEF CanvasInv, TypeOK, PreviewOK
<1>3. /\ preview'[p].key = k /\ preview'[p].phase \in {"cleanup", "done"}
      /\ \A q \in Previews \ {p} : preview'[q] = preview[q]
      /\ preview' \in [Previews -> Preview]
  BY <1>1, <1>2 DEF Preview
<1>4. faults' \in 0..MaxFaults
  BY PreviewAssumption DEF PersistFails, Fault, CanvasInv, TypeOK
<1>5. TypeOK'
  BY <1>1, <1>2, <1>3, <1>4 DEF CanvasInv, TypeOK, EditTypeOK
<1>6. LogInv' /\ PastInv' /\ RequestsInv'
  BY <1>1, BindingKeeps
<1>7. SnapshotsInv' /\ TasksInv'
  BY <1>1, BytesKeep
<1>8. ASSUME NEW q \in Previews PROVE PreviewOK(q)'
  <2>1. CASE q = p
    BY <1>1, <1>2, <1>3, <2>1 DEF PreviewOK
  <2>2. CASE q # p
    BY <1>1, <1>2, <1>3, <2>2, OneFrozen, OthersKeep
  <2> QED BY <2>1, <2>2
<1> QED BY <1>5, <1>6, <1>7, <1>8 DEF CanvasInv

LEMMA TaskStatusKeeps ==
  ASSUME CanvasInv, NEW k \in Keys, tasks[k].status # "absent", NEW st \in {"active", "ended"},
         tasks' = [tasks EXCEPT ![k].status = st],
         revived \subseteq revived', revived' \subseteq Keys, st = "active" => k \in revived',
         UNCHANGED <<editVars, snapshots, store, preview, faults, failed>>
  PROVE  CanvasInv'
<1>1. tasks \in [Keys -> Task]
  BY DEF CanvasInv, TypeOK
<1>2. /\ tasks' \in [Keys -> Task] /\ tasks'[k].status = st
      /\ tasks'[k].rev = tasks[k].rev /\ tasks'[k].snapshot = tasks[k].snapshot
      /\ \A j \in Keys \ {k} : tasks'[j] = tasks[j]
  BY <1>1 DEF Task
<1>3. \A j \in Keys : /\ tasks'[j].status # "absent" <=> tasks[j].status # "absent"
                      /\ tasks'[j].rev = tasks[j].rev
                      /\ tasks'[j].snapshot = tasks[j].snapshot
                      /\ tasks'[j].status = "active" /\ j \notin revived'
                           => tasks[j].status = "active" /\ j \notin revived
  BY <1>2
<1>4. UNCHANGED <<revision, workspace, objects, log, past, lock, request, undeleted>>
  BY DEF editVars
<1>5. TypeOK'
  BY <1>2, <1>4 DEF CanvasInv, TypeOK, EditTypeOK
<1>6. LogInv' /\ PastInv' /\ RequestsInv'
  BY <1>4, BindingKeeps
<1>7. SnapshotsInv'
  <2>1. \A s \in snapshots : s.id \in Keys
    BY DEF CanvasInv, TypeOK, Snapshot
  <2> QED BY <1>3, <1>4, <2>1 DEF CanvasInv, SnapshotsInv, SnapshotIsRevision,
                                  LineageGoesForward, BytesLostOnlyByOwnKey
<1>8. TasksInv'
  BY <1>3, <1>4 DEF CanvasInv, TasksInv, ActiveIsCurrent, Active
<1>9. ASSUME NEW q \in Previews PROVE PreviewOK(q)'
  <2>1. preview[q].phase = "frozen" => preview[q].key \in Keys
    BY DEF CanvasInv, PreviewOK
  <2>2. UNCHANGED <<Current, NextVersion>>
    BY <1>4 DEF Current, NextVersion
  <2> QED BY <1>3, <1>4, <2>1, <2>2 DEF CanvasInv, PreviewOK
<1> QED BY <1>5, <1>6, <1>7, <1>8, <1>9 DEF CanvasInv

-------------------------------------------------------------------------------
(* The transaction of a preview.                                           *)

Pointed(s) == s.id \in {tasks[k].snapshot : k \in Older}
AfterSupersede(s, id) ==
  IF Pointed(s) THEN [s EXCEPT !.status = "superseded", !.next = id] ELSE s

\* supersedeOlder marks snapshots of earlier revisions and changes nothing else of them.
LEMMA SupersedeChanges ==
  ASSUME CanvasInv, NEW id \in Keys, NEW s \in snapshots
  PROVE  LET n == AfterSupersede(s, id)
         IN /\ n \in Snapshot /\ n.id = s.id /\ n.version = s.version /\ n.rev = s.rev
            /\ n.content = s.content
            /\ Pointed(s) => s.rev < revision /\ n.status = "superseded" /\ n.next = id
            /\ ~Pointed(s) => n = s
<1>1. s \in Snapshot
  BY DEF CanvasInv, TypeOK
<1>2. CASE ~Pointed(s)
  BY <1>1, <1>2 DEF AfterSupersede
<1>3. CASE Pointed(s)
  <2>1. PICK k \in Older : s.id = tasks[k].snapshot
    BY <1>3 DEF Pointed
  <2>2. k \in Keys /\ tasks[k].status # "absent" /\ tasks[k].rev < revision
    BY <2>1 DEF Older, Active
  <2>3. PICK n \in snapshots : n.id = tasks[k].snapshot /\ n.rev = tasks[k].rev
    BY <2>2 DEF CanvasInv, TasksInv
  <2>4. n = s
    BY <2>1, <2>3 DEF CanvasInv, SnapshotsInv
  <2>5. s.rev < revision
    BY <2>2, <2>3, <2>4
  <2>6. AfterSupersede(s, id) = [s EXCEPT !.status = "superseded", !.next = id]
    BY <1>3 DEF AfterSupersede
  <2> QED BY <1>1, <1>3, <2>5, <2>6 DEF Snapshot
<1> QED BY <1>2, <1>3

\* No snapshot is lost or duplicated.
LEMMA SupersedeCounts ==
  ASSUME CanvasInv, NEW id \in Keys
  PROVE  /\ SnapshotsSuperseded(id) = {AfterSupersede(s, id) : s \in snapshots}
         /\ IsFiniteSet(SnapshotsSuperseded(id))
         /\ Cardinality(SnapshotsSuperseded(id)) = Cardinality(snapshots)
<1> DEFINE f == [s \in snapshots |-> AfterSupersede(s, id)]
           T == {AfterSupersede(s, id) : s \in snapshots}
<1>1. SnapshotsSuperseded(id) = T
  BY DEF SnapshotsSuperseded, AfterSupersede, Pointed
<1>2. f \in [snapshots -> T] /\ \A s \in snapshots : f[s] = AfterSupersede(s, id)
  OBVIOUS
<1>3. \A t \in T : \E s \in snapshots : t = AfterSupersede(s, id)
  OBVIOUS
<1>4. \A s, n \in snapshots : AfterSupersede(s, id) = AfterSupersede(n, id) => s = n
  BY SupersedeChanges DEF CanvasInv, SnapshotsInv
<1> HIDE DEF f, T
<1>5. f \in Surjection(snapshots, T)
  BY <1>2, <1>3 DEF Surjection
<1>6. f \in Injection(snapshots, T)
  BY <1>2, <1>4 DEF Injection, IsInjective
<1>7. IsFiniteSet(snapshots)
  BY DEF CanvasInv, SnapshotsInv
<1> QED BY <1>1, <1>5, <1>6, <1>7, FS_Surjection DEF T

\* What a frozen request may rely on when its transaction commits.
LEMMA FrozenFacts ==
  ASSUME CanvasInv, NEW p \in Previews, preview[p].phase = "frozen"
  PROVE  /\ preview[p] \in Preview /\ Mine(p) \in Keys /\ lock = p
         /\ workspace \in {NoWorkspace, KeyWorkspace(Mine(p))}
         /\ tasks[Mine(p)].status = "absent"
         /\ \A s \in snapshots : s.id # Mine(p)
         /\ preview[p].version = 1 + Cardinality(snapshots)
         /\ preview[p].put => /\ \A s \in snapshots : s.rev < revision
                              /\ <<Mine(p), preview[p].version>> \in store \/ Mine(p) \in failed
         /\ ~preview[p].put => Current # {}
<1>1. /\ Mine(p) \in Keys /\ lock = p /\ workspace \in {NoWorkspace, KeyWorkspace(Mine(p))}
      /\ tasks[Mine(p)].status = "absent"
      /\ preview[p].put = (Current = {}) /\ preview[p].version = NextVersion
      /\ preview[p].put => <<Mine(p), preview[p].version>> \in store \/ Mine(p) \in failed
  BY DEF CanvasInv, PreviewOK, Mine
<1>2. \A s \in snapshots : s.id # Mine(p)
  BY <1>1 DEF CanvasInv, SnapshotsInv
<1>3. ASSUME preview[p].put, NEW s \in snapshots PROVE s.rev < revision
  <2>1. s.rev # revision \/ s.status = "superseded"
    BY <1>1, <1>3 DEF Current, CanvasInv, TypeOK, Snapshot
  <2>2. s.status = "superseded" => \E n \in snapshots : n.rev > s.rev
    BY DEF CanvasInv, SnapshotsInv, LineageGoesForward
  <2>3. /\ \A n \in snapshots : n.rev \in Nat /\ n.rev <= revision
        /\ revision \in Nat
    BY CanvasAssumption DEF CanvasInv, SnapshotsInv, TypeOK, EditTypeOK, Snapshot
  <2> QED BY <2>1, <2>2, <2>3
<1> QED BY <1>1, <1>2, <1>3 DEF NextVersion, CanvasInv, TypeOK

NewSnapshot(p) == [id |-> Mine(p), version |-> preview[p].version, rev |-> revision,
                   content |-> objects, status |-> "available", next |-> NoKey]

\* The rows of ai_preview_snapshot after the commit; id is the snapshot of the new task.
RowsAfter(p, id) ==
  /\ \A s \in snapshots : AfterSupersede(s, id) \in snapshots'
  /\ \A n \in snapshots' : \/ \E s \in snapshots : n = AfterSupersede(s, id)
                           \/ preview[p].put /\ n = NewSnapshot(p)
  /\ \E n \in snapshots' : n.id = id /\ n.rev = revision /\ n.status = "available"
  /\ IsFiniteSet(snapshots')
  /\ Cardinality(snapshots') \in Nat /\ Cardinality(snapshots') >= Cardinality(snapshots)
  /\ preview[p].put => Cardinality(snapshots') = Cardinality(snapshots) + 1

TasksAfter(p, id) ==
  tasks' = [k \in Keys |->
    IF k = Mine(p) THEN [status |-> "active", rev |-> revision, snapshot |-> id,
                         target |-> preview[p].target]
    ELSE IF k \in Older THEN [tasks[k] EXCEPT !.status = "superseded"] ELSE tasks[k]]

LEMMA PersistedRows ==
  ASSUME CanvasInv, NEW p \in Previews, preview[p].phase = "frozen", Persisted(p)
  PROVE  \E id \in Keys : RowsAfter(p, id) /\ TasksAfter(p, id)
<1>1. IsFiniteSet(snapshots) /\ Cardinality(snapshots) \in Nat
  BY FS_CardinalityType DEF CanvasInv, SnapshotsInv
<1>2. CASE preview[p].put
  <2> DEFINE id == Mine(p)
             old == SnapshotsSuperseded(id)
  <2>1. /\ snapshots' = old \cup {NewSnapshot(p)} /\ TasksAfter(p, id)
    BY <1>2 DEF Persisted, NewSnapshot, TasksAfter
  <2>2. id \in Keys /\ (\A s \in snapshots : s.id # id)
    BY FrozenFacts
  <2>3. /\ old = {AfterSupersede(s, id) : s \in snapshots}
        /\ IsFiniteSet(old) /\ Cardinality(old) = Cardinality(snapshots)
    BY <2>2, SupersedeCounts
  <2> HIDE DEF old
  <2>4. NewSnapshot(p) \notin old
    <3>1. NewSnapshot(p).id = id
      BY DEF NewSnapshot
    <3>2. \A s \in snapshots : AfterSupersede(s, id).id # id
      BY <2>2, SupersedeChanges
    <3> HIDE DEF id
    <3> QED BY <2>3, <3>1, <3>2
  <2>5. IsFiniteSet(snapshots') /\ Cardinality(snapshots') = Cardinality(snapshots) + 1
    <3>1. /\ IsFiniteSet(old \cup {NewSnapshot(p)})
          /\ Cardinality(old \cup {NewSnapshot(p)}) = Cardinality(old) + 1
      BY <2>3, <2>4, FS_AddElement
    <3>2. snapshots' = old \cup {NewSnapshot(p)}
      BY <2>1
    <3> QED BY <2>3, <3>1, <3>2
  <2>6. \E n \in snapshots' : n.id = id /\ n.rev = revision /\ n.status = "available"
    <3>1. /\ NewSnapshot(p).id = id /\ NewSnapshot(p).rev = revision
          /\ NewSnapshot(p).status = "available"
      BY DEF NewSnapshot
    <3>2. NewSnapshot(p) \in snapshots'
      BY <2>1
    <3> QED BY <3>1, <3>2
  <2>7. RowsAfter(p, id)
    BY <1>1, <1>2, <2>1, <2>3, <2>5, <2>6 DEF RowsAfter
  <2> QED BY <2>1, <2>2, <2>7
<1>3. CASE ~preview[p].put
  <2> DEFINE c == CHOOSE s \in Current : TRUE
             id == c.id
  <2>1. c \in snapshots /\ c.rev = revision /\ c.status = "available"
    BY <1>3, FrozenFacts DEF Current
  <2>2. id \in Keys
    BY <2>1 DEF CanvasInv, TypeOK, Snapshot
  <2>3. snapshots' = SnapshotsSuperseded(id) /\ TasksAfter(p, id)
    BY <1>3 DEF Persisted, TasksAfter
  <2> HIDE DEF c
  <2>4. /\ snapshots' = {AfterSupersede(s, id) : s \in snapshots}
        /\ IsFiniteSet(snapshots') /\ Cardinality(snapshots') = Cardinality(snapshots)
    BY <2>2, <2>3, SupersedeCounts
  <2>5. AfterSupersede(c, id) = c
    <3>1. revision \in Nat
      BY CanvasAssumption DEF CanvasInv, TypeOK, EditTypeOK
    <3> QED BY <2>1, <2>2, <3>1, SupersedeChanges
  <2>6. c \in snapshots'
    BY <2>1, <2>4, <2>5
  <2>7. RowsAfter(p, id)
    BY <1>1, <1>3, <2>1, <2>4, <2>6 DEF RowsAfter
  <2> QED BY <2>2, <2>3, <2>7
<1> QED BY <1>2, <1>3

\* The snapshot that is new is of the newest revision and has the largest version.
LEMMA PersistedSnapshots ==
  ASSUME CanvasInv, NEW p \in Previews, preview[p].phase = "frozen", NEW id \in Keys,
         RowsAfter(p, id), TasksAfter(p, id), failed \subseteq failed',
         UNCHANGED <<revision, past, store>>
  PROVE  SnapshotsInv' /\ snapshots' \subseteq Snapshot
<1> DEFINE new == NewSnapshot(p)
<1> USE DEF RowsAfter
<1>1. /\ revision \in 0..MaxRevision /\ MaxRevision \in Nat /\ objects \in [Objects -> Nat]
      /\ past[revision + 1] = objects
      /\ Cardinality(snapshots) \in Nat
      /\ \A s \in snapshots : s \in Snapshot
  BY CanvasAssumption, FS_CardinalityType
     DEF CanvasInv, TypeOK, EditTypeOK, PastInv, SnapshotsInv
<1>2. SnapshotsInv
  BY DEF CanvasInv
<1>3. /\ preview[p] \in Preview /\ Mine(p) \in Keys
      /\ \A s \in snapshots : s.id # Mine(p)
      /\ preview[p].version = 1 + Cardinality(snapshots)
      /\ preview[p].put => /\ \A s \in snapshots : s.rev < revision
                           /\ <<Mine(p), preview[p].version>> \in store \/ Mine(p) \in failed
  BY FrozenFacts
<1>4. /\ new \in Snapshot /\ new.id = Mine(p) /\ new.version = 1 + Cardinality(snapshots)
      /\ new.rev = revision /\ new.content = objects /\ new.status = "available"
  BY <1>1, <1>3 DEF NewSnapshot, Snapshot, Preview
<1>5. \A n \in snapshots' :
        \/ \E s \in snapshots : /\ n = AfterSupersede(s, id) /\ n \in Snapshot
                                /\ n.id = s.id /\ n.version = s.version /\ n.rev = s.rev
                                /\ n.content = s.content
        \/ preview[p].put /\ n = new
  BY SupersedeChanges
<1> HIDE DEF new
<1>6. snapshots' \subseteq Snapshot
  BY <1>4, <1>5
<1>7. ASSUME NEW n \in snapshots'
      PROVE  n.version <= Cardinality(snapshots') /\ n.rev <= revision
             /\ tasks'[n.id].status # "absent"
  <2>1. CASE preview[p].put /\ n = new
    BY <1>1, <1>3, <1>4, <2>1 DEF TasksAfter
  <2>2. ASSUME NEW s \in snapshots, n.id = s.id, n.version = s.version, n.rev = s.rev
        PROVE  n.version <= Cardinality(snapshots') /\ n.rev <= revision
               /\ tasks'[n.id].status # "absent"
    <3>1. /\ s.version <= Cardinality(snapshots) /\ s.version \in Nat /\ s.rev <= revision
          /\ tasks[s.id].status # "absent" /\ s.id \in Keys
      BY <1>1, <1>2 DEF SnapshotsInv, Snapshot
    <3>2. tasks \in [Keys -> Task]
      BY DEF CanvasInv, TypeOK
    <3>3. tasks'[s.id].status # "absent"
      BY <3>1, <3>2 DEF TasksAfter, Task
    <3> QED BY <1>1, <2>2, <3>1, <3>3
  <2> QED BY <1>5, <2>1, <2>2
<1>8. \A s, n \in snapshots' : s.id = n.id => s = n
  BY <1>2, <1>3, <1>4, <1>5 DEF SnapshotsInv
<1>9. SnapshotIsRevision'
  <2>1. ASSUME NEW n \in snapshots' PROVE n.content = past[n.rev + 1]
    BY <1>1, <1>2, <1>4, <1>5 DEF SnapshotsInv, SnapshotIsRevision
  <2>2. \A s \in snapshots : /\ s.version \in Nat /\ s.version < 1 + Cardinality(snapshots)
                             /\ s.version # 1 + Cardinality(snapshots)
    BY <1>1, <1>2 DEF SnapshotsInv, Snapshot
  <2>3. ASSUME NEW s \in snapshots', NEW n \in snapshots', s.version < n.version
        PROVE  s.rev < n.rev
    <3>1. CASE s = new
      <4>1. ~(1 + Cardinality(snapshots) < 1 + Cardinality(snapshots))
        BY <1>1
      <4>2. \A x \in snapshots : ~(1 + Cardinality(snapshots) < x.version)
        BY <1>1, <2>2
      <4> QED BY <1>4, <1>5, <2>3, <3>1, <4>1, <4>2
    <3>2. CASE s # new /\ n = new
      BY <1>3, <1>4, <1>5, <2>3, <3>2
    <3>3. CASE s # new /\ n # new
      BY <1>2, <1>5, <2>3, <3>3 DEF SnapshotsInv, SnapshotIsRevision
    <3> QED BY <3>1, <3>2, <3>3
  <2>4. ASSUME NEW s \in snapshots', NEW n \in snapshots', s.version = n.version
        PROVE  s = n
    BY <1>2, <1>4, <1>5, <2>2, <2>4 DEF SnapshotsInv, SnapshotIsRevision
  <2> QED BY <2>1, <2>3, <2>4 DEF SnapshotIsRevision
<1>10. LineageGoesForward'
  <2> SUFFICES ASSUME NEW n \in snapshots', n.status = "superseded"
               PROVE  \E m \in snapshots' : m.id = n.next /\ m.rev > n.rev
    BY DEF LineageGoesForward
  <2>1. PICK s \in snapshots : n = AfterSupersede(s, id) /\ n.rev = s.rev
    BY <1>4, <1>5
  <2>2. CASE Pointed(s)
    <3>1. n.next = id /\ s.rev < revision
      BY <2>1, <2>2, SupersedeChanges
    <3>2. PICK m \in snapshots' : m.id = id /\ m.rev = revision
      OBVIOUS
    <3>3. m.rev > n.rev
      BY <1>1, <2>1, <3>1, <3>2 DEF Snapshot
    <3> QED BY <3>1, <3>2, <3>3
  <2>3. CASE ~Pointed(s)
    <3>1. n = s
      BY <2>1, <2>3, SupersedeChanges
    <3>2. PICK m \in snapshots : m.id = s.next /\ m.rev > s.rev
      BY <1>2, <3>1 DEF SnapshotsInv, LineageGoesForward
    <3>3. /\ AfterSupersede(m, id) \in snapshots' /\ AfterSupersede(m, id).id = m.id
          /\ AfterSupersede(m, id).rev = m.rev
      BY SupersedeChanges
    <3> QED BY <3>1, <3>2, <3>3
  <2> QED BY <2>2, <2>3
<1>11. BytesLostOnlyByOwnKey'
  BY <1>2, <1>3, <1>4, <1>5 DEF SnapshotsInv, BytesLostOnlyByOwnKey
<1> QED BY <1>6, <1>7, <1>8, <1>9, <1>10, <1>11 DEF SnapshotsInv

\* The new task is the only one that is active and was not revived, or shares its revision.
LEMMA PersistedTasks ==
  ASSUME CanvasInv, NEW p \in Previews, preview[p].phase = "frozen", NEW id \in Keys,
         RowsAfter(p, id), TasksAfter(p, id), revived' = revived \ Older, UNCHANGED revision
  PROVE  TasksInv' /\ tasks' \in [Keys -> Task]
<1> DEFINE k == Mine(p)
<1> USE DEF RowsAfter
<1>1. /\ revision \in 0..MaxRevision /\ MaxRevision \in Nat
      /\ tasks \in [Keys -> Task] /\ preview[p] \in Preview /\ k \in Keys
      /\ \A j \in Keys : tasks[j].rev \in Nat
  <2>1. revision \in 0..MaxRevision /\ tasks \in [Keys -> Task]
    BY DEF CanvasInv, TypeOK, EditTypeOK
  <2>2. preview[p] \in Preview /\ k \in Keys
    BY FrozenFacts
  <2>3. \A j \in Keys : tasks[j].rev \in Nat
    BY <2>1, CanvasAssumption DEF Task
  <2> QED BY <2>1, <2>2, <2>3, CanvasAssumption
<1>2. TasksInv /\ \A s, n \in snapshots : s.id = n.id => s = n
  BY DEF CanvasInv, SnapshotsInv
<1>3. /\ tasks' \in [Keys -> Task]
      /\ tasks'[k].status = "active" /\ tasks'[k].rev = revision /\ tasks'[k].snapshot = id
      /\ \A j \in Keys \ {k} :
           /\ tasks'[j].rev = tasks[j].rev /\ tasks'[j].snapshot = tasks[j].snapshot
           /\ tasks'[j].status # "absent" => tasks[j].status # "absent"
           /\ tasks'[j].status = "active" => tasks[j].status = "active" /\ j \notin Older
  <2>1. \A j \in Keys : tasks[j] \in Task
    BY <1>1
  <2>2. [status |-> "active", rev |-> revision, snapshot |-> id,
         target |-> preview[p].target] \in Task
    BY <1>1 DEF Task, Preview
  <2>3. \A j \in Keys : [tasks[j] EXCEPT !.status = "superseded"] \in Task
    BY <2>1 DEF Task
  <2>4. tasks' \in [Keys -> Task]
    BY <2>1, <2>2, <2>3 DEF TasksAfter
  <2>5. tasks'[k].status = "active" /\ tasks'[k].rev = revision /\ tasks'[k].snapshot = id
    BY <1>1 DEF TasksAfter
  <2>6. ASSUME NEW j \in Keys \ {k}
        PROVE  /\ tasks'[j].rev = tasks[j].rev /\ tasks'[j].snapshot = tasks[j].snapshot
               /\ tasks'[j].status # "absent" => tasks[j].status # "absent"
               /\ tasks'[j].status = "active" => tasks[j].status = "active" /\ j \notin Older
    <3>1. CASE j \in Older
      <4>1. tasks'[j] = [tasks[j] EXCEPT !.status = "superseded"]
        BY <3>1 DEF TasksAfter
      <4>2. tasks[j].status = "active"
        BY <3>1 DEF Older, Active
      <4> QED BY <2>1, <4>1, <4>2 DEF Task
    <3>2. CASE j \notin Older
      BY <3>2 DEF TasksAfter
    <3> QED BY <3>1, <3>2
  <2> QED BY <2>4, <2>5, <2>6
<1>4. \A s \in snapshots : /\ AfterSupersede(s, id) \in snapshots'
                           /\ AfterSupersede(s, id).id = s.id
                           /\ AfterSupersede(s, id).rev = s.rev
                           /\ Pointed(s) => s.rev < revision
                           /\ ~Pointed(s) => AfterSupersede(s, id) = s
  BY SupersedeChanges
<1>5. ASSUME NEW j \in Keys, tasks'[j].status # "absent"
      PROVE  /\ tasks'[j].rev <= revision
             /\ \E s \in snapshots' : s.id = tasks'[j].snapshot /\ s.rev = tasks'[j].rev
  <2>1. CASE j = k
    BY <1>1, <1>3, <2>1
  <2>2. CASE j # k
    <3>1. /\ tasks[j].rev <= revision
          /\ \E s \in snapshots : s.id = tasks[j].snapshot /\ s.rev = tasks[j].rev
      BY <1>2, <1>3, <1>5, <2>2 DEF TasksInv
    <3> QED BY <1>3, <1>4, <2>2, <3>1
  <2> QED BY <2>1, <2>2
<1>6. ASSUME NEW j \in Keys, tasks'[j].status = "active", j \notin revived'
      PROVE  /\ \A other \in Keys : tasks'[other].status # "absent"
                                      => tasks'[other].rev <= tasks'[j].rev
             /\ \E s \in snapshots' : s.id = tasks'[j].snapshot /\ s.status = "available"
  <2>1. CASE j = k
    BY <1>3, <1>5, <2>1
  <2>2. CASE j # k
    <3>1. tasks[j].status = "active" /\ j \notin Older /\ j \notin revived
      BY <1>3, <1>6, <2>2
    <3>2. tasks[j].rev = revision
      <4>1. ~(tasks[j].rev < revision)
        BY <3>1 DEF Older, Active
      <4>2. tasks[j].rev <= revision
        BY <1>2, <3>1 DEF TasksInv
      <4> QED BY <1>1, <4>1, <4>2
    <3>3. PICK s \in snapshots : s.id = tasks[j].snapshot /\ s.status = "available"
      BY <1>2, <3>1 DEF TasksInv, ActiveIsCurrent, Active
    <3>4. PICK n \in snapshots : n.id = tasks[j].snapshot /\ n.rev = tasks[j].rev
      BY <1>2, <3>1 DEF TasksInv
    <3>5. s.rev = revision
      BY <1>2, <3>2, <3>3, <3>4
    <3>6. ~Pointed(s)
      BY <1>1, <1>4, <3>5
    <3>7. s \in snapshots'
      BY <1>4, <3>6
    <3>8. tasks'[j].rev = revision /\ tasks'[j].snapshot = tasks[j].snapshot
      BY <1>3, <2>2, <3>2
    <3> QED BY <1>5, <3>3, <3>7, <3>8
  <2> QED BY <2>1, <2>2
<1> QED BY <1>3, <1>5, <1>6 DEF TasksInv, ActiveIsCurrent, Active

\* Persist and PersistUnacknowledged.
LEMMA PersistKeeps ==
  ASSUME CanvasInv, NEW p \in Previews, Persist(p) \/ PersistUnacknowledged(p)
  PROVE  CanvasInv'
<1> DEFINE k == Mine(p)
<1>1. /\ preview[p].phase = "frozen" /\ Persisted(p) /\ lock' = Free
      /\ UNCHANGED <<revision, objects, log, past, request, undeleted, store>>
  BY DEF Persist, PersistUnacknowledged, Unlock
<1>2. PICK id \in Keys : RowsAfter(p, id) /\ TasksAfter(p, id)
  BY <1>1, PersistedRows
<1>3. /\ preview \in [Previews -> Preview] /\ failed \subseteq Keys
      /\ workspace \in Workspaces \cup {NoWorkspace} /\ faults \in 0..MaxFaults
      /\ k \in Keys /\ lock = p /\ workspace \in {NoWorkspace, KeyWorkspace(k)}
  BY <1>1, FrozenFacts DEF CanvasInv, TypeOK, EditTypeOK
<1>4. /\ preview' \in [Previews -> Preview] /\ preview'[p].key = k
      /\ preview'[p].phase \in {"done", "cleanup"}
      /\ preview'[p].phase = "cleanup" => k \in failed'
      /\ \A q \in Previews \ {p} : preview'[q] = preview[q]
      /\ failed \subseteq failed' /\ failed' \subseteq Keys /\ faults' \in 0..MaxFaults
  <2>1. CASE Persist(p)
    <3>1. /\ preview' = [preview EXCEPT ![p] =
               [preview[p] EXCEPT !.phase = "done", !.answer = k]]
          /\ UNCHANGED <<faults, failed>>
      BY <2>1 DEF Persist, Leave
    <3>2. [preview[p] EXCEPT !.phase = "done", !.answer = k] \in Preview
      BY <1>3 DEF Preview
    <3>3. /\ preview' \in [Previews -> Preview]
          /\ preview'[p] = [preview[p] EXCEPT !.phase = "done", !.answer = k]
          /\ \A q \in Previews \ {p} : preview'[q] = preview[q]
      BY <1>3, <3>1, <3>2
    <3>4. preview[p] \in Preview /\ preview[p].key = k
      BY <1>3 DEF Mine
    <3>5. preview'[p].key = k /\ preview'[p].phase = "done"
      BY <3>3, <3>4 DEF Preview
    <3> QED BY <1>3, <3>1, <3>3, <3>5
  <2>2. CASE PersistUnacknowledged(p)
    <3> DEFINE phase == IF preview[p].put THEN "cleanup" ELSE "done"
    <3>1. /\ preview' = [preview EXCEPT ![p] = [preview[p] EXCEPT !.phase = phase]]
          /\ failed' = failed \cup {k}
      BY <2>2 DEF PersistUnacknowledged
    <3>2. faults' \in 0..MaxFaults
      BY <1>3, <2>2, PreviewAssumption DEF PersistUnacknowledged, Fault
    <3>3. /\ preview' \in [Previews -> Preview]
          /\ preview'[p].key = preview[p].key /\ preview'[p].phase \in {"done", "cleanup"}
          /\ \A q \in Previews \ {p} : preview'[q] = preview[q]
      BY <1>3, <3>1 DEF Preview
    <3>4. preview[p].key = k
      BY DEF Mine
    <3> QED BY <1>3, <3>1, <3>2, <3>3, <3>4
  <2> QED BY <2>1, <2>2
<1>5. workspace' = KeyWorkspace(k) /\ workspace' \in Workspaces /\ revived' = revived \ Older
  BY <1>1, <1>3, PreviewAssumption DEF Persisted
<1>6. SnapshotsInv' /\ snapshots' \subseteq Snapshot
  BY <1>1, <1>2, <1>4, PersistedSnapshots
<1>7. TasksInv' /\ tasks' \in [Keys -> Task]
  BY <1>1, <1>2, <1>5, PersistedTasks
<1>8. LogInv' /\ PastInv' /\ RequestsInv'
  BY <1>1, <1>3, <1>5, BindingKeeps
<1>9. TypeOK'
  BY <1>1, <1>4, <1>5, <1>6, <1>7 DEF CanvasInv, TypeOK, EditTypeOK
<1>10. ASSUME NEW q \in Previews PROVE PreviewOK(q)'
  <2>1. CASE q = p
    BY <1>3, <1>4, <2>1 DEF PreviewOK
  <2>2. CASE q # p
    BY <1>1, <1>3, <1>4, <2>2, OneFrozen, OthersKeep
  <2> QED BY <2>1, <2>2
<1> QED BY <1>6, <1>7, <1>8, <1>9, <1>10 DEF CanvasInv

-------------------------------------------------------------------------------
LEMMA PreviewStepKeeps ==
  ASSUME CanvasInv, NEW p \in Previews, RequestPreview(p) \/ Advances(p) \/ Crash(p)
  PROVE  CanvasInv'
<1> DEFINE k == Mine(p)
<1>1. /\ workspace \in Workspaces \cup {NoWorkspace} /\ faults \in 0..MaxFaults
  BY DEF CanvasInv, TypeOK, EditTypeOK
<1>2. preview[p].phase \in {"waiting", "frozen", "cleanup"} => k \in Keys
  BY DEF CanvasInv, PreviewOK, Mine
<1>3. CASE RefusePreview(p)
  BY <1>1, <1>3, LeaveKeeps DEF RefusePreview, editVars
<1>4. CASE AnswerExisting(p)
  <2>1. PICK a \in Keys : Leave(p, a)
    BY <1>4 DEF AnswerExisting, Existing
  <2>2. /\ lock = Free /\ workspace \in {NoWorkspace, KeyWorkspace(k)}
        /\ workspace' = KeyWorkspace(k) /\ workspace' \in Workspaces
    BY <1>2, <1>4, PreviewAssumption DEF AnswerExisting
  <2>3. UNCHANGED <<revision, objects, log, past, lock, request, undeleted, snapshots, tasks,
                    store, faults, failed, revived>>
    BY <1>4 DEF AnswerExisting
  <2> QED BY <1>1, <2>1, <2>2, <2>3, LeaveKeeps
<1>5. CASE Cleanup(p)
  <2>1. /\ preview[p].phase = "cleanup" /\ Leave(p, NoKey) /\ k \in failed
        /\ UNCHANGED <<revision, workspace, objects, log, past, lock, request, undeleted,
                       snapshots, tasks, faults, failed, revived>>
    BY <1>5 DEF Cleanup, editVars, CanvasInv, PreviewOK, Mine
  <2>2. /\ store' \subseteq store
        /\ \A b \in store \ store' : b = <<k, preview[p].version>>
    BY <1>5 DEF Cleanup, DeleteSnapshot
  <2>3. <<k, preview[p].version>>[1] = k
    OBVIOUS
  <2>4. \A b \in store \ store' : b[1] \in failed
    BY <2>1, <2>2, <2>3
  <2>5. PICK a \in Keys \cup {NoKey} : Leave(p, a)
    BY <2>1
  <2>6. /\ workspace \in {NoWorkspace, workspace'} /\ workspace' \in Workspaces \cup {NoWorkspace}
        /\ faults' \in 0..MaxFaults
    BY <1>1, <2>1
  <2> QED BY <2>1, <2>2, <2>4, <2>5, <2>6, LeaveKeeps
<1>6. CASE Crash(p)
  <2>1. /\ Leave(p, NoKey) /\ lock' = IF lock = p THEN Free ELSE lock
        /\ UNCHANGED <<revision, workspace, objects, log, past, request, undeleted,
                       snapshots, tasks, store, failed, revived>>
    BY <1>6 DEF Crash
  <2>2. faults' \in 0..MaxFaults
    BY <1>1, <1>6, PreviewAssumption DEF Crash, Fault
  <2>3. PICK a \in Keys \cup {NoKey} : Leave(p, a)
    BY <2>1
  <2>4. /\ workspace \in {NoWorkspace, workspace'} /\ workspace' \in Workspaces \cup {NoWorkspace}
        /\ workspace' = workspace
    BY <1>1, <2>1
  <2>5. lock' = lock \/ (lock = p /\ lock' = Free)
    BY <2>1
  <2>6. store' \subseteq store /\ store \ store' = {}
    BY <2>1
  <2> QED BY <2>1, <2>2, <2>3, <2>4, <2>5, <2>6, LeaveKeeps
<1> QED BY <1>3, <1>4, <1>5, <1>6, RequestPreviewKeeps, FreezeKeeps, PersistKeeps,
           PersistFailsKeeps DEF Advances

THEOREM CanvasInvariance == Spec => []CanvasInv
<1>1. Init => CanvasInv
  <2> SUFFICES ASSUME Init PROVE CanvasInv
    OBVIOUS
  <2> USE DEF Init, EditInit
  <2>1. /\ objects \in [Objects -> 0..MaxRevision] /\ past = <<objects>> /\ revision = 0
        /\ past \in Seq([Objects -> 0..MaxRevision]) /\ Len(past) = 1 /\ past[1] = objects
    <3>1. objects \in [Objects -> 0..MaxRevision] /\ revision = 0 /\ past = <<objects>>
      BY CanvasAssumption
    <3> QED BY <3>1
  <2>2. TypeOK
    <3>1. request \in [Requests -> Request]
      BY CanvasAssumption DEF NoRequest, Request, Answers
    <3>2. preview \in [Previews -> Preview] /\ tasks \in [Keys -> Task]
      BY CanvasAssumption DEF NoPreview, Preview, NoTask, Task
    <3> QED BY <2>1, <3>1, <3>2, CanvasAssumption, PreviewAssumption DEF TypeOK, EditTypeOK
  <2>3. LogInv
    <3>1. IsFiniteSet(log) /\ Cardinality(log) = 0
      BY FS_EmptySet
    <3> QED BY <3>1 DEF LogInv, LogIsDense
  <2>4. PastInv
    BY <2>1 DEF PastInv
  <2>5. RequestsInv
    BY DEF RequestsInv, RetryIsRecognised, NoRequest
  <2>6. SnapshotsInv
    BY FS_EmptySet DEF SnapshotsInv, SnapshotIsRevision, LineageGoesForward,
                       BytesLostOnlyByOwnKey
  <2>7. TasksInv
    BY DEF TasksInv, ActiveIsCurrent, Active, NoTask
  <2>8. ASSUME NEW p \in Previews PROVE PreviewOK(p)
    BY DEF PreviewOK, NoPreview
  <2> QED BY <2>2, <2>3, <2>4, <2>5, <2>6, <2>7, <2>8 DEF CanvasInv
<1>2. CanvasInv /\ [Next]_vars => CanvasInv'
  <2> SUFFICES ASSUME CanvasInv, [Next]_vars PROVE CanvasInv'
    OBVIOUS
  <2>1. CASE EditNext /\ UNCHANGED previewVars
    BY <2>1, EditKeeps
  <2>2. ASSUME NEW p \in Previews, RequestPreview(p) \/ Advances(p) \/ Crash(p)
        PROVE  CanvasInv'
    BY <2>2, PreviewStepKeeps
  <2>3. ASSUME NEW k \in Keys, TaskEnds(k) \/ StaleWrite(k) PROVE CanvasInv'
    <3>1. tasks[k].status # "absent" /\ revived \subseteq Keys
      BY <2>3 DEF TaskEnds, StaleWrite, Active, CanvasInv, TypeOK
    <3>2. CASE TaskEnds(k)
      BY <3>1, <3>2, TaskStatusKeeps DEF TaskEnds
    <3>3. CASE StaleWrite(k)
      BY <3>1, <3>3, TaskStatusKeeps DEF StaleWrite
    <3> QED BY <2>3, <3>2, <3>3
  <2>4. CASE UNCHANGED vars
    BY <2>4 DEF vars, editVars, previewVars, CanvasInv, TypeOK, EditTypeOK, LogInv, LogIsDense,
                OperationOK, PastInv, RequestsInv, RetryIsRecognised, Logged, SnapshotsInv,
                SnapshotIsRevision, LineageGoesForward, BytesLostOnlyByOwnKey, TasksInv,
                ActiveIsCurrent, Active, PreviewOK, Current, NextVersion
  <2> QED BY <2>1, <2>2, <2>3, <2>4 DEF Next
<1> QED BY <1>1, <1>2, PTL DEF Spec

\* The operations of a canvas are numbered without gap or duplicate and the revision is
\* their number (the row lock of appendOperationWithLockedCanvas and createOperation).
THEOREM LogStaysDense == Spec => []LogIsDense
<1>1. CanvasInv => LogIsDense
  BY DEF CanvasInv, LogInv
<1> QED BY <1>1, CanvasInvariance, PTL

\* A replay is refused only as another operation or because the request read the canvas
\* before it was bound to its workspace (createOperation, sameLogicalOperation).
THEOREM RetriesAreRecognised == Spec => []RetryIsRecognised
<1>1. CanvasInv => RetryIsRecognised
  BY DEF CanvasInv, RequestsInv
<1> QED BY <1>1, CanvasInvariance, PTL

\* A preview is computed from the objects of the revision its snapshot names (freeze
\* under the canvas lock), and a version names one snapshot.
THEOREM SnapshotsAreRevisions == Spec => []SnapshotIsRevision
<1>1. CanvasInv => SnapshotIsRevision
  BY DEF CanvasInv, SnapshotsInv
<1> QED BY <1>1, CanvasInvariance, PTL

\* The catch block that cleans up after the lock is gone deletes bytes of a committed
\* snapshot only where the same idempotency key failed.
THEOREM CleanupIsOwn == Spec => []BytesLostOnlyByOwnKey
<1>1. CanvasInv => BytesLostOnlyByOwnKey
  BY DEF CanvasInv, SnapshotsInv
<1> QED BY <1>1, CanvasInvariance, PTL

\* However previews, faults and late events overlap, an active task that no stale event
\* revived is at the newest previewed revision, and lineage leads forward.
THEOREM NewestWins == Spec => []NewestPreviewWins
<1>1. CanvasInv => NewestPreviewWins
  BY DEF CanvasInv, SnapshotsInv, TasksInv, NewestPreviewWins
<1> QED BY <1>1, CanvasInvariance, PTL

-------------------------------------------------------------------------------
(* The timers: the map of the coordinator and the timers of the event loop *)
(* never part.                                                             *)

Entries == [canvas : Canvases, first : Nat, due : Nat, revision : Nat,
            reason : {"max_debounce", "debounce"}]

\* What the map says of canvas c: at most one entry, of its newest revision, due in time.
Kept(c) ==
  \/ pending[c] = {} /\ since[c] = {}
  \/ \E e \in Entries : /\ pending[c] = {e} /\ since[c] = {e.first}
                        /\ e.canvas = c /\ e.revision = edits[c]
                        /\ e.due <= e.first + MaxDebounceMs

\* The timers that run are those of the map.
InStep == /\ timers \subseteq Entries
          /\ \A e \in Entries : e \in timers <=> e \in pending[e.canvas]

TimersInv ==
  /\ now \in Nat /\ edits \in [Canvases -> Nat]
  /\ pending \in [Canvases -> SUBSET Entries] /\ since \in [Canvases -> SUBSET Nat]
  /\ \A c \in Canvases : Kept(c)
  /\ ~AutoPreviewEnabled => \A c \in Canvases : pending[c] = {}
  /\ InStep

-------------------------------------------------------------------------------
\* The entry of an edit is counted from the first edit that is not served, and the cap
\* on its time is Math.min of scheduleEdit().
LEMMA EntryInTime ==
  ASSUME TimersInv, NEW c \in Canvases
  PROVE  LET e == Entry(c, FirstEditAt(c))
         IN /\ e \in Entries /\ e.canvas = c /\ e.revision = edits[c] + 1
            /\ e.due <= e.first + MaxDebounceMs
            /\ since[c] = {} => e.first = now
            /\ since[c] # {} => since[c] = {e.first}
<1> DEFINE first == FirstEditAt(c)
<1>1. first \in Nat /\ (since[c] = {} => first = now) /\ (since[c] # {} => since[c] = {first})
  <2>1. CASE pending[c] = {}
    BY <2>1 DEF TimersInv, Kept, FirstEditAt
  <2>2. CASE pending[c] # {}
    <3>1. PICK e \in Entries : pending[c] = {e} /\ since[c] = {e.first}
      BY <2>2 DEF TimersInv, Kept
    <3>2. FirstEditAt(c) = e.first
      BY <3>1 DEF FirstEditAt
    <3> QED BY <3>1, <3>2 DEF Entries
  <2> QED BY <2>1, <2>2
<1> HIDE DEF first
<1>2. edits[c] \in Nat /\ now \in Nat
  BY DEF TimersInv
<1>3. Earlier(now + DebounceMs, first + MaxDebounceMs) \in Nat
      /\ Earlier(now + DebounceMs, first + MaxDebounceMs) <= first + MaxDebounceMs
  BY <1>1, <1>2, DebounceAssumption DEF Earlier
<1>4. /\ Entry(c, first) \in Entries /\ Entry(c, first).canvas = c
      /\ Entry(c, first).first = first /\ Entry(c, first).revision = edits[c] + 1
      /\ Entry(c, first).due <= first + MaxDebounceMs
  BY <1>1, <1>2, <1>3 DEF Entry, Entries
<1> QED BY <1>1, <1>4 DEF first

\* An edit clears the timer of its canvas and starts one for the new entry.
LEMMA ScheduleKeeps ==
  ASSUME TimersInv, NEW c \in Canvases, scheduleEdit(c)
  PROVE  TimersInv'
<1>1. CASE ~AutoPreviewEnabled
  BY <1>1 DEF TimersInv, Kept, InStep, scheduleEdit
<1>2. CASE AutoPreviewEnabled
  <2> DEFINE e == Entry(c, FirstEditAt(c))
  <2>1. /\ e \in Entries /\ e.canvas = c /\ e.revision = edits[c] + 1
        /\ e.due <= e.first + MaxDebounceMs
        /\ since[c] = {} => e.first = now
        /\ since[c] # {} => since[c] = {e.first}
    BY EntryInTime
  <2>2. /\ edits' = [edits EXCEPT ![c] = edits[c] + 1]
        /\ pending' = [pending EXCEPT ![c] = {e}]
        /\ timers' = (timers \ pending[c]) \cup {e}
        /\ since' = [since EXCEPT ![c] = IF since[c] = {} THEN {now} ELSE since[c]]
        /\ now' = now
    BY <1>2 DEF scheduleEdit
  <2> HIDE DEF e
  <2>3. e.first \in Nat
    BY <2>1 DEF Entries
  <2>4. /\ now' \in Nat /\ edits' \in [Canvases -> Nat]
        /\ pending' \in [Canvases -> SUBSET Entries] /\ since' \in [Canvases -> SUBSET Nat]
    BY <2>1, <2>2, <2>3 DEF TimersInv
  <2>5. ASSUME NEW d \in Canvases PROVE Kept(d)'
    <3>1. CASE d = c
      <4>1. pending'[c] = {e} /\ since'[c] = {e.first} /\ edits'[c] = edits[c] + 1
        BY <2>1, <2>2 DEF TimersInv
      <4> QED BY <2>1, <3>1, <4>1 DEF Kept
    <3>2. CASE d # c
      BY <2>2, <3>2 DEF TimersInv, Kept
    <3> QED BY <3>1, <3>2
  <2>6. InStep'
    <3>1. timers' \subseteq Entries
      BY <2>1, <2>2 DEF TimersInv, InStep
    <3>2. ASSUME NEW x \in Entries PROVE x \in timers' <=> x \in pending'[x.canvas]
      <4>1. x.canvas \in Canvases
        BY DEF Entries
      <4>2. x \in timers <=> x \in pending[x.canvas]
        BY DEF TimersInv, InStep
      <4>3. CASE x.canvas = c
        <5>1. pending'[x.canvas] = {e}
          BY <2>2, <4>3 DEF TimersInv
        <5> QED BY <2>2, <4>2, <4>3, <5>1
      <4>4. CASE x.canvas # c
        <5>1. pending'[x.canvas] = pending[x.canvas] /\ x # e
          BY <2>1, <2>2, <4>1, <4>4 DEF TimersInv
        <5>2. x \notin pending[c]
          BY <4>4 DEF TimersInv, Kept
        <5> QED BY <2>2, <4>2, <5>1, <5>2
      <4> QED BY <4>3, <4>4
    <3> QED BY <3>1, <3>2 DEF InStep
  <2> QED BY <1>2, <2>4, <2>5, <2>6 DEF TimersInv
<1> QED BY <1>1, <1>2

\* Clearing the entry of a canvas with its timer: cancel(), triggerExplicit() and the
\* callback of the timer itself.
LEMMA ForgetKeeps ==
  ASSUME TimersInv, NEW c \in Canvases,
         timers' = timers \ pending[c],
         pending' = [pending EXCEPT ![c] = {}], since' = [since EXCEPT ![c] = {}],
         UNCHANGED <<now, edits>>
  PROVE  TimersInv'
<1>1. /\ now' \in Nat /\ edits' \in [Canvases -> Nat]
      /\ pending' \in [Canvases -> SUBSET Entries] /\ since' \in [Canvases -> SUBSET Nat]
  BY DEF TimersInv
<1>2. ASSUME NEW d \in Canvases PROVE Kept(d)'
  <2>1. CASE d = c
    BY <2>1 DEF TimersInv, Kept
  <2>2. CASE d # c
    BY <2>2 DEF TimersInv, Kept
  <2> QED BY <2>1, <2>2
<1>3. ~AutoPreviewEnabled => \A d \in Canvases : pending'[d] = {}
  BY DEF TimersInv
<1>4. InStep'
  <2>1. timers' \subseteq Entries
    BY DEF TimersInv, InStep
  <2>2. ASSUME NEW x \in Entries PROVE x \in timers' <=> x \in pending'[x.canvas]
    <3>1. x.canvas \in Canvases /\ (x \in timers <=> x \in pending[x.canvas])
      BY DEF TimersInv, InStep, Entries
    <3>2. CASE x.canvas = c
      BY <3>1, <3>2 DEF TimersInv
    <3>3. CASE x.canvas # c
      <4>1. x \notin pending[c]
        BY <3>3 DEF TimersInv, Kept
      <4> QED BY <3>1, <3>3, <4>1 DEF TimersInv
    <3> QED BY <3>2, <3>3
  <2> QED BY <2>1, <2>2 DEF InStep
<1> QED BY <1>1, <1>2, <1>3, <1>4 DEF TimersInv

-------------------------------------------------------------------------------
\* A timer that expires is the one of the map: its callback never finds another entry.
LEMMA ExpireKeeps ==
  ASSUME TimersInv, NEW e \in timers, Expire(e)
  PROVE  TimersInv'
<1>1. e \in Entries /\ e.canvas \in Canvases /\ e \in pending[e.canvas]
  BY DEF TimersInv, InStep, Entries
<1>2. pending[e.canvas] = {e}
  BY <1>1 DEF TimersInv, Kept
<1>3. /\ timers' = timers \ pending[e.canvas]
      /\ pending' = [pending EXCEPT ![e.canvas] = {}]
      /\ since' = [since EXCEPT ![e.canvas] = {}]
      /\ UNCHANGED <<now, edits>>
  BY <1>2 DEF Expire
<1> QED BY <1>1, <1>3, ForgetKeeps

\* Every state of the coordinator satisfies the invariant (scheduleEdit, cancel,
\* triggerExplicit, the timers' callbacks and the clock).
THEOREM TimersInvariance == TimersSpec => []TimersInv
<1>1. TimersInit => TimersInv
  BY DEF TimersInit, TimersInv, Kept, InStep, Entries
<1>2. TimersInv /\ [TimersNext]_timerVars => TimersInv'
  <2> SUFFICES ASSUME TimersInv, [TimersNext]_timerVars PROVE TimersInv'
    OBVIOUS
  <2>1. ASSUME NEW c \in Canvases, scheduleEdit(c) PROVE TimersInv'
    BY <2>1, ScheduleKeeps
  <2>2. ASSUME NEW c \in Canvases, cancel(c) \/ triggerExplicit(c) PROVE TimersInv'
    <3>1. Forget(c)
      BY <2>2 DEF cancel, triggerExplicit
    <3> QED BY <3>1, ForgetKeeps DEF Forget
  <2>3. ASSUME NEW e \in timers, Expire(e) PROVE TimersInv'
    BY <2>3, ExpireKeeps
  <2>4. CASE Tick
    BY <2>4 DEF Tick, TimersInv, Kept, InStep
  <2>5. CASE UNCHANGED timerVars
    BY <2>5 DEF timerVars, TimersInv, Kept, InStep
  <2> QED BY <2>1, <2>2, <2>3, <2>4, <2>5 DEF TimersNext
<1> QED BY <1>1, <1>2, PTL DEF TimersSpec

\* No edit is forgotten, and none waits longer than MaxDebounceMs, however the user goes
\* on editing (scheduleEdit and the callback of its timer).
THEOREM EveryEditHasItsTimer == TimersSpec => []EditsAreServed
<1>1. TimersInv => EditsAreServed
  <2> SUFFICES ASSUME TimersInv, NEW c \in Canvases
               PROVE  LET running == {e \in timers : e.canvas = c}
                      IN IF since[c] = {} THEN running = {}
                         ELSE \E e \in running : /\ running = {e}
                                                 /\ e.revision = edits[c]
                                                 /\ \A t \in since[c] : e.due <= t + MaxDebounceMs
    BY DEF EditsAreServed
  <2>1. {e \in timers : e.canvas = c} = pending[c]
    <3>1. ASSUME NEW e \in timers, e.canvas = c PROVE e \in pending[c]
      BY <3>1 DEF TimersInv, InStep
    <3>2. ASSUME NEW e \in pending[c] PROVE e \in timers /\ e.canvas = c
      <4>1. e \in Entries /\ e.canvas = c
        BY <3>2 DEF TimersInv, Kept
      <4> QED BY <3>2, <4>1 DEF TimersInv, InStep
    <3> QED BY <3>1, <3>2
  <2>2. CASE since[c] = {}
    BY <2>1, <2>2 DEF TimersInv, Kept
  <2>3. CASE since[c] # {}
    <3>1. PICK e \in Entries : /\ pending[c] = {e} /\ since[c] = {e.first}
                               /\ e.revision = edits[c] /\ e.due <= e.first + MaxDebounceMs
      BY <2>3 DEF TimersInv, Kept
    <3> QED BY <2>1, <2>3, <3>1
  <2> QED BY <2>2, <2>3
<1> QED BY <1>1, TimersInvariance, PTL
===============================================================================
