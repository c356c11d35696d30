---------------------------- MODULE CanvasPreview ----------------------------
(***************************************************************************)
(* AI previews of the canvas of CanvasEditing                              *)
(* (src/modules/canvas/services/canvas-ai-preview.service.ts).  A preview  *)
(* request locks the canvas, freezes its objects into a snapshot whose     *)
(* bytes go to the object store, and creates a task in the same            *)
(* transaction.  The object store is not part of the transaction: bytes    *)
(* are written before the commit, and a request whose transaction failed   *)
(* deletes them afterwards, when it no longer holds the lock.  Task,       *)
(* snapshot and object key are derived from the idempotency key, so a      *)
(* retry uses the same names.                                              *)
(*                                                                         *)
(* What the worker's events do to a task is AiTasks; here a task ends in   *)
(* one step (TaskEnds), and an event handler that read it before may still *)
(* write it back to running (StaleWrite).                                  *)
(***************************************************************************)
EXTENDS CanvasEditing

CONSTANTS Keys,       \* idempotency keys; a key belongs to one workspace
          KeyWorkspace(_),
          Targets,    \* normalized request bodies
          Previews,   \* concurrent preview requests
          MaxFaults,  \* bound: failed transactions and crashes
          NoKey, NoTarget

ASSUME PreviewAssumption ==
  /\ \A k \in Keys : KeyWorkspace(k) \in Workspaces
  /\ NoKey \notin Keys /\ Free \notin Previews /\ MaxFaults \in Nat

VARIABLES
  snapshots,  \* rows of ai_preview_snapshot
  tasks,      \* [Keys -> Task] rows of ai_task, by the key they are derived from
  store,      \* object keys in the bucket workspace-snapshots (external)
  preview,    \* [Previews -> Preview] requests under way
  faults,
  failed,     \* history: keys with a transaction that was reported as failed
  revived     \* history: tasks an event handler wrote back to running

previewVars == <<snapshots, tasks, store, preview, faults, failed, revived>>
vars == <<editVars, previewVars>>

Snapshot == [id : Keys, version : Nat, rev : 0..MaxRevision, content : [Objects -> Nat],
             status : {"available", "superseded"}, next : Keys \cup {NoKey}]
Task == [status : {"absent", "active", "superseded", "ended"}, rev : 0..MaxRevision,
         snapshot : Keys \cup {NoKey}, target : Targets \cup {NoTarget}]
NoTask == [status |-> "absent", rev |-> 0, snapshot |-> NoKey, target |-> NoTarget]
Preview == [phase : {"idle", "waiting", "frozen", "cleanup", "done"}, key : Keys \cup {NoKey},
            target : Targets \cup {NoTarget}, put : BOOLEAN, version : Nat,
            answer : Keys \cup {NoKey}]
NoPreview == [phase |-> "idle", key |-> NoKey, target |-> NoTarget, put |-> FALSE,
              version |-> 0, answer |-> NoKey]

\* The ranges of the canvas and preview state: no operation is logged with a
\* sequence outside the revisions the canvas can have.
TypeOK ==
  /\ EditTypeOK
  /\ snapshots \subseteq Snapshot
  /\ tasks \in [Keys -> Task]
  /\ store \subseteq Keys \X Nat
  /\ preview \in [Previews -> Preview]
  /\ lock \in Previews \cup {Free}
  /\ faults \in 0..MaxFaults
  /\ failed \subseteq Keys /\ revived \subseteq Keys

Init ==
  /\ EditInit
  /\ snapshots = {}
  /\ tasks = [k \in Keys |-> NoTask]
  /\ store = {}
  /\ preview = [p \in Previews |-> NoPreview]
  /\ faults = 0
  /\ failed = {} /\ revived = {}

-------------------------------------------------------------------------------
Active(k) == tasks[k].status = "active"

\* The columns of a jsonb object come back ordered by length and then by name,
\* JSON.stringify of the normalized target keeps the order of its literal.
TargetColumns == <<"operation", "selectedElementIds", "lockedElementIds", "editableElementIds",
                   "sourceIds", "userPrompt", "desiredWidth", "desiredHeight", "autoApply">>
JsonbColumns  == <<"autoApply", "operation", "sourceIds", "userPrompt", "desiredWidth",
                   "desiredHeight", "lockedElementIds", "editableElementIds",
                   "selectedElementIds">>

\* sameTarget: equality of the two strings.
SameTarget(stored, target) == JsonbColumns = TargetColumns /\ stored = target

\* The tasks a request may be answered with: its own, or an active task at this
\* revision with the same target.
Existing(p) ==
  {k \in Keys : \/ k = preview[p].key /\ tasks[k].status # "absent"
                \/ Active(k) /\ tasks[k].rev = revision
                   /\ SameTarget(tasks[k].target, preview[p].target)}

Current == {s \in snapshots : s.rev = revision /\ s.status = "available"}
NextVersion == 1 + Cardinality(snapshots)    \* versions count up from 1
Mine(p) == preview[p].key

Leave(p, answer) ==
  preview' = [preview EXCEPT ![p].phase = "done", ![p].answer = answer]

-------------------------------------------------------------------------------
\* create() up to the transaction: a known key is answered at once.
RequestPreview(p) ==
  /\ preview[p].phase = "idle"
  /\ \E k \in Keys, t \in Targets :
       preview' = [preview EXCEPT ![p] =
         [NoPreview EXCEPT !.key = k, !.target = t,
           !.phase  = IF tasks[k].status # "absent" THEN "done" ELSE "waiting",
           !.answer = IF tasks[k].status # "absent" THEN k ELSE NoKey]]
  /\ UNCHANGED <<editVars, snapshots, tasks, store, faults, failed, revived>>

\* The canvas belongs to another workspace.
RefusePreview(p) ==
  /\ preview[p].phase = "waiting" /\ lock = Free
  /\ workspace \notin {NoWorkspace, KeyWorkspace(Mine(p))}
  /\ Leave(p, NoKey)
  /\ UNCHANGED <<editVars, snapshots, tasks, store, faults, failed, revived>>

\* The task exists by now: the transaction only binds the canvas.
AnswerExisting(p) ==
  /\ preview[p].phase = "waiting" /\ lock = Free
  /\ workspace \in {NoWorkspace, KeyWorkspace(Mine(p))}
  /\ \E k \in Existing(p) : Leave(p, k)
  /\ workspace' = KeyWorkspace(Mine(p))
  /\ UNCHANGED <<revision, objects, log, past, lock, request, undeleted,
                 snapshots, tasks, store, faults, failed, revived>>

\* storeSnapshot() and deleteObject(): the key is made of the snapshot's id and version.
StoreSnapshot(p, version)  == store' = store \cup {<<Mine(p), version>>}
DeleteSnapshot(p, version) == store' = store \ {<<Mine(p), version>>}

\* Freezing before the canvas is locked.
FreezeUnlocked(p) ==
  /\ preview[p].phase = "waiting"
  /\ workspace \in {NoWorkspace, KeyWorkspace(Mine(p))}
  /\ Existing(p) = {}
  /\ preview' = [preview EXCEPT ![p].phase = "frozen", ![p].put = (Current = {}),
                                ![p].version = NextVersion]
  /\ IF Current = {} THEN StoreSnapshot(p, NextVersion) ELSE UNCHANGED store
  /\ UNCHANGED <<editVars, snapshots, tasks, faults, failed, revived>>

\* The canvas is locked; unless a snapshot of this revision is available, the
\* serialized objects are put into the store.
Freeze(p) ==
  /\ preview[p].phase = "waiting" /\ lock = Free
  /\ workspace \in {NoWorkspace, KeyWorkspace(Mine(p))}
  /\ Existing(p) = {}
  /\ lock' = p
  /\ preview' = [preview EXCEPT ![p].phase = "frozen", ![p].put = (Current = {}),
                                ![p].version = NextVersion]
  /\ IF Current = {} THEN StoreSnapshot(p, NextVersion) ELSE UNCHANGED store
  /\ UNCHANGED <<revision, workspace, objects, log, past, request, undeleted,
                 snapshots, tasks, faults, failed, revived>>

\* Leaving out the tasks of the revision just before.
OlderOffByOne == {k \in Keys : Active(k) /\ tasks[k].rev + 1 < revision}

\* olderActive: the active tasks of earlier revisions.
Older == {k \in Keys : Active(k) /\ tasks[k].rev < revision}

\* The snapshots of superseded tasks are superseded by the snapshot id.
SnapshotsSuperseded(id) ==
  {IF s.id \in {tasks[k].snapshot : k \in Older}
   THEN [s EXCEPT !.status = "superseded", !.next = id] ELSE s : s \in snapshots}

\* What the transaction commits: the binding, the snapshot, the task with its
\* reservation and outbox row, and the supersession of older tasks.
Persisted(p) ==
  LET id == IF preview[p].put THEN Mine(p) ELSE (CHOOSE s \in Current : TRUE).id
  IN /\ workspace' = KeyWorkspace(Mine(p))
     /\ snapshots' = SnapshotsSuperseded(id) \cup
          (IF preview[p].put
           THEN {[id |-> id, version |-> preview[p].version, rev |-> revision,
                  content |-> objects, status |-> "available", next |-> NoKey]}
           ELSE {})
     /\ tasks' = [k \in Keys |->
          IF k = Mine(p) THEN [status |-> "active", rev |-> revision, snapshot |-> id,
                               target |-> preview[p].target]
          ELSE IF k \in Older THEN [tasks[k] EXCEPT !.status = "superseded"] ELSE tasks[k]]
     /\ revived' = revived \ Older

Unlock == /\ lock' = Free
          /\ UNCHANGED <<revision, objects, log, past, request, undeleted>>

Persist(p) ==
  /\ preview[p].phase = "frozen"
  /\ Persisted(p)
  /\ Leave(p, Mine(p))
  /\ Unlock
  /\ UNCHANGED <<store, faults, failed>>

Fault == faults < MaxFaults /\ faults' = faults + 1

\* The transaction throws and is rolled back.
PersistFails(p) ==
  /\ Fault
  /\ preview[p].phase = "frozen"
  /\ preview' = [preview EXCEPT ![p].phase = IF preview[p].put THEN "cleanup" ELSE "done"]
  /\ failed' = failed \cup {Mine(p)}
  /\ Unlock
  /\ UNCHANGED <<workspace, snapshots, tasks, store, revived>>

\* The transaction commits and the connection breaks before the answer.
PersistUnacknowledged(p) ==
  /\ Fault
  /\ preview[p].phase = "frozen"
  /\ Persisted(p)
  /\ preview' = [preview EXCEPT ![p].phase = IF preview[p].put THEN "cleanup" ELSE "done"]
  /\ failed' = failed \cup {Mine(p)}
  /\ Unlock
  /\ UNCHANGED store

\* Cleaning up every object of the bucket that no snapshot refers to.
CleanupUnreferenced(p) ==
  /\ preview[p].phase = "cleanup"
  /\ store' = {b \in store : \E s \in snapshots : b = <<s.id, s.version>>}
  /\ Leave(p, NoKey)
  /\ UNCHANGED <<editVars, snapshots, tasks, faults, failed, revived>>

\* The catch block deletes what this request stored (or logs that it could not).
Cleanup(p) ==
  /\ preview[p].phase = "cleanup"
  /\ DeleteSnapshot(p, preview[p].version) \/ UNCHANGED store
  /\ Leave(p, NoKey)
  /\ UNCHANGED <<editVars, snapshots, tasks, faults, failed, revived>>

\* The process dies: the database rolls back and frees the lock.
Crash(p) ==
  /\ Fault
  /\ preview[p].phase \in {"waiting", "frozen", "cleanup"}
  /\ Leave(p, NoKey)
  /\ lock' = IF lock = p THEN Free ELSE lock
  /\ UNCHANGED <<revision, workspace, objects, log, past, request, undeleted,
                 snapshots, tasks, store, failed, revived>>

\* A worker's event or a cancellation ends the task.
TaskEnds(k) ==
  /\ Active(k)
  /\ tasks' = [tasks EXCEPT ![k].status = "ended"]
  /\ UNCHANGED <<editVars, snapshots, store, preview, faults, failed, revived>>

\* The handler of "started" saves the copy it read before.
StaleWrite(k) ==
  /\ tasks[k].status \in {"superseded", "ended"} /\ k \notin revived
  /\ tasks' = [tasks EXCEPT ![k].status = "active"]
  /\ revived' = revived \cup {k}
  /\ UNCHANGED <<editVars, snapshots, store, preview, faults, failed>>

-------------------------------------------------------------------------------
Advances(p) == \/ RefusePreview(p) \/ AnswerExisting(p) \/ Freeze(p)
               \/ Persist(p) \/ PersistFails(p) \/ PersistUnacknowledged(p) \/ Cleanup(p)

Next ==
  \/ EditNext /\ UNCHANGED previewVars
  \/ \E p \in Previews : RequestPreview(p) \/ Advances(p) \/ Crash(p)
  \/ \E k \in Keys : TaskEnds(k) \/ StaleWrite(k)

Spec == Init /\ [][Next]_vars

-------------------------------------------------------------------------------
(***************************************************************************)
(* Properties                                                              *)
(***************************************************************************)

\* A snapshot holds the objects of the canvas at its revision, and a revision
\* has at most one snapshot; versions follow revisions.
SnapshotIsRevision ==
  /\ \A s \in snapshots : s.content = past[s.rev + 1]
  /\ \A s, n \in snapshots : s.version < n.version => s.rev < n.rev
  /\ \A s, n \in snapshots : s.version = n.version => s = n

\* Bytes of a committed snapshot are missing only if a request with the same
\* idempotency key saw its transaction fail: cleaning up touches nobody else's snapshot.
BytesLostOnlyByOwnKey ==
  \A s \in snapshots : <<s.id, s.version>> \notin store => s.id \in failed

\* A task the worker may still run is at the newest revision that was previewed, of which
\* there may be several tasks, and its snapshot is not superseded, unless a stale event
\* revived it.
ActiveIsCurrent ==
  \A k \in Keys : Active(k) /\ k \notin revived =>
    /\ \A other \in Keys : tasks[other].status # "absent" => tasks[other].rev <= tasks[k].rev
    /\ \E s \in snapshots : s.id = tasks[k].snapshot /\ s.status = "available"

\* A superseded snapshot has a successor of a later revision.
LineageGoesForward ==
  \A s \in snapshots : s.status = "superseded" =>
    \E n \in snapshots : n.id = s.next /\ n.rev > s.rev

\* However the previews of a canvas overlap, the newest revision wins: only tasks of it are
\* active, and superseded snapshots lead forward to it (supersedeOlder, the canvas lock).
NewestPreviewWins == ActiveIsCurrent /\ LineageGoesForward
===============================================================================
