# Manbaa backend: TLA+ models

Models of the core of the NestJS backend in `src/src`: what its processes, requests and
message handlers do to shared rows, to the broker and to the object store when they
interleave, fail and are retried. Paths below are relative to `src/src` unless they start
with `src/`. Line numbers per definition are in `PROJECT.json` (`map`).

## 1. The system

One or more identical Node processes serve HTTP and WebSocket requests over PostgreSQL
(TypeORM), Redis, an object store and NATS JetStream. Workers (AI service, document worker,
divergence agent) are separate programs that talk through JetStream only.

| Component | State | Operations that change it | Talks to |
|---|---|---|---|
| Outbox (`modules/outbox`) | `outbox_event`: status, attempts, `available_at` | create (in the caller's transaction), claim, publish, record failure, revive | every service that emits domain events; JetStream |
| AI tasks (`modules/jobs`), usage, notifications | `ai_task`, `usage_reservation`, notification | create, cancel, five worker events, supersede | outbox, usage, canvas suggestions, realtime |
| NATS client (`infra/nats`) | consumers' loops | deliver, ack, nak, term and `onExhausted` after three deliveries | all consumers |
| Internal tokens (`core/internal-auth`) | used `jti`s in Redis | validate (consumes), verify (does not) | consumers of worker events |
| Canvas (`modules/canvas`) | `canvas` with its revision, objects, operation log | object edits, client operations, commit to a workflow version, annotations | workflows, realtime |
| Canvas AI previews | snapshots, their bytes, tasks | create, supersede, clean up | canvas, AI tasks, storage, outbox |
| Canvas coordinator, suggestions | debounce timers; suggestions | schedule; accept, reject | previews |
| Sources (`modules/sources`) | source and version rows, bytes, receipts | upload, four lifecycle events | storage, outbox, realtime |
| Workflows | `workflow`, `workflow_version` | create, PATCH, archive, export, share, duplicate | canvas, sessions |
| Sessions, messages, AI gateway, agents | `session`, `pipeline_execution`, messages, dead letters | FSM events, dispatch, result, divergence result | workflows, divergence, NATS |
| Divergence | reports | create, resolve by message | AI gateway |
| Applications | application, versions, publication | draft with its revision, version, publish, unpublish, rename, duplicate, archive | workflows |
| Rules | rules, snapshots of former versions, two caches per process | create, update, activate, deactivate, delete, import | AI tasks read them |
| Skills | skills with an embedding | create, update, remove, import a bundle | FastAPI |
| Comments | comments, approval flags inside a version's elements | create, reply, edit, resolve, assign, inject, approve | workflows, AI tasks |
| Documents | document rows, objects, requests to the preprocessing worker | upload, delete, edit text, reprocess, worker's result | storage, NATS, sessions |
| Concepts, assets | rows with a status, variations | create, generate, update, evaluate, approve, reject, archive | storage |
| Projects, share links | project, workflow, link with limit and count, audit rows | create, delete, share, view | workflows, audit |
| Auth, organizations, workspaces | users, members, invitations, refresh tokens | login, refresh, invite, accept, change role, suspend, remove | realtime |
| Realtime | sockets and rooms of each process | connect, join, leave, kick, emit | workspaces |
| Health | cached answer, heartbeats in Redis | GET, ping, alert | realtime, NATS |
| Audit, messaging contracts, core, database | append-only log; none | append | all |

What is hard here:

* **Unlocked read-modify-write.** Most handlers read an entity, await other calls and
  `save()` it. TypeORM's `save` is a SELECT, a comparison and an UPDATE of the columns in
  which the *copy* differs, so it also writes back columns somebody else changed meanwhile.
* **Several resources, one transaction at most.** Object store, broker and Redis are outside
  the database transaction.
* **At-least-once delivery with a limit of three**, one independent loop per subject.
* **Leases and retries** in the outbox, with timers in every process.
* **In-memory state** that dies with the process or differs between processes (`handledIds`,
  debounce timers, caches of rules, rooms of sockets).
* **Check, await, act.** Members are counted, sizes summed, names and roles looked up, and the
  row is written one or more awaited calls later.

`PROJECT.json` lists the hazards at their lines, each with the properties that would notice.

## 2. Modules

| Module | Models |
|---|---|
| `EventDelivery` | abstract: what the outbox promises to the services that write events |
| `Outbox` | the outbox; its refinement of `EventDelivery` |
| `AiTasks`, `AiTasksProofs` | tasks, worker events, cancellation, supersession, reservations; proofs |
| `CanvasEditing` | the revision, the objects and the operation log of one canvas |
| `CanvasPreview` (extends `CanvasEditing`), `CanvasProofs`, `MCCanvas` | preview requests on that canvas; proofs about both |
| `Sources`, `SourcesProofs`, `MCSources` | upload and the lifecycle of an uploaded source; proofs |
| `Workflows` | one workflow, its versions and the requests that write it |
| `Sessions` (extends `Workflows`), `SessionsProofs`, `MCSessions` | a session of that workflow, dispatch, results; proofs about both |
| `HttpRequests`, `RequestProofs` | base: a request as a process, TypeORM's `save` in two statements, faults; lemmas about requests |
| `Tables` (extends `HttpRequests`) | base: rows by table, insertion, edits of a copy |
| `Rules`, `Skills`, `Applications`, `LibraryProofs`, `MCLibrary` | what an organization keeps for its workflows; proofs about the three |
| `Comments`, `Documents`, `Creations`, `Projects` | comments and approvals; documents; concepts, assets, suggestions; projects and share links |
| `Health`, `Usage`, `MCCollaboration` | the health check; the usage row under its locks; composition with the four above |
| `CollaborationProofs` (extends `MCCollaboration`) | proofs about the six, and about the composition of the four |
| `Members`, `Realtime` (extends `Members`) | workspaces, members, invitations; sockets and rooms |
| `Accounts` | users and refresh tokens |
| `ServerProofs` (extends `MCServer`) | proofs about the outbox, about accounts, about members with the sockets, and about these together |
| `PreviewCoordinator`, `MCServer` | debounce timers (proofs in `CanvasProofs`); composition of the four |

`MCLibrary`, `MCCollaboration` and `MCServer` compose components that share no table: a
behaviour sends its requests to one of them, so what overlaps are requests of any kinds of
that component. Components that do share tables run together: previews on the canvas they
freeze, sessions on the workflow they write, sockets with the members they belong to, the
cascade of project deletion with the workflows created meanwhile.

### Outbox
`status`, `attemptCount` and `due` are the columns (`due` stands for `available_at <= now()`
and turns true at any moment: time is abstracted to that bit). A publisher's `pc`, `batch`,
`seen` and `current` are the local state of `publishBatch` and `publishOne`. `Claim` is the
claiming transaction; its `FOR UPDATE SKIP LOCKED` makes claims of different processes
disjoint, so they are taken one after the other. `PublishAcked`, `PublishRejected`,
`MarkPublished`, `MarkPublishedThrows` and `RecordFailure` are the awaited calls of
`publishOne`; the last one writes the attempt count from the copy read by the claim, as the
code does. `Crash` loses the local state. The history variable `overran` records the rows
that fell due while a publisher held them: properties about leases are about the others.

### AiTasks
A handler takes the steps `Load` (token, row), `Diff` and `Write` (the two statements of
`save`, in `finish` with the settlement in the same transaction), `Notify` and `Report`.
`Cancel` locks the row and is one step. `LoadForSupersede`, `Diff("supersede")` and
`WriteSuperseded` are what a newer preview does to an older task. `TokenAccepted` is the
one-time check of the `jti`; `AfterError` is the consumer's decision to redeliver or to
terminate. `applied` is a history variable.

### CanvasEditing and CanvasPreview
`EditObject` and its four uses are the server's own edits under the canvas lock;
`ReadCanvas` and the five answers are `createOperation`, whose first read is before the
lock. `RowAccepted` is what the constraints of `canvas_operation` demand. A preview request
holds the canvas lock from `Freeze` to `Persist` (or its failure); the bytes are stored in
between, and `Cleanup` runs after the lock is gone. A task's own life is `AiTasks`: here it
ends in one step (`TaskEnds`), and a handler that read it earlier may write it back
(`StaleWrite`). `past` is a history of the objects by revision.

### Sources
`StoreSource`, `CommitUpload` with its two ways to fail, and `CleanUp` are `upload()`. Each
of the four consumers looks the receipt up (`Receive`), applies the event in one transaction
(`Apply`) and is acknowledged later (`Acknowledge`), so a crash in between redelivers an
event that was committed. `Transition` is `applyTransition`; the status of the source and of
its version are written together and are one variable.

### Workflows and Sessions
`copy`, `next` and `dirty` of a job are the request's entity, the version number it computed
and the columns `save` found different. A behaviour begins inside `create()`, which is not a
transaction: the row is inserted with `current_version` 0, `InsertFirst` adds version 1, and the
last call saves the copy with `current_version` 1. A crash in between leaves 0, and a writer
that comes in between may be overwritten. `Patch`, `ReadCurrent`, `InsertVersion`, `Diff` and
`Save` are the awaited calls of `update()` with `elements_json`; `Edit` is the same without;
`CommitCanvas` uses a stale number, and `NumberFree` is the unique constraint. In `Sessions`,
a dispatch stores the message, saves the execution, publishes the task, saves the execution
again with the id of the broker's message (`DiffExecution`, `NameExecution`) and only then saves
the session; the result handler goes step by step from `ReceiveResult` to `Report`, and throws where the FSM refuses (`SaveResultThenThrow`). Near its end it saves an
execution it read at its start (`DiffExecution`, `CompleteExecution`): each of the two may write
back what the other has stored (`ExecutionCopy`). `handled` and `compared` are the in-memory
`handledIds` of the two handlers; `dropped` is a history of the id a result was dropped for.
Rules of the FSM for events nobody raises are left out; the override is modelled with
`force`; archiving does not cascade.

### HttpRequests and Tables
`job` holds the phase of a request and what it remembers. `Begins`, `Goes`, `Ends` and
`Answered` move it; each phase is one awaited statement. `DiffRow` and `WriteRow` are the two
statements of `save`: `dirty` are the columns in which the copy differs at the SELECT, and
`Written` writes these columns of the copy only. `Fails` is a throwing call or a dying
process at any phase. `alone` is a history variable: the requests nobody overlapped with.

### Rules, Skills, Applications
`Rules` keeps rows, snapshots and, per process, the cached list of active rules and the
simulation results; a reader misses, reads and only then caches. `update` stores the snapshot
of the copy and then saves it with the next version. `import` compares each item with the
cached list. In `Skills` an embedding is the text it was made from and is made by a call
between the read and the write; the bundle's index runs over all items, the list of
embeddings over those that passed, in their order (`InOrder`); the history `skewed` has the
skills for which the two disagree. In `Applications` the operations that lock the row are one
step, `update` and `archive` save an unlocked copy; the validator is evaluated on small trees
(depth, nodes, pages, duplicate ids, unknown types).

### Comments, Documents, Creations, Projects
Approvals read the newest version's element array and write it back whole. An upload checks
size and type, sums the session, stores the object, inserts the row and queues the request;
results are delivered until a handler ends without an error. `Creations` holds the three
status machines that are copies of a row; a variation is numbered after the newest version below
its root (`ReadNewestVersion`), while `CreateAsset` stores version 1 under any parent the client
names. `Projects`
deletes workflows, versions and links in one transaction, which the audit trigger refuses as
soon as a workflow was audited; a link's view is a check and, in a second statement, a count.

### Usage and Health
`Usage` takes row locks one by one in the order of the code (`todo`) and holds them to the
commit; a transaction in a cycle of transactions that wait for one another is rolled back
(`Deadlock`), one that finds no usage row inserts it and may lose against the unique key. Sums
are counts (`Reported`, and `SessionBytes` of `Documents`): an amount is a set of that size. `Health` runs the checks of a
request in parallel with ages, keeps the answer for the cache's lifetime, alerts on a change
and lets the ping write the same cache; if Redis does not answer about the workers, the request
fails and caches nothing (`FailCheck`).

### Members, Realtime, Accounts, PreviewCoordinator
`Members` reads the caller, the target and the number of other owners in separate
statements and saves the copy; accepting an invitation writes the seat without asking for
another owner (the history `resigned` tells when the only one took another role by it).
`Realtime` allows a join and performs it later. Clients leave any room they like, also the one of
their own user, by which `disconnectWorkspaceMember` finds sockets (the history `unseen`). A
socket of the process that serves the request is closed at once, one of another process only
when that process receives what was published (`ordered`, `ObeyOrder`); `hasListeners` asks the
local adapter, which knows the sockets of its own process. `Accounts` rotates a token in one transaction after an unlocked read; revoking
the family upon reuse is undone by the exception that reports it. `PreviewCoordinator` has a
clock; an entry is the record of the map, and a callback acts only on the entry it was made for.

### Abstractions common to all
A transaction, or a single statement, is atomic; one that throws was not applied, except
where a lost acknowledgement is an action of its own. Requests that only read or that are
refused for permissions are left out. The broker delivers a message to one handling at a
time: a redelivery by `ack_wait` while a handler of the same message still runs (over 30 s)
is not modelled. Payloads, texts and broadcasts are left out. A fault (a call that
throws, a process that dies) may strike at any step; a run bounds how many do (`MaxFaults`,
`MaxCrashes`).

## 3. Runs

| Run | Configuration | Checks |
|---|---|---|
| `outbox` | two processes, two rows, batches of two, two attempts, one crash, one revival; fair | `PublishedIsInStream`, `NeverStranded`, `LeaseExcludes`, `PublishedIsFinalWithinLeases`, `ImplementsDelivery`, `EventuallyDelivered`, `EventuallyQuiet` |
| `ai_tasks` | one task, the events started, progress, completed and cancelled, a cancelling user, a superseding preview, two deliveries, one fault; fair | `TerminalIsSettled`, `AppliedAtMostOnce`, `NotifiedIsSettled`, `SettledOnce`, `SettlesWithoutFaults` |
| `ai_tasks_lost` | one task, one kind, three deliveries, one fault; fair | `TerminalEventSettles` is **violated** |
| `canvas` | one object, two operation requests, two previews, three keys of two workspaces, two revisions, one fault | `LogIsDense`, `RetryIsRecognised`, `SnapshotIsRevision`, `BytesLostOnlyByOwnKey`, `NewestPreviewWins` |
| `canvas_delete` | the same | `DeletionTakesEffect` is **violated** |
| `sources` | one upload, two runs of the worker, two deliveries, one fault besides a rolled-back upload | `StoreMatchesRows`, `StagesInOrder`, `SettledWhenQuiet`, `OutcomeIsFinal` |
| `sessions` | `create()` and two requests of ten kinds after it, or one that overlaps it; two tasks, two deliveries, one fault | `VersionsSound`, `ResultsAccountedFor`, `ArchivedStays` |
| `workflows_patch` | `create()` that nobody overlaps, then three PATCHes; no fault | `PatchCreatesVersion` is **violated** |
| `library` | three requests to rules, skills or applications on two processes, one failed call | `RuleHistoryComplete`, `StaleCacheIsExplained`, `ConflictsAreRaces`, `EmbeddingIsOfContent`, `AppVersionsDense`, `ServedIsPublished` |
| `collaboration` | three requests to comments, documents, creations or projects, one failed call; or two health checks and a ping; or three transactions on the usage row, one failed | `DocumentsSound`, `CreationsSound`, `ProjectsSound`, `HealthIsRecent`, `UsageIsAccounted`, `UndisturbedDecisionsStick` |
| `project_delete` | a project with one audited workflow, no fault | `DeletionCascades` is **violated** |
| `server` | three requests to accounts or two to members, one failed call; one socket on one of two processes; the timers of one canvas with four edits (the proof covers any number) | `ManagersRemain`, `RoomsAreOfMembers`, `OneLiveTokenPerFamily`, `EditsAreServed` |

The type invariants are definitions of each module; those of `Outbox`, `AiTasks` and
`Sessions` are theorems. What a property says and which code it is about stands above its definition.

**Bounds.** Two of everything that races (processes, requests, previews, transactions) is where
the overlaps appear; a third request lets two that overlapped be followed by one that runs
alone and meets what they left. Two rows and two attempts let a row be claimed, overrun, fail,
be given up and be revived while the other one is in the same batch. Two deliveries instead of
three keep first, last and a redelivery in between faults; the counts are parameters of the
proofs. One fault per run is enough for each single failure at each point, not for two
independent ones. `MCServer` bounds requests further: members get two requests only, of
the three to accounts two are refreshes or changes of users, where the races are, and beside
requests to members sockets are in the rooms of users and workspaces only (`FewRooms`): no
request reads another room. `MCSessions` lets two requests follow a `create()` that nobody
overlapped, or one overlap it (`FewBegin`). In `ai_tasks` the event failed is left out, because
it does to a copy what completed does.
`CHECK_DEADLOCK FALSE` everywhere: a run may end when its requests, rows and faults are used
up, as the system may be idle. Symmetry (requests, processes, keys) is used in runs without
liveness only.

**Fairness.** Outbox: each publisher's timer keeps firing (`setInterval`), an awaited call
ends (the NATS and database clients time out), the clock advances: weak fairness of `Claim`,
of the publication and of the settling update, and of `TimePasses`. AI tasks: the broker
delivers what is queued and the handler's awaited calls end: weak fairness of `Receive` and
`Proceed`. Nothing forces users, workers, operators, services or faults.

**Exceptions inside properties.** Many properties say exactly when the code may fail to keep a
promise, because it does. Most often the exception is a race: two requests that overlapped
(`~alone`) may contradict each other, demote the last owner, pass a limit or write an old
column back, and the property says that nothing else does; two refreshes of one login, each
overlapped, may both leave a token. Others: the only owner of a workspace is lost when they
accept an invitation to another role; a socket whose client left its own user room stays in the
rooms of a workspace it was removed from; assets made by `create()` under one parent share
version 1; bytes of a snapshot may be
lost to a failed transaction under the same idempotency key; bytes of a source when the
commit's acknowledgement is lost; a retry is refused if the canvas was bound to a workspace
after it was read; a result is dropped when another one was handled under the same execution;
an archived session comes back through a writer already at work, a divergence result or an
override; a cache of rules may be stale if a writer is at another process. Everything else is
excluded.

## 4. What the violated runs show

1. `ai_tasks_lost`: the token of a worker event is consumed before the work, so after a fault
   every redelivery is refused as a replay and the reservation is held for good
   (`src/docs/PLATFORM_INTEGRATION.md:9`). Without a fault nothing is redelivered and a terminal
   event always settles, whatever other writers do (`SettlesWithoutFaults`).
2. `canvas_delete`: the operation logged by a deletion refers to the row just removed; the
   foreign key refuses it, always (`src/docs/DEV3_INTEGRATION_SUMMARY.md:64`).
3. `workflows_patch`: overlapping PATCHes set `current_version` back, after which PATCHes fail
   on the unique number (`src/docs/Backend_Issues.md:362`). A PATCH that overlaps the last call
   of `create()` does the same, and so does a `create()` that dies after version 1.
4. `project_delete`: the cascade reaches the audit rows of a workflow, whose deletion a trigger
   refuses; a project that ever had a workflow cannot be deleted (`src/docs/API.md:34`).

Statements of the repository that the modules also hold as definitions, that no run lists, and
that TLC refutes when one is added to a configuration:

* `AiTasks.SettlementMatchesOutcome` (`src/docs/USAGE_AND_QUOTAS.md:3`): a cancellation between
  read and write of the completed handler leaves a completed task with released usage.
* `Sources.RetriedUntilPrerequisite` (`modules/sources/source-lifecycle.service.spec.ts:291`): a
  stage that comes early is redelivered three times only.
* `Skills.OneCatalog` (`modules/skills/services/skills.service.ts:65` and 288): two overlapping
  creations leave two active catalogs. The import also gives an item the place of another one
  once an item before it was refused.
* `Applications.RevisionProtectsDraft` (`modules/applications/dto/application.dto.ts:77`):
  creating a version makes its schema the draft without raising the revision, so a draft guarded
  by the revision its author saw replaces a draft the author never saw.
* `Realtime.EventsReachListeners` (`modules/realtime/realtime.gateway.ts:194-199`): whether
  anybody listens is asked of the local adapter, so an event for listeners at another process
  is not emitted.

Noted while modelling: a `create()` of a workflow that dies after its second call leaves
`current_version` 0 beside version 1, and every PATCH is refused from then on; the only owner of
a workspace can accept an invitation to another role there; a client that leaves its own user
room is no longer found by `disconnectWorkspaceMember`, so it keeps receiving the events of a
workspace it was removed from; two assets created under one parent share version 1; sharing a workflow again without options keeps the former limit and
expiry, and a limit of 0 is no limit; `workflow create` does not check that its project
exists, and its final `save` inserts the row again if it was deleted meanwhile; a ping before
the first health check makes `/health` answer ok and name no service; the first bad statuses of
a process are never announced; the NATS indicator asks nothing of NATS; revoking a token family
upon reuse is rolled back with the transaction that throws; `cleanupExpired()`, `markStale()`,
the limit of a reservation, the coordinator's entry points and `StreamTokenHandler` have no
caller; the first two completions of a workspace race for the unique key of its usage row;
`workflow.updated` of a result is published with an empty `correlation_id`
(`generation-complete.handler.ts:229`), from which the message id for the broker's duplicate
detection is made; equal preview targets are never recognised because PostgreSQL reorders the
keys of a `jsonb` value (`canvas-ai-preview.service.ts:256`).

## 5. Proofs

TLAPS checks these for all values of the constants (any number of processes, rows, tasks,
attempts, deliveries, canvases, faults), assuming only the named `ASSUME`s of the modules. All
safety properties of the passing runs are theorems; the last paragraph says what TLC alone
checks.

**`ServerProofs`, outbox.** The invariant `OutboxInv` adds to the checked properties what makes them
inductive: a publisher's current row is in its batch (`CurrentHeld`), an acknowledged
publication is in the stream (`AckedIsInStream`: `MarkPublished` happens one step later), the
attempt count it read at the claim is below the limit (`SeenBelow`: `RecordFailure` adds one
to it, so `NeverStranded` needs it even when the row was rewritten meanwhile), held rows exist
(`HeldExists`), and a held row that did not overrun is leased and not due (`LeaseIntact`: a
claim takes due rows only, hence `LeaseExcludes`, and no other publisher can move the row out
of published). Theorems: `TypeCorrect`, `PublishedOnlyIfStored`, `NoRowStranded`,
`LeaseIsExclusive`, `PublishedFinal` and the refinement `OutboxRefinesDelivery`, action by
action: a claim rewrites a whole batch but changes no report.

**`AiTasksProofs`.** `TasksInv` adds: a row exists exactly when it has a reservation
(`RowReserved`), events exist for existing tasks (`SentExists`), a writer is where its copy
says (`WriterOK`), a copy is never further than its handler makes it (`EntityOK`: what a stale
write can bring back), deliveries remain for what is queued (`DeliveriesLeft`), a handling
under way has consumed its token and not yet been applied (`TokenOK`), and a notification is
of a write that was committed (`NotifyOK`). The core of the argument: every write that moves
a row to a final status settles the reservation in the same transaction, settling is
idempotent, and no settled reservation goes back; so whichever stale copy wins, no quota is
held at rest. Theorems: `TypeCorrect`, `NoQuotaHeldAtRest`, `FullProgressSettled`,
`EventsAppliedOnce`, `NotificationsFollowCommit`, `ReservationsSettleOnce`.

**`CanvasProofs`, timers.** `TimersInv` says that the map and the timers of the event loop
are in step (`InStep`: a timer runs exactly for the entry that the map holds) and that a
canvas has no entry and no unserved edit, or one entry of the newest revision that falls due
at most `MaxDebounceMs` after the first unserved edit (`Kept`). It is inductive because
`EntryInTime` shows that the new entry of an edit counts from the first edit of the old one,
and because an expiring timer is the map's, so its callback never finds another entry
(`ExpireKeeps`). `EveryEditHasItsTimer` follows: `EditsAreServed` for any delays.

**`SourcesProofs`.** `SourcesInv` says per upload what its phase implies about bytes and rows
(`UploadOK`), that events are of sources that exist and have deliveries left while they are
queued (`SentExists`, `DeliveriesLeft`), that a consumer at work holds an event of its kind
whose receipt exists once it committed (`JobOK`), and that a receipt means its stage was
reached (`ReceiptsTell`). The last one carries the argument: `applyTransition` never leads out
of the statuses `After` an event (`TransitionChanges`, `TransitionIgnores`), so a redelivery
after a crash finds the stage passed. Theorems: `BytesFollowRows`, `NoStageSkipped`,
`OutcomeStays` and `NothingLostSilently`, the safety half of what a caller waits for.

**`CanvasProofs`, canvas.** `CanvasInv` relates the log, the history of the objects (`PastInv`), the
requests (`RequestsInv`), snapshots (`SnapshotsInv`), tasks (`TasksInv`) and previews
(`PreviewOK`). Three facts make it inductive. What a preview froze is the present canvas as
long as it holds the lock, and only one holds it (`OneFrozen`), so the version it counted and
the revision it read are still the next and the present ones when it persists
(`FrozenFacts`). Superseding rewrites snapshots without adding or merging any
(`SupersedeCounts`: the rewriting is injective on ids, so their number, from which the next
version is counted, stays). And a request's reading before the lock can only be of the present
workspace or of none, as the binding never changes. Theorems: `LogStaysDense`,
`RetriesAreRecognised`, `SnapshotsAreRevisions`, `CleanupIsOwn`, `NewestWins`.
`PreviewAssumption` asks of the constants what the code gives: every key is of one workspace,
and the markers for "none" are none of the values.

**`SessionsProofs`.** The invariant has six parts, because the properties rest on different
things. `WorkflowInv`: the numbers of versions are 1..n, a copy's current version is one of
them or 0, and the number a writer is about to insert is between 1 and n + 1 (`WriterOK`; a
`create()` inserts 1); versions only become more, so a stale number is either n + 1 or refused
by the unique constraint (`FreeNumberIsNext`), whoever inserts it. `QueuesInv`: a queued message
has deliveries left and a message given up has its dead letter unless the process died
(`MessageOK`). `TasksInv`: an execution is left for every posted message, so whatever is
published has one. `LedgerInv`, what became of the results: a request that dispatches holds an execution of its own that has no id yet
(`DispatchInv`), a result at work is handled under the id its execution has, or under none
(`CurrentInv`), and each applied or dropped result names an execution no older than its own that
was handled under that id and is completed. An id results were handled under stays with its
execution: the copy of a result carries the id it is handled under, and a copy read before the
id was stored may erase it, but no result was handled under it then. A late copy of the dispatch
still says pending, but no result was handled yet under the id that it is about to store.
`SessionInv`: whoever read the session after it was archived, and heeds the FSM, holds an archived copy (`ArchivedOK`), and no rule of the
FSM leads out of archived. `QuietInv`: while nobody overlapped and nothing failed, the one
writer at work has the newest number, and the row has it too, except that a result inserts its
version before it saves the workflow (`UpToDate`). Theorems: `TypeCorrect`,
`VersionsAreSound`, `EveryResultIsAccountedFor`, `ArchivedSessionsStay`. Assumed: requests are
finitely many, since posted messages are counted against the bound on executions.

**`RequestProofs`.** Lemmas on `HttpRequests`, for the components built on it: a step changes
its own job only, the kind of a job stays, and a request that was alone until now is the only
one at work (`Solitude`), so every step of another one takes that from it (`Steps`). And the
smallest free id is one (`SmallestElement`, by well-foundedness).

**`LibraryProofs`, rules and applications.** For rules, `RuleInv` says of a change under way that it will save the
version after the one it read, and that the history of the row reaches up to the version it
read, including it once it is snapshotted (`ChangeOK`). History only grows and rows stay, so
this holds whatever others save meanwhile, and the save, even of a stale version, leads to a
version whose predecessors are all there: `RulesKeepTheirHistory`. For applications, `AppInv`
says that rows and the copies which `update()` and `archive()` will write back name versions
that exist or none (`AppRowOK`); the numbers of versions are 1..m, so `createVersion` adds
m + 1 or is refused: `VersionsAreNumbered`. `PublishedIsMarked` needs in addition that the copy
of a save nobody overtook agrees with the row on what is published (`CopyOK`), which `Solitude`
gives: a step of another request makes it overtaken (`Raced`). `RulesAssumption` says that ids
count from 1 and that imported bundles are non-empty with versions from 1 (the DTO's
validators), `AppsAssumption` that ids count from 1.

**`LibraryProofs`, caches and conflicts.** `CachesInv` says of a cached list or simulation
which request is to blame when it differs from the table: its reader, who overlapped, or a
writer that this process does not know of, because it works elsewhere, has failed, or has
saved and not yet forgotten the cache (`ListOK`, `ResultOK`). It is inductive because a reader
that is still alone holds the table as it is (`ReaderOK`), and because the writer at this
process that has just saved is at its last step, which clears what it has made stale. For
conflicts, a change that is alone has checked its copy against the very table it is written to
(`RuleCopyOK`, `CheckedOK`), and an imported bundle was compared with the list its request was
given (`BundleIsClean`): a clash therefore has a writer that overlapped, or an import whose
list somebody had made stale (`Caused`). Theorems: `CachesAreExplained`, `OnlyRacesConflict`.

**`LibraryProofs`, skills.** Between the read of a skill and its write lies the call that makes
the embedding. A request that is alone compares a copy whose embedding is of its content, and
differs from the row in the columns it has found (`EditOK`), so what it writes is sound as a
whole. In an import the i-th item gets the i-th embedding (`ImportOK`): an item whose index
agrees gets its own, and every other one comes after a refused item and is in `skewed`.
`SkillsAreFound` says that nothing else goes wrong. `SkillsAssumption`: bundles are finite and
ids count from 1.

**`CollaborationProofs`, health.** `HealthInv` carries a time with every result: a check that
found its service good was followed by a good sign from the time at which it began
(`Signed`), the checks of a request take at most `MaxProbe` (`ChecksInv`), and what is cached
is no older than that (`AnswersInv`); a worker's heartbeat may be older by `StaleAge`. A check
that fails leaves the cache as it was.
`AnswersStayRecent` adds the lifetime of the cache. `HealthAssumption`: delays are numbers,
there is a service to ask, and services and workers have different names.

**`CollaborationProofs`, comments, creations, documents, projects.** Each action is reduced to
the effect of one request on the rows and on its own job (`CommentEffect`, `DocEffect`, ...),
and one lemma per component shows that an effect keeps the invariant of all other requests.
The invariants say what a copy has in common with its row. Where a promise holds for a request
that was alone, they say what it has counted, numbered or found free, and that this is so until
it writes: the bytes of the session and the next version (`NewDocOK`), a free name, room for
one more view (`LinkOK`). What was decided by a request that was alone must also be in every
copy that is still to be written (`ResolvedStays`, `ApprovedStays`, `ClosedOK`,
`DeletedStays`): those copies were read afterwards. A variation that is alone inserts one more
than the newest version it read below its root, hence none that is taken, and at least 2; only
`create()` and `generate()` insert version 1 (`NewRowOK`), so whoever shares a version shares
that one. Theorems: `CreationsStaySound`,
`ProjectsStaySound`, `DocumentsStaySound`, `ClosedCreationsStay`, `CommentDecisionsStay`,
`DeletionsStay`. Assumed: no request is called "none" (`Projects`), and sizes of files are
numbers (`SizesAssumption` of `Documents`).

**`CollaborationProofs`, composition.** `CollaborationInv` says of each of the four components
that its invariant holds as long as only its requests were sent, and that nothing has touched
its rows before the first one; the actions of a component leave rows of other tables alone
(`RowOf`, `ProjectTables`), and the first request of a behaviour settles which component it is
(`OnlyOne`). `DecisionsStick` is the property as the run checks it, of the specification that
TLC runs.

**`CollaborationProofs`, usage.** `UsageInv` says that an open transaction stands on the path of
its locks (`PathOK`), that two hold no row in common (`Apart`), that one which settles a
reservation holds its row and finds it reserved, and that one which found the total holds the
usage row, so the total is still what it found (`TxOK`). Hence no amount is lost or counted
twice, although every completion adds to a number it has read. For deadlocks: creations,
completions and releases alone take their locks in orders that fit, except that a preview takes
the usage row first and a completion last, so a cycle of waiting transactions needs one of
each. `UsageStaysAccounted` is the whole property; sets of reservations and transactions are
assumed finite (`UsageAssumption`).

**`ServerProofs`, accounts.** `AccountSpec` begins with an empty database, so every family of
tokens begins with a registration or a login and is named for it; a family is unused until
that request inserts its token (`BeginsFamily`, `Unused`), and afterwards a rotation replaces
one token by one. The token read by a refresh that is alone has not been revoked since
(`RefreshOK`); whether alone or not, what a refresh holds is the last live token of its family,
unless another refresh, itself overlapped, has rotated it meanwhile (`HoldsLast`, `RotatedAside`).
So two live tokens of a family have two such refreshes behind them: `FamiliesHaveOneToken`. Two
refreshes that overlap are not covered, because nothing in the code orders them. For users, a
change that removes an admin and is alone has counted another admin, who is still there when
it is written (`ChangeOK`): `AdminsRemain`. `save` writes columns of a stale copy; the proof
goes column by column.

**`ServerProofs`, members and sockets.** Both tables of members are treated as one kind of row,
a seat. `MemberInv` says of a change of a seat that its copy is of a seat still there, of the
same person in the same place, and that an owner's change which is alone has another owner
beside it (`SeatChangeOK`). A workspace with an invitation has had members ever since it was
founded (`Peopled`), so an acceptance takes the owner away only if it is the only owner's own,
which `resigned` records: `OwnersRemain`. Every action is reduced to an effect on the seats
(`MemberEffect`: none, a change, one taken by invitation, one founded with a workspace), and
`MembersKept` shows that only a disconnecting request, or a role change that was overtaken,
ends a membership. `RoomsInv` says of every room that a live socket is in, *or is about to
join*, that its user is a member, or that some request still has to disconnect this very socket
(`Disconnects`), or that its closing has been published or it was not found (`Marked`; together
`Admitted`). The request holds the user's name before it has fetched the sockets and the sockets
themselves afterwards; a live socket of that user is in what was fetched unless it had left its
user's room, and then it is in `unseen`. An order that is obeyed closes the socket, so a mark
is lost only with the life of its socket. Without the joins under way the invariant would not be
inductive; with them `MembersOnlyInRooms` follows, without an assumption on what clients do.
`RealtimeSpec` begins with staffed organizations and no workspace.

**`ServerProofs`, members and accounts together.** `ManagersStay` is about `ServerSpec`, the
specification of the run, with its first rows and its bounds but for any number of requests,
sockets, processes and failed calls. A request keeps its kind (`AccountSteps`, `MemberSteps`,
`SocketSteps`), so once one has begun, all are about members or all are about accounts, and
`ServerInv` holds the invariant of the side that has begun, of both sides while nobody has. What
remains excepted are overlapping requests that manage and, for the workspace it names alone, the
acceptance by its only owner of an invitation to another role, which one request does by itself.
The other side has sent nothing, so its rows alone must show a manager, and they are not
touched: requests to accounts write users and tokens only (`AccountsTouchUsers`), requests to
members never do (`MembersTouchSeats`). An invitation can fall due only after a request has
made one. The family of the first token is none that a login could begin
(`LoginAssumption`).

Only model-checked: the liveness properties `EventuallyDelivered`, `EventuallyQuiet` and
`SettlesWithoutFaults` (fairness and ENABLED are out of the prover's reach). The theorems of
`library` and, but for `ManagersStay`, of `server` are about the components on their own, as a
behaviour of these runs sends its requests to one of them.

## 6. Not modelled, and the plan

Not modelled at all: messaging contracts (types, subjects and schemas: declarations) and core
plumbing (configuration, error formatting, logging). Left out of modelled components: reads,
searches, exports and statistics; settings and listings of organizations; hashing, signatures
and rate limits of auth; the Elsa conversion and comparison of workflows (a duplication takes the
steps of `create()`, with which `Workflows` begins, but a second workflow beside the first is not
modelled);
annotations and share links of a canvas; progress messages and the replay of dead letters; the
cascade of a session's archival.

The plan is carried out: every component in the table above that keeps state of its own has
a module, every run's safety properties are proved, and liveness stays with TLC. What could
follow is breadth: the parts left out above, beginning with the share links of a canvas and the
cascade of a session's archival, which write the rows modelled here.
