------------------------------- MODULE Creations -------------------------------
(***************************************************************************)
(* Concepts, assets and canvas suggestions of a workspace                  *)
(* (src/modules/concepts, assets, canvas-ai-suggestion.service.ts): rows   *)
(* with a status that editors move, each request by a copy of the row.     *)
(* The caller's role is read first and is an editor's.                     *)
(*                                                                         *)
(* Nothing in the repository moves a concept or an asset from generating   *)
(* to generated, and nothing calls markStale(): concepts can only be       *)
(* created, renamed and archived, and no suggestion is ever stale.         *)
(***************************************************************************)
EXTENDS Tables

CONSTANTS Titles   \* titles and stored objects

ConceptKinds == {"concept_create", "concept_generate", "concept_update", "concept_evaluate",
                 "concept_approve", "concept_reject", "concept_archive"}
AssetKinds == {"asset_create", "asset_update", "asset_generate", "asset_variation",
               "asset_approve", "asset_reject"}
SuggestionKinds == {"suggestion_result", "suggestion_accept", "suggestion_reject"}
CreationKinds == ConceptKinds \cup AssetKinds \cup SuggestionKinds

NewConcept(status, title) == [status |-> status, title |-> title]
NewAsset(status, file, parent, version) ==
  [status |-> status, file |-> file, parent |-> parent, version |-> version]
NewSuggestion(task) == [status |-> "ready", task |-> task, decided |-> {}]

NewRow(q, kind, table, next) ==
  Begins(q, [kind |-> kind, at |-> NoProcess, phase |-> "insert", row |-> <<table, 1>>,
             next |-> next, dirty |-> {}, then |-> "ok"])

Edit(q, kind, id, allowed, next) == Edits(q, kind, NoProcess, id, allowed, next, "ok")

-------------------------------------------------------------------------------
CreateConcept(q) ==
  \E t \in Titles, k \in {"concept_create", "concept_generate"} :
    NewRow(q, k, "concept", NewConcept(IF k = "concept_create" THEN "draft" ELSE "generating", t))

UpdateConcept(q) ==
  \E id \in Existing("concept"), t \in Titles :
    Edit(q, "concept_update", id, TRUE, [rows[id] EXCEPT !.title = t])

EvaluateConcept(q) ==
  \E id \in Existing("concept") :
    Edit(q, "concept_evaluate", id, rows[id].status = "generated",
         [rows[id] EXCEPT !.status = "evaluated"])

\* approve() and reject().
DecideConcept(q) ==
  \E id \in Existing("concept"), d \in {"concept_approve", "concept_reject"} :
    Edit(q, d, id, rows[id].status \in {"generated", "evaluated"},
         [rows[id] EXCEPT !.status = IF d = "concept_approve" THEN "approved" ELSE "rejected"])

ArchiveConcept(q) ==
  \E id \in Existing("concept") :
    Edit(q, "concept_archive", id, TRUE, [rows[id] EXCEPT !.status = "archived"])

-------------------------------------------------------------------------------
\* create(): with a stored object the asset counts as generated.  The client may name any asset
\* as the parent (the foreign key refuses an id that is none), and the version is always 1.
CreateAsset(q) ==
  \E f \in {{}} \cup {{t} : t \in Titles}, parent \in {{}} \cup {{id} : id \in Existing("asset")} :
    NewRow(q, "asset_create", "asset",
           NewAsset(IF f = {} THEN "draft" ELSE "generated", f, parent, 1))

GenerateAsset(q) == NewRow(q, "asset_generate", "asset", NewAsset("generating", {}, {}, 1))

\* update() of the object; approved and rejected assets keep their status.
UpdateAsset(q) ==
  \E id \in Existing("asset"), t \in Titles :
    Edit(q, "asset_update", id, TRUE,
         [rows[id] EXCEPT !.file = {t},
                          !.status = IF @ \in {"draft", "failed"} THEN "generated" ELSE @])

\* approve() and reject().
DecideAsset(q) ==
  \E id \in Existing("asset"), d \in {"asset_approve", "asset_reject"} :
    Edit(q, d, id, rows[id].status = "generated",
         [rows[id] EXCEPT !.status = IF d = "asset_approve" THEN "approved" ELSE "rejected"])

Root(id) == IF rows[id].parent = {} THEN id ELSE CHOOSE r \in rows[id].parent : TRUE
Variations(r) == {id \in Existing("asset") : rows[id].parent = {r}}

\* requestVariation(): the parent is read, then the newest version below the root.
RequestVariation(q) ==
  \E id \in Existing("asset") :
    Begins(q, [kind |-> "asset_variation", at |-> NoProcess, phase |-> "version", row |-> id,
               next |-> NewAsset("generating", {}, {Root(id)}, rows[id].version),
               dirty |-> {}, then |-> "ok"])

\* A variation numbered after its parent alone.
ReadParentVersion(q) ==
  /\ At(q, {"asset_variation"}, "version")
  /\ job' = [job EXCEPT ![q].phase = "insert", ![q].next.version = 1 + job[q].next.version]
  /\ UNCHANGED <<alone, faults, rows>>

ReadNewestVersion(q) ==
  /\ At(q, {"asset_variation"}, "version")
  /\ LET root == CHOOSE r \in job[q].next.parent : TRUE
         newest == Max({1} \cup {rows[v].version : v \in Variations(root)})
     IN job' = [job EXCEPT ![q].phase = "insert",
                           ![q].next.version = 1 + Max({job[q].next.version, newest})]
  /\ UNCHANGED <<alone, faults, rows>>

-------------------------------------------------------------------------------
Of(task) == {id \in Existing("suggestion") : rows[id].task = task}

\* createOrUpdate() after a completed task: a suggestion of the task is made ready again.
SuggestionResult(q) ==
  \E task \in Titles :
    IF Of(task) = {} THEN NewRow(q, "suggestion_result", "suggestion", NewSuggestion(task))
    ELSE \E id \in Of(task) :
           Edit(q, "suggestion_result", id, TRUE, [rows[id] EXCEPT !.status = "ready"])

Decision(kind) == IF kind = "suggestion_accept" THEN "accepted" ELSE "rejected"

\* accept() and reject() that do not look at the status.
DecideAgain(q) ==
  \E id \in Existing("suggestion"), d \in {"suggestion_accept", "suggestion_reject"} :
    Edit(q, d, id, TRUE, [rows[id] EXCEPT !.status = Decision(d), !.decided = @ \cup {Decision(d)}])

\* accept() and reject(), with their timestamps.
DecideSuggestion(q) ==
  \E id \in Existing("suggestion"), d \in {"suggestion_accept", "suggestion_reject"} :
    Edit(q, d, id, rows[id].status = "ready",
         [rows[id] EXCEPT !.status = Decision(d), !.decided = @ \cup {Decision(d)}])

-------------------------------------------------------------------------------
SaveCreation(q) ==
  \/ InsertRow(q, ConceptKinds, "concept")
  \/ InsertRow(q, AssetKinds, "asset")
  \/ InsertRow(q, SuggestionKinds, "suggestion")
  \/ DiffRow(q, CreationKinds)
  \/ WriteRow(q, CreationKinds)

CreationFails(q) == job[q].kind \in CreationKinds /\ Fails(q) /\ UNCHANGED rows

CreationNext ==
  \E q \in Requests :
    \/ /\ \/ CreateConcept(q) \/ UpdateConcept(q) \/ EvaluateConcept(q) \/ DecideConcept(q)
          \/ ArchiveConcept(q) \/ CreateAsset(q) \/ GenerateAsset(q) \/ UpdateAsset(q)
          \/ DecideAsset(q) \/ RequestVariation(q) \/ SuggestionResult(q) \/ DecideSuggestion(q)
       /\ UNCHANGED rows
    \/ ReadNewestVersion(q) \/ SaveCreation(q) \/ CreationFails(q)

\* The creations on their own, from an empty database of n rows a table.
CreationInit ==
  RequestInit /\ \E n \in Nat : rows = [id \in {"concept", "asset", "suggestion"} \X (1..n) |-> NoRow]
CreationSpec == CreationInit /\ [][CreationNext]_<<requestVars, rows>>

\* Among the assets below one root a requested variation has a version of its own: two that
\* share one are both of version 1, made by create() with that parent, unless requests for
\* variations were overlapped.  And a suggestion is accepted or rejected and never both,
\* unless its requests were overlapped or a second result reopened one.
CreationsSound ==
  /\ \A x, y \in Existing("asset") :
       x # y /\ rows[x].parent # {} /\ rows[x].parent = rows[y].parent
             /\ rows[x].version = rows[y].version
         => \/ rows[x].version = 1
            \/ \E q \in Requests : job[q].kind = "asset_variation" /\ ~alone[q]
  /\ \A id \in Existing("suggestion") :
       \/ Cardinality(rows[id].decided) <= 1
       \/ \E q \in Requests : job[q].kind \in SuggestionKinds /\ ~alone[q]
       \/ Cardinality({q \in Requests : job[q].kind = "suggestion_result"}) > 1

CreationsStick ==
  \A q \in Requests : /\ Sticks(q, {"concept_archive", "asset_approve", "asset_reject"}, {"status"})
===============================================================================
