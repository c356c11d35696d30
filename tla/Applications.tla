----------------------------- MODULE Applications -----------------------------
(***************************************************************************)
(* Applications of one project and their versions                          *)
(* (src/modules/applications/applications.service.ts, schema-validator.ts).*)
(* Drafts, versions and publication are transactions that lock the row of  *)
(* the application from its read to the commit: nothing they read or write *)
(* changes in between, so each is one step.  update() and archive() read   *)
(* without the lock and save their copy.                                   *)
(***************************************************************************)
EXTENDS HttpRequests

CONSTANTS AppIds,         \* primary keys, 1..n in the order of insertion
          Names,          \* names of applications
          Schemas,        \* schemas clients send
          MaxDepth, MaxNodes, MaxPages,  \* limits of the validator
          NoSchema

ASSUME AppsAssumption == AppIds \subseteq Nat \ {0} /\ \E n \in AppIds : AppIds = 1..n

VARIABLES
  apps,         \* [AppIds -> Application or NoApp] table application
  appVersions   \* rows of application_version

appVars == <<apps, appVersions>>

AppKinds == {"app_create", "app_update", "app_draft", "app_version", "app_publish",
             "app_unpublish", "app_duplicate", "app_archive"}

NoApp     == [status |-> "none"]
HasApp(a) == apps[a] # NoApp
FreeApps  == {a \in AppIds : ~HasApp(a)}

NewApp(name, draft, current) ==
  [name |-> name, status |-> "draft", currentVersion |-> current, schemaRevision |-> 1,
   publishedVersion |-> {}, draftSchema |-> draft]

\* uq_application_org_project_name, and the checks that come before it.
NameTaken(name) == \E a \in AppIds : HasApp(a) /\ apps[a].name = name
\* uq_application_version_number.
VersionTaken(a, n) == \E v \in appVersions : v.app = a /\ v.number = n

-------------------------------------------------------------------------------
(* validateApplicationSchema().  A page has an id, a route, whether its    *)
(* route is well formed, and its components in the order they are visited, *)
(* each with its depth, its id and whether its type, props and styles are  *)
(* in order; children below the limit are not visited.                     *)

Visited(page)  == {i \in DOMAIN page.nodes : page.nodes[i].depth <= MaxDepth}
NodeAt(s, n)   == s.pages[n[1]].nodes[n[2]]
AllNodes(s)    == UNION {{<<p, i>> : i \in Visited(s.pages[p])} : p \in DOMAIN s.pages}

SchemaErrors(s) ==
     (IF s.schemaVersion = "1.0.0" THEN {} ELSE {"SCHEMA_VERSION_UNSUPPORTED"})
  \cup (IF Len(s.pages) <= MaxPages THEN {} ELSE {"PAGES_MAX_EXCEEDED"})
  \cup (IF \A p, r \in DOMAIN s.pages : p # r => s.pages[p].id # s.pages[r].id
        THEN {} ELSE {"PAGE_ID_DUPLICATE"})
  \cup (IF \A p, r \in DOMAIN s.pages : p # r => s.pages[p].route # s.pages[r].route
        THEN {} ELSE {"PAGE_ROUTE_DUPLICATE"})
  \cup (IF \A p \in DOMAIN s.pages : s.pages[p].rooted THEN {} ELSE {"PAGE_ROUTE_FORMAT"})
  \cup (IF \A p \in DOMAIN s.pages : s.pages[p].nodes # <<>> THEN {} ELSE {"ROOT_REQUIRED"})
  \cup (IF \A p \in DOMAIN s.pages : Visited(s.pages[p]) = DOMAIN s.pages[p].nodes
        THEN {} ELSE {"NESTING_DEPTH"})
  \cup (IF \A m, n \in AllNodes(s) : m # n => NodeAt(s, m).id # NodeAt(s, n).id
        THEN {} ELSE {"NODE_ID_DUPLICATE"})
  \cup (IF \A n \in AllNodes(s) : NodeAt(s, n).wellFormed THEN {} ELSE {"NODE_INVALID"})
  \cup (IF Cardinality(AllNodes(s)) <= MaxNodes THEN {} ELSE {"NODES_MAX_EXCEEDED"})

-------------------------------------------------------------------------------
AppInit ==
  /\ LET n == CHOOSE x \in Names : TRUE
         s == CHOOSE x \in Schemas : SchemaErrors(x) = {}
     IN apps = [a \in AppIds |-> IF a = 1 THEN NewApp(n, s, 1) ELSE NoApp]
  /\ appVersions = {[app |-> 1, number |-> 1, isPublished |-> FALSE,
                     schema |-> apps[1].draftSchema]}

AppJob(kind, phase, a, next) ==
  [kind |-> kind, at |-> NoProcess, phase |-> phase, app |-> a, next |-> next, dirty |-> {}]

CreateApp(q) ==
  /\ \E n \in Names :
       Begins(q, IF NameTaken(n) THEN Answered("app_create", "refused")
                 ELSE AppJob("app_create", "insert", 0, NewApp(n, NoSchema, 0)))
  /\ UNCHANGED appVars

InsertApp(q) ==
  /\ At(q, {"app_create"}, "insert")
  /\ IF NameTaken(job[q].next.name) THEN Ends(q, "refused") /\ UNCHANGED apps
     ELSE /\ FreeApps # {}
          /\ apps' = [apps EXCEPT ![Min(FreeApps)] = job[q].next]
          /\ Goes(q, "audit")
  /\ UNCHANGED appVersions

\* update(): a name, in a copy of the whole row.
UpdateApp(q) ==
  /\ \E a \in AppIds, n \in Names :
       /\ HasApp(a)
       /\ Begins(q, IF apps[a].status = "archived" THEN Answered("app_update", "refused")
                    ELSE AppJob("app_update", "diff", a, [apps[a] EXCEPT !.name = n]))
  /\ UNCHANGED appVars

\* archive() in a copy of the whole row.
ArchiveApp(q) ==
  /\ \E a \in AppIds :
       /\ HasApp(a)
       /\ Begins(q, AppJob("app_archive", "diff", a, [apps[a] EXCEPT !.status = "archived"]))
  /\ UNCHANGED appVars

DiffApp(q) ==
  /\ At(q, {"app_update", "app_archive"}, "diff")
  /\ job' = [job EXCEPT ![q].phase = "write",
                        ![q].dirty = Differing(job[q].next, apps[job[q].app])]
  /\ UNCHANGED <<alone, faults>> /\ UNCHANGED appVars

WriteApp(q) ==
  /\ At(q, {"app_update", "app_archive"}, "write")
  /\ LET a   == job[q].app
         row == Written(apps[a], job[q].next, job[q].dirty)
     IN IF row.name # apps[a].name /\ NameTaken(row.name)
        THEN Ends(q, "refused") /\ UNCHANGED apps
        ELSE apps' = [apps EXCEPT ![a] = row] /\ Goes(q, "audit")
  /\ UNCHANGED appVersions

-------------------------------------------------------------------------------
(* Transactions under the row lock.  A client that saves a draft has read  *)
(* the application before and may send the revision it saw.                *)

SeeDraft(q) ==
  /\ \E a \in AppIds, s \in Schemas, guarded \in BOOLEAN :
       /\ HasApp(a)
       /\ Begins(q, [kind |-> "app_draft", at |-> NoProcess, phase |-> "save", app |-> a,
                     schema |-> s, saw |-> apps[a].draftSchema,
                     expected |-> IF guarded THEN {apps[a].schemaRevision} ELSE {}])
  /\ UNCHANGED appVars

DraftAccepted(q) ==
  LET a == apps[job[q].app]
  IN /\ a.status # "archived"
     /\ job[q].expected \subseteq {a.schemaRevision}
     /\ SchemaErrors(job[q].schema) = {}

saveDraftSchema(q) ==
  /\ At(q, {"app_draft"}, "save")
  /\ IF DraftAccepted(q)
     THEN /\ apps' = [apps EXCEPT ![job[q].app].draftSchema = job[q].schema,
                                  ![job[q].app].schemaRevision = @ + 1]
          /\ Ends(q, "ok")
     ELSE Ends(q, "refused") /\ UNCHANGED apps
  /\ UNCHANGED appVersions

\* createVersion() if application_version had no unique number.
createVersionAnyway(q, a, s) ==
  /\ apps[a].status # "archived" /\ SchemaErrors(s) = {}
  /\ appVersions' = appVersions \cup
       {[app |-> a, number |-> apps[a].currentVersion + 1, isPublished |-> FALSE, schema |-> s]}
  /\ apps' = [apps EXCEPT ![a].currentVersion = @ + 1, ![a].draftSchema = s]
  /\ Begins(q, Answered("app_version", "ok"))

\* createVersion(): the version becomes the draft; schemaRevision stays.
createVersion(q, a, s) ==
  LET n == apps[a].currentVersion + 1
  IN IF apps[a].status = "archived" \/ SchemaErrors(s) # {} \/ VersionTaken(a, n)
     THEN Begins(q, Answered("app_version", "refused")) /\ UNCHANGED appVars
     ELSE /\ appVersions' = appVersions \cup
               {[app |-> a, number |-> n, isPublished |-> FALSE, schema |-> s]}
          /\ apps' = [apps EXCEPT ![a].currentVersion = n, ![a].draftSchema = s]
          /\ Begins(q, Answered("app_version", "ok"))

\* publishVersion(): the flag of a version published before stays.
publishVersion(q, v) ==
  IF apps[v.app].status = "archived" \/ v.isPublished
  THEN Begins(q, Answered("app_publish", "refused")) /\ UNCHANGED appVars
  ELSE /\ appVersions' = (appVersions \ {v}) \cup {[v EXCEPT !.isPublished = TRUE]}
       /\ apps' = [apps EXCEPT ![v.app].publishedVersion = {v.number},
                               ![v.app].status = "published"]
       /\ Begins(q, Answered("app_publish", "ok"))

Served(a) == {v \in appVersions : v.app = a /\ v.number \in apps[a].publishedVersion}

\* unpublishVersion() that leaves published_version_id.
unpublishFlagOnly(q, a) ==
  IF apps[a].status = "archived" \/ apps[a].publishedVersion = {}
  THEN Begins(q, Answered("app_unpublish", "refused")) /\ UNCHANGED appVars
  ELSE /\ appVersions' = (appVersions \ Served(a))
            \cup {[v EXCEPT !.isPublished = FALSE] : v \in Served(a)}
       /\ apps' = [apps EXCEPT ![a].status = "draft"]
       /\ Begins(q, Answered("app_unpublish", "ok"))

unpublishVersion(q, a) ==
  IF apps[a].status = "archived" \/ apps[a].publishedVersion = {}
  THEN Begins(q, Answered("app_unpublish", "refused")) /\ UNCHANGED appVars
  ELSE /\ appVersions' = (appVersions \ Served(a))
            \cup {[v EXCEPT !.isPublished = FALSE] : v \in Served(a)}
       /\ apps' = [apps EXCEPT ![a].publishedVersion = {}, ![a].status = "draft"]
       /\ Begins(q, Answered("app_unpublish", "ok"))

\* duplicate(): the draft, and the published version as the first version of the copy.
duplicate(q, a, name) ==
  IF apps[a].status = "archived" \/ NameTaken(name)
  THEN Begins(q, Answered("app_duplicate", "refused")) /\ UNCHANGED appVars
  ELSE /\ FreeApps # {}
       /\ LET b == Min(FreeApps)
          IN /\ apps' = [apps EXCEPT ![b] =
                  NewApp(name, apps[a].draftSchema, Cardinality(Served(a)))]
             /\ appVersions' = appVersions \cup
                  {[v EXCEPT !.app = b, !.number = 1, !.isPublished = FALSE] : v \in Served(a)}
       /\ Begins(q, Answered("app_duplicate", "ok"))

AuditApp(q) == Audited(q, AppKinds) /\ UNCHANGED appVars
AppFails(q) == job[q].kind \in AppKinds /\ Fails(q) /\ UNCHANGED appVars

AppNext ==
  \E q \in Requests :
    \/ CreateApp(q) \/ InsertApp(q) \/ UpdateApp(q) \/ ArchiveApp(q) \/ DiffApp(q) \/ WriteApp(q)
    \/ SeeDraft(q) \/ saveDraftSchema(q) \/ AuditApp(q) \/ AppFails(q)
    \/ \E a \in {x \in AppIds : HasApp(x)}, s \in Schemas : createVersion(q, a, s)
    \/ \E v \in appVersions : publishVersion(q, v)
    \/ \E a \in {x \in AppIds : HasApp(x)} : unpublishVersion(q, a)
    \/ \E a \in {x \in AppIds : HasApp(x)}, n \in Names : duplicate(q, a, n)

AppSpec == RequestInit /\ AppInit /\ [][AppNext]_<<requestVars, appVars>>

-------------------------------------------------------------------------------
AppTypeOK ==
  /\ \A a \in AppIds : HasApp(a) =>
       /\ apps[a].name \in Names /\ apps[a].status \in {"draft", "published", "archived"}
       /\ apps[a].currentVersion \in Nat /\ apps[a].schemaRevision \in Nat \ {0}
       /\ apps[a].draftSchema \in Schemas \cup {NoSchema}
  /\ \A v \in appVersions : v.app \in AppIds /\ v.number \in Nat /\ v.schema \in Schemas

NumbersOf(a) == {v.number : v \in {x \in appVersions : x.app = a}}

\* The versions of an application are numbered 1, 2, 3... without a gap or a repetition,
\* although a stale save() may set current_version back below the newest of them.
AppVersionsDense ==
  \A a \in AppIds : HasApp(a) =>
    /\ NumbersOf(a) = 1..Cardinality(NumbersOf(a))
    /\ Cardinality({v \in appVersions : v.app = a}) = Cardinality(NumbersOf(a))
    /\ apps[a].currentVersion \in NumbersOf(a) \cup {0}

\* The version that getPublishedVersion() serves is marked as published, unless a stale
\* save() of a rename or an archival wrote published_version_id back.
ServedIsPublished ==
  \A a \in AppIds : HasApp(a) =>
    \/ \A v \in Served(a) : v.isPublished
    \/ \E q \in Requests : job[q].kind \in {"app_update", "app_archive"} /\ ~alone[q]

\* "Fails with 409 if the stored revision differs": a draft saved with the revision
\* its author saw replaces the draft its author saw.
RevisionProtectsDraft ==
  [][\A q \in Requests :
       job[q].kind = "app_draft" /\ job[q].phase = "save" /\ job'[q].phase = "ok"
         => job[q].expected = {} \/ apps[job[q].app].draftSchema = job[q].saw]_<<job, apps>>
===============================================================================
