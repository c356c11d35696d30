\* Any three requests of one component on one process, one failed call; two health checks; three
\* transactions on the usage.
CONSTANTS
  Requests = {q1, q2, q3}
  Processes = {p1}
  NoProcess = NoProcess
  MaxFaults = 1
  Kinds = {"comment_create", "comment_reply", "comment_update", "comment_delete",
           "comment_resolve", "comment_assign", "comment_inject", "approve",
           "bulk_approve", "new_version",
           "document_upload", "document_delete", "document_text", "document_reprocess",
           "document_result", "session_archive",
           "concept_create", "concept_generate", "concept_update", "concept_evaluate",
           "concept_approve", "concept_reject", "concept_archive",
           "asset_create", "asset_update", "asset_generate", "asset_variation",
           "asset_approve", "asset_reject",
           "suggestion_result", "suggestion_accept", "suggestion_reject",
           "project_create", "project_delete", "workflow_create", "share", "view"}
  Callers <- MCCallers
  Texts = {"t1"}
  Elements = {"e1", "e2"}
  MaxVersions = 2
  Files <- MCFiles
  MaxFileSize = 3
  MaxSessionSize = 4
  UserText = "typed"
  Titles = {"t1", "t2"}
  ProjectNames = {"n1", "n2"}
  ViewLimits <- MCViewLimits
  Dependencies = {"fastapi"}
  DisabledDependencies = {}
  Workers = {"media-worker"}
  EnabledWorkers = {"media-worker"}
  Gets = {g1, g2}
  CacheTtl = 1
  StaleAge = 1
  DownAge = 2
  KeyTtl = 3
  MaxProbe = 1
  MaxHealthTime = 4
  MaxChanges = 1
  Reservations = {"r1", "r2", "r3", "r4"}
  Running = {"r1", "r2", "r3"}
  Transactions = {1, 2, 3}
  Actuals = {2}
  MaxLostCalls = 1
SPECIFICATION Spec
CHECK_DEADLOCK FALSE
SYMMETRY Symmetry
INVARIANTS DocumentsSound CreationsSound ProjectsSound HealthIsRecent UsageIsAccounted
           UndisturbedDecisionsStick
