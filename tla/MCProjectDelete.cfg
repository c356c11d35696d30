\* The deletion of a project that has a workflow.
CONSTANTS
  Requests = {q1, q2, q3}
  Processes = {p1}
  NoProcess = NoProcess
  MaxFaults = 0
  Kinds = {"project_delete"}
  Callers <- MCCallers
  Texts = {"t1"}
  Elements = {"e1", "e2"}
  MaxVersions = 2
  Files <- MCFiles
  MaxFileSize = 3
  MaxSessionSize = 4
  UserText = "typed"
  Titles = {"t1", "t2"}
  ProjectNames = {"n1", "n2"}
  ViewLimits <- MCViewLimits
  Dependencies = {"fastapi"}
  DisabledDependencies = {}
  Workers = {"media-worker"}
  EnabledWorkers = {"media-worker"}
  Gets = {g1, g2}
  CacheTtl = 1
  StaleAge = 1
  DownAge = 2
  KeyTtl = 3
  MaxProbe = 1
  MaxHealthTime = 4
  MaxChanges = 1
  Reservations = {"r1", "r2", "r3", "r4"}
  Running = {"r1", "r2", "r3"}
  Transactions = {1, 2, 3}
  Actuals = {2}
  MaxLostCalls = 1
SPECIFICATION Spec
CHECK_DEADLOCK FALSE
SYMMETRY Symmetry
INVARIANTS DeletionCascades
