\* One object, edited and deleted; no preview is needed for the question.
CONSTANTS
  Home = w1
  Other = w2
  Workspaces = {w1, w2}
  Objects = {o1}
  OpIds = {op1}
  Requests = {r1, r2}
  MaxRevision = 2
  Keys = {k1, k2, k3}
  ForeignKeys = {k3}
  KeyWorkspace <- KeyWorkspaceOf
  Targets = {g1}
  Previews = {p1, p2}
  MaxFaults = 1
  NoWorkspace = NoWorkspace
  NoObject = NoObject
  ServerId = ServerId
  Free = Free
  NoKey = NoKey
  NoTarget = NoTarget
SPECIFICATION Spec
CHECK_DEADLOCK FALSE
INVARIANTS DeletionTakesEffect
SYMMETRY CanvasSymmetry
