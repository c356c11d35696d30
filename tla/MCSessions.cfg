\* Two requests of any kind around the results of up to two tasks, one fault.
CONSTANTS
  Requests = {q1, q2, q3}
  Loops = {"result", "divergence"}
  Kinds = {"patch", "edit", "archive", "commit", "export",
           "dispatch", "finalize", "delete", "mode", "override"}
  PatchStatuses = {"validated"}
  Overrides = {"in_elicitation", "needs_reconciliation"}
  MaxExecutions = 2
  MaxDeliver = 2
  MaxFaults = 1
  NoKind = NoKind
SYMMETRY RequestSymmetry
SPECIFICATION Spec
CONSTRAINT FewBegin
CHECK_DEADLOCK FALSE
INVARIANTS VersionsSound ResultsAccountedFor
PROPERTIES ArchivedStays
