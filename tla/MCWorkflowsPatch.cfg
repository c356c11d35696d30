\* create() and three PATCH requests of the elements, no fault: two that overlap, one after them.
CONSTANTS
  Requests = {q1, q2, q3, q4}
  Loops = {"result", "divergence"}
  Kinds = {"patch"}
  PatchStatuses = {}
  Overrides = {}
  MaxExecutions = 1
  MaxDeliver = 3
  MaxFaults = 0
  NoKind = NoKind
SYMMETRY RequestSymmetry
SPECIFICATION Spec
CONSTRAINT FewBegin
CHECK_DEADLOCK FALSE
INVARIANTS PatchCreatesVersion
