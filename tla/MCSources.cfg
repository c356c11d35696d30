\* One upload, two runs of the worker, one fault.
CONSTANTS
  Sources = {s1}
  Runs = {n1, n2}
  MaxDeliver = 2
  MaxFaults = 1
  NoEvent = NoEvent
SYMMETRY RunSymmetry
SPECIFICATION Spec
CHECK_DEADLOCK FALSE
INVARIANTS StoreMatchesRows StagesInOrder SettledWhenQuiet
PROPERTIES OutcomeIsFinal
