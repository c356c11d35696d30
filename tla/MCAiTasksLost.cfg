\* The same question with one fault.
CONSTANTS
  Tasks = {t1}
  Kinds = {"completed"}
  Reports = {100}
  MaxDeliver = 3
  MaxFaults = 1
  NoTask = NoTask
SPECIFICATION FairSpec
CHECK_DEADLOCK FALSE
PROPERTIES TerminalEventSettles
