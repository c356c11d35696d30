\* One task, one fault; "failed" is to the copy what "completed" is: all races of its writers.
CONSTANTS
  Tasks = {t1}
  Kinds = {"started", "progress", "completed", "cancelled"}
  Reports = {100}
  MaxDeliver = 2
  MaxFaults = 1
  NoTask = NoTask
SPECIFICATION FairSpec
CHECK_DEADLOCK FALSE
INVARIANTS TerminalIsSettled AppliedAtMostOnce NotifiedIsSettled
PROPERTIES SettledOnce SettlesWithoutFaults
