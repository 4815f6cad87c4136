SPECIFICATION FairSpec
CONSTANTS
  Events = {e1, e2}
  Pods = {p1}
  BatchSize = 1
  MaxEntries = 1
  FaultBudget <- MCHandlerFails
PROPERTIES
  FailedEntryRecovered
