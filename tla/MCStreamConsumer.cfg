SPECIFICATION FairSpec
CONSTANTS
  Events = {e1, e2}
  Pods = {p1, p2}
  BatchSize = 2
  MaxEntries = 3
  FaultBudget <- MCOneOfEach
INVARIANTS
  AcknowledgedIsHandled
  StrandedBounded
  EventHandledOnce
  EntryHandledOnce
PROPERTIES
  EveryEntrySettles
