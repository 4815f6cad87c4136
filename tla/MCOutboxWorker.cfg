SPECIFICATION FairSpec
CONSTANTS
  Complaints = {c1}
  Ticks = {t1, t2}
  BATCH = 2
  MaxRows = 3
  FaultBudget <- MCOneOfEach
INVARIANTS
  OutboxGuarantee
  FirstCopiesInOrder
  CopiesBounded
PROPERTIES
  EveryEventIsPublished
