SPECIFICATION ServiceFairSpec
CONSTANTS
  NoComplaint = NoComplaint
  Complaints = {c1, c2}
  Requests = {r1, r2, r3}
  MaxRows = 5
INVARIANTS
  OutboxMirrorsHistory
  OutboxInCommitOrder
  StatusIsLastRecorded
  FromWasOnceTheStatus
  WritersDoNotInterfere
PROPERTIES
  TransactionsEnd
  OutboxContract
  ImplementsLifecycle
