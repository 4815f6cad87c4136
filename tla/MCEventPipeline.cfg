SPECIFICATION FairSpec
CONSTANTS
  NoComplaint = NoComplaint
  Complaints = {c1}
  Requests = {r1}
  MaxRows = 2
  Ticks = {t1, t2}
  BATCH = 2
  WorkerFaultBudget <- MCWorkerCrashes
  Pods = {p1}
  BatchSize = 2
  ConsumerFaultBudget <- MCNotAcknowledged
PROPERTIES
  DeliversOnceInOrder
  EveryChangeAnnounced
