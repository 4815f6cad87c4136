SPECIFICATION ServiceSpec
CONSTANTS
  NoComplaint = NoComplaint
  Complaints = {c1}
  Requests = {r1, r2}
  MaxRows = 4
PROPERTIES
  StrictLifecycle
