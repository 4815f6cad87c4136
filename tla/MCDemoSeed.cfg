SPECIFICATION DemoSpec
CONSTANTS
  None = None
  Complaints = {k1, k2}
  Departments = {roads, ops}
  Legacy = {ops}
  Home = roads
  Requests = {r1}
  MaxRuns = 4
  MaxChanges = 1
SYMMETRY Symmetry
INVARIANTS
  RerunConverges
  DemoShowsViolations
