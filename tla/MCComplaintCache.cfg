SPECIFICATION Spec
CONSTANTS
  MaxComplaints = 2
  MaxChanges = 2
  MaxFailures = 1
  Handlers = {h1, h2}
  Filters = {"ALL", "OPEN"}
  Limits = {1, 2}
SYMMETRY Symmetry
INVARIANTS
  DetailIsCurrentOrPurged
  ListLacksOnlyLaterCommits
