SPECIFICATION Spec
CONSTANTS
  None = None
  Complaints = {k1, k2}
  Departments = {d1, d2}
  Requests = {r1, r2}
  Targets = {"IN_PROGRESS"}
SYMMETRY Symmetry
INVARIANTS
  AnswersTell
  OneCreatorOfAName
  SubmitsWhatIsShown
  ToastMeansListed
