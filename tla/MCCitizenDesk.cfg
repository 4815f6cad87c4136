SPECIFICATION FairSpec
CONSTANTS
  None = None
  Earlier = Earlier
  Emails = {"ann@example.org"}
  Citizen = "ann@example.org"
  Requests = {r1, r2}
  Polls = {p1, p2}
  Callers = {r1, r2, p1, p2}
  Limit = 2
  Take = 1
  Slice = 1
  MaxRows = 2
  MaxFaults = 1
INVARIANTS
  LimitKept
  LockedOutOnlyByCrash
  RegistrationTells
  StaleOnlyByLateFill
  DeskTellsTheTruth
PROPERTIES
  ToldEventually
