SPECIFICATION Spec
CONSTANTS
  Users = {"u1"}
  Events <- MCEvents
  MaxDeliveries <- MCDeliveries
  FaultBudget <- MCLogFailsTwice
INVARIANTS
  LogTellsOutcome
  ThrowingHasNoEffect
PROPERTIES
  OnlyTheUserChangesPreferences
