CONSTANTS
  Password = TRUE
  Refusals = FALSE
  ActivateCalls = FALSE
  UnlockCalls = FALSE
  LockEnabled = {TRUE, FALSE}
  MaxBeats = 2
  MaxOrphans = 1
SPECIFICATION Spec
INVARIANTS
  GoneHoldsNothing
CHECK_DEADLOCK TRUE
